--------------------------------- MODULE Portal --------------------------------
(***************************************************************************)
(* Signing in to the hosted portal: boot, the login form, the automatic    *)
(* resume with a saved key, logout and expiry (apps/web/src/main.ts). All  *)
(* of it runs on one thread, but every await lets the others in: resume,   *)
(* login, logout and expiry are tasks that keep a place and what they have *)
(* read, and one variable, encryptedBridge, is written by all of them.     *)
(*                                                                         *)
(* A bridge gets a number when the computer has accepted its key; once no  *)
(* task and no variable refers to it, nothing it does reaches the page and *)
(* its number is used again. The inside of a bridge is module Bridge.      *)
(* loadSessions' two requests are one; deleting the stored key is taken to *)
(* succeed, saving it may fail. One login form is submitted at a time.     *)
(* encryptedPortal is TRUE: the direct portal has no key, no bridge and no *)
(* resume.                                                                 *)
(***************************************************************************)
EXTENDS Naturals, FiniteSets

CONSTANTS
  Old, New,    \* portal tokens, before and after the computer's is replaced; each
               \* stands for the key derived from it too
  None,        \* no key
  Bridges,     \* numbers of bridges
  MaxReloads   \* bound: times the process of the page is killed

ASSUME PortalAssumption ==
  /\ Cardinality({Old, New, None}) = 3
  /\ Bridges = 1..3
  /\ MaxReloads \in Nat

Tokens == {Old, New}
Keys == Tokens \cup {None}

VARIABLES
  open,          \* bridges in use that have not failed
  encryptedBridge, \* the one the page uses, 0 for undefined
  authenticated, \* state.authenticated
  key,           \* portalResumeKey
  stored,        \* the key in IndexedDB
  token,         \* the portal token of the computer
  resume,        \* portalReconnect
  login,         \* the login form's submit handler
  logout,        \* the Log out handler; "done" until a token is typed
  expiry,        \* api() after an answer 401
  timer,         \* portalReconnectTimer is set
  soon,          \* what runs before anything else: a queued microtask, or the call
                 \* an event handler consists of
  page,          \* login, home (dashboard, workflows or desktop) or terminal
  visible,       \* document.visibilityState
  overlap,       \* history: a login and a resume were under way together in this process
  reloads

vars == <<open, encryptedBridge, authenticated, key, stored, token, resume, login, logout,
          expiry, timer, soon, page, visible, overlap, reloads>>

Portal == {"home", "terminal"}
NoResume == [at |-> "idle", b |-> 0, key |-> None]
NoLogin == [at |-> "idle", b |-> 0, key |-> None, remember |-> FALSE]

TypeOK ==
  /\ open \subseteq Bridges
  /\ encryptedBridge \in Bridges \cup {0}
  /\ {authenticated, timer, visible} \subseteq BOOLEAN
  /\ key \in Keys /\ stored \in Keys /\ token \in Tokens
  /\ resume \in [at : {"idle", "connect", "load", "clear"}, b : Bridges \cup {0}, key : Keys]
  /\ login \in [at : {"idle", "connect", "save", "load"}, b : Bridges \cup {0}, key : Keys,
                remember : BOOLEAN]
  /\ logout \in {"idle", "asking", "clear", "done"} /\ expiry \in {"idle", "clear"}
  /\ soon \in {"none", "resume", "login"}
  /\ page \in Portal \cup {"login"}
  /\ overlap \in BOOLEAN /\ reloads \in 0..MaxReloads

Fresh == CHOOSE b \in Bridges : b \notin {encryptedBridge, resume.b, login.b}
Ready(b) == b \in open

\* The bridges that are open after a step, of those still in use.
Open(S) == open' = S \cap {encryptedBridge', resume'.b, login'.b}

\* What EncryptedBridge.fail does last: the page's own bridge is gone and the user
\* was signed in, so a resume follows, or the login page when there is no key.
HeldFails(k) ==
  /\ encryptedBridge' = 0 /\ authenticated' = FALSE
  /\ soon' = IF k # None THEN "resume" ELSE "login"

--------------------------------------------------------------------------------
(* resumeEncryptedPortal *)

\* Its first line, and its single flight: every other call returns at once.
MayResume(vis) == key # None /\ ~authenticated /\ vis /\ resume.at = "idle"

\* Its call. The bridge in use, if any, is dropped first and then closed.
resumeEncryptedPortal ==
  /\ soon = "resume"
  /\ soon' = "none"
  /\ IF MayResume(visible)
     THEN /\ resume' = [at |-> "connect", b |-> 0, key |-> key]
          /\ encryptedBridge' = 0
          /\ timer' = FALSE
          /\ overlap' = (overlap \/ login.at # "idle")
     ELSE UNCHANGED <<resume, encryptedBridge, timer, overlap>>
  /\ UNCHANGED login /\ Open(open \ {IF resume' = resume THEN 0 ELSE encryptedBridge})
  /\ UNCHANGED <<authenticated, key, stored, token, logout, expiry, page, visible, reloads>>

\* connectWithKey resolved: the computer accepted the key.
ResumeConnected ==
  /\ soon = "none"
  /\ resume.at = "connect" /\ resume.key = token
  /\ encryptedBridge' = Fresh
  /\ authenticated' = TRUE
  /\ resume' = [resume EXCEPT !.at = "load", !.b = Fresh]
  /\ UNCHANGED login /\ Open(open \cup {Fresh})
  /\ UNCHANGED <<key, stored, token, logout, expiry, timer, soon, page, visible, overlap, reloads>>

\* The page after a resume: a terminal that is gone becomes the dashboard, one that was
\* selected when the resume began may be opened; otherwise the remembered view.
ResumeLoaded ==
  /\ soon = "none"
  /\ resume.at = "load" /\ Ready(resume.b)
  /\ resume' = NoResume
  /\ page' \in Portal
  /\ UNCHANGED <<encryptedBridge, login>> /\ Open(open)
  /\ UNCHANGED <<authenticated, key, stored, token, logout,
                 expiry, timer, soon, visible, overlap, reloads>>

\* Mutant: the login page replaces whatever is shown.
WakingPage_Login == "login"

\* activePortalView: a portal page stays while the computer wakes up.
WakingPage == IF page \in Portal THEN page ELSE "login"

\* Mutant: a failed attempt is the last one.
RetryTimer_Off == FALSE

\* The retry after 2.5 s.
RetryTimer == key # None /\ visible

\* The catch clause, for an attempt or a load that failed in any way but a refused
\* key. The new bridge is not closed: it may still be connecting.
ResumeFailed ==
  /\ soon = "none"
  /\ resume.at \in {"connect", "load"}
  /\ encryptedBridge' = 0 /\ authenticated' = FALSE
  /\ resume' = NoResume
  /\ page' = WakingPage
  /\ timer' = RetryTimer
  /\ UNCHANGED login /\ Open(open)
  /\ UNCHANGED <<key, stored, token, logout, expiry, soon, visible, overlap, reloads>>

\* The catch clause for "Invalid portal token", which is what any close with code 1008
\* is called: a wrong key, but also the connector's "Authentication timed out", and a
\* bridge that is closed so while the sessions load. clearPortalResumeKey forgets the
\* key at once and deletes the stored one later.
ResumeRefused ==
  /\ soon = "none"
  /\ resume.at = "connect" \/ (resume.at = "load" /\ ~Ready(resume.b))
  /\ encryptedBridge' = 0 /\ authenticated' = FALSE
  /\ key' = None /\ timer' = FALSE
  /\ resume' = [resume EXCEPT !.at = "clear"]
  /\ UNCHANGED login /\ Open(open)
  /\ UNCHANGED <<stored, token, logout, expiry, soon, page, visible, overlap, reloads>>

ResumeCleared ==
  /\ soon = "none"
  /\ resume.at = "clear"
  /\ stored' = None
  /\ resume' = NoResume
  /\ page' = "login"
  /\ UNCHANGED <<open, encryptedBridge, authenticated, key, token, login, logout, expiry, timer,
                 soon, visible, overlap, reloads>>

\* portalReconnectTimer.
TimerFires ==
  /\ soon = "none"
  /\ timer
  /\ timer' = FALSE /\ soon' = "resume"
  /\ UNCHANGED <<open, encryptedBridge, authenticated, key, stored, token, resume, login,
                 logout, expiry, page, visible, overlap, reloads>>

\* visibilitychange, pageshow and online; iOS hides the page behind its file picker.
Shown ==
  /\ soon = "none"
  /\ ~visible \/ MayResume(visible)
  /\ visible' = TRUE
  /\ soon' = IF MayResume(TRUE) THEN "resume" ELSE "none"
  /\ UNCHANGED <<open, encryptedBridge, authenticated, key, stored, token, resume, login,
                 logout, expiry, timer, page, overlap, reloads>>

Hidden ==
  /\ soon = "none"
  /\ visible
  /\ visible' = FALSE
  /\ UNCHANGED <<open, encryptedBridge, authenticated, key, stored, token, resume, login,
                 logout, expiry, timer, soon, page, overlap, reloads>>

\* readyUploadBridge with a bridge that is not ready: sign in anew.
readyUploadBridge ==
  /\ soon = "none"
  /\ page \in Portal /\ key # None
  /\ IF authenticated THEN ~Ready(encryptedBridge) ELSE MayResume(visible)
  /\ authenticated' = FALSE /\ soon' = "resume"
  /\ UNCHANGED <<open, encryptedBridge, key, stored, token, resume, login, logout, expiry,
                 timer, page, visible, overlap, reloads>>

--------------------------------------------------------------------------------
(* The login form *)

\* Submitting it stops the automatic retry and closes the bridge in use. A token
\* that is too short ends the handler there.
submit(t, remember) ==
  /\ soon = "none"
  /\ page = "login" /\ login.at = "idle"
  /\ timer' = FALSE
  /\ logout' = IF logout = "done" THEN "idle" ELSE logout
  /\ login' = [at |-> "connect", b |-> 0, key |-> t, remember |-> remember]
  /\ overlap' = (overlap \/ resume.at # "idle")
  /\ IF Ready(encryptedBridge) /\ authenticated THEN HeldFails(key)
     ELSE UNCHANGED <<encryptedBridge, authenticated, soon>>
  /\ UNCHANGED resume /\ Open(open \ {encryptedBridge})
  /\ UNCHANGED <<key, stored, token, expiry, page, visible, reloads>>

SubmitShort ==
  /\ soon = "none"
  /\ page = "login" /\ login.at = "idle" /\ timer
  /\ timer' = FALSE
  /\ UNCHANGED <<open, encryptedBridge, authenticated, key, stored, token, resume, login,
                 logout, expiry, soon, page, visible, overlap, reloads>>

\* The key is kept, or forgotten at once by clearPortalResumeKey.
LoginConnected ==
  /\ soon = "none"
  /\ login.at = "connect" /\ login.key = token
  /\ encryptedBridge' = Fresh
  /\ key' = IF login.remember THEN login.key ELSE None
  /\ timer' = (timer /\ login.remember)
  /\ login' = [login EXCEPT !.at = "save"]
  /\ UNCHANGED resume /\ Open(open \cup {Fresh})
  /\ UNCHANGED <<authenticated, stored, token, logout, expiry, soon, page, visible, overlap, reloads>>

LoginFailed ==
  /\ soon = "none"
  /\ login.at \in {"connect", "load"}
  /\ login' = NoLogin
  /\ UNCHANGED <<encryptedBridge, resume>> /\ Open(open)
  /\ UNCHANGED <<authenticated, key, stored, token, logout,
                 expiry, timer, soon, page, visible, overlap, reloads>>

\* savePortalResumeKey, which may fail, or the deletion. The load that follows runs
\* on whatever bridge the page uses by now.
LoginSaved ==
  /\ soon = "none"
  /\ login.at = "save"
  /\ stored' \in IF login.remember THEN {login.key, stored} ELSE {None}
  /\ authenticated' = TRUE
  /\ login' = IF encryptedBridge # 0 THEN [login EXCEPT !.at = "load", !.b = encryptedBridge]
              ELSE NoLogin
  /\ UNCHANGED <<open, encryptedBridge, key, token, resume, logout, expiry, timer, soon, page,
                 visible, overlap, reloads>>

\* renderRememberedView.
LoginLoaded ==
  /\ soon = "none"
  /\ login.at = "load" /\ Ready(login.b)
  /\ login' = NoLogin
  /\ page' \in Portal
  /\ UNCHANGED <<encryptedBridge, resume>> /\ Open(open)
  /\ UNCHANGED <<authenticated, key, stored, token, logout,
                 expiry, timer, soon, visible, overlap, reloads>>

--------------------------------------------------------------------------------
(* Logout and expiry *)

Logout ==
  /\ soon = "none"
  /\ page = "home" /\ logout \in {"idle", "done"}
  /\ logout' = "asking"
  /\ UNCHANGED <<open, encryptedBridge, authenticated, key, stored, token, resume, login,
                 expiry, timer, soon, page, visible, overlap, reloads>>

\* Mutant: without the finally clause only an answer gets the user out.
LogoutGoesOn_Answered == Ready(encryptedBridge)

\* finally: the answer, an error and a lost bridge are all the same.
LogoutGoesOn == TRUE

LogoutAnswered ==
  /\ soon = "none"
  /\ logout = "asking" /\ LogoutGoesOn
  /\ authenticated' = FALSE
  /\ key' = None /\ timer' = FALSE
  /\ logout' = "clear"
  /\ UNCHANGED <<open, encryptedBridge, stored, token, resume, login, expiry, soon, page,
                 visible, overlap, reloads>>

\* The bridge is closed before encryptedBridge is cleared, so that fail runs in full.
LogoutDone ==
  /\ soon = "none"
  /\ logout = "clear"
  /\ stored' = None
  /\ encryptedBridge' = 0
  /\ IF Ready(encryptedBridge) /\ authenticated THEN HeldFails(key)
     ELSE UNCHANGED <<authenticated, soon>>
  /\ page' = "login"
  /\ logout' = "done"
  /\ UNCHANGED <<resume, login>> /\ Open(open \ {encryptedBridge})
  /\ UNCHANGED <<key, token, expiry, timer, visible, overlap, reloads>>

\* api() gets 401 on a request of the page or of a load: the daemon's own session has
\* ended.
Expired ==
  /\ soon = "none"
  /\ expiry = "idle" /\ Ready(encryptedBridge)
  /\ page \in Portal \/ "load" \in {resume.at, login.at}
  /\ expiry' = "clear"
  /\ authenticated' = FALSE
  /\ key' = None /\ timer' = FALSE
  /\ UNCHANGED <<open, encryptedBridge, stored, token, resume, login, logout, soon, page,
                 visible, overlap, reloads>>

\* Here encryptedBridge is cleared first, so that fail leaves the page alone.
ExpiredDone ==
  /\ soon = "none"
  /\ expiry = "clear"
  /\ expiry' = "idle"
  /\ stored' = None
  /\ encryptedBridge' = 0
  /\ page' = "login"
  /\ UNCHANGED <<resume, login>> /\ Open(open \ {encryptedBridge})
  /\ UNCHANGED <<authenticated, key, token, logout, timer, soon, visible, overlap, reloads>>

\* closed(1008) of a terminal: login is shown; key and bridge stay as they are.
TerminalExpired ==
  /\ soon = "none"
  /\ page = "terminal" /\ Ready(encryptedBridge)
  /\ authenticated' = FALSE
  /\ page' = "login"
  /\ UNCHANGED <<open, encryptedBridge, key, stored, token, resume, login, logout, expiry,
                 timer, soon, visible, overlap, reloads>>

--------------------------------------------------------------------------------
(* The network, the user and the process *)

\* EncryptedBridge.fail on a bridge that was ready.
BridgeLost(b) ==
  /\ soon = "none"
  /\ Ready(b)
  /\ IF b = encryptedBridge /\ authenticated THEN HeldFails(key)
     ELSE UNCHANGED <<encryptedBridge, authenticated, soon>>
  /\ UNCHANGED <<resume, login>> /\ Open(open \ {b})
  /\ UNCHANGED <<key, stored, token, logout, expiry, timer, page, visible, overlap, reloads>>

\* The microtask of fail without a key.
LoginRendered ==
  /\ soon = "login"
  /\ soon' = "none" /\ page' = "login"
  /\ UNCHANGED <<open, encryptedBridge, authenticated, key, stored, token, resume, login,
                 logout, expiry, timer, visible, overlap, reloads>>

\* The user goes back to the dashboard, or to the workflow.
renderSessions ==
  /\ soon = "none"
  /\ page = "terminal"
  /\ page' = "home"
  /\ UNCHANGED <<open, encryptedBridge, authenticated, key, stored, token, resume, login,
                 logout, expiry, timer, soon, visible, overlap, reloads>>

\* The user goes to the desktop page, or back to its sources. With a bridge that is one
\* more page of those called home; without one the login page is shown, whatever key
\* there is and whatever resume is under way.
renderDesktop ==
  /\ soon = "none"
  /\ page = "home" /\ encryptedBridge = 0
  /\ page' = "login"
  /\ UNCHANGED <<open, encryptedBridge, authenticated, key, stored, token, resume, login, logout,
                 expiry, timer, soon, visible, overlap, reloads>>

\* The user opens a terminal of the list that was loaded.
renderTerminal ==
  /\ soon = "none"
  /\ page = "home"
  /\ page' = "terminal"
  /\ UNCHANGED <<open, encryptedBridge, authenticated, key, stored, token, resume, login,
                 logout, expiry, timer, soon, visible, overlap, reloads>>

\* The portal token is replaced on the computer (external).
Rotate ==
  /\ soon = "none"
  /\ token = Old
  /\ token' = New
  /\ UNCHANGED <<open, encryptedBridge, authenticated, key, stored, resume, login, logout,
                 expiry, timer, soon, page, visible, overlap, reloads>>

\* boot, after iOS has killed the process: only IndexedDB is left.
Reload ==
  /\ soon = "none"
  /\ reloads < MaxReloads
  /\ reloads' = reloads + 1
  /\ open' = {}
  /\ encryptedBridge' = 0 /\ authenticated' = FALSE /\ timer' = FALSE
  /\ key' = stored
  /\ resume' = NoResume /\ login' = NoLogin
  /\ logout' = "idle" /\ expiry' = "idle"
  /\ soon' = (IF stored # None THEN "resume" ELSE "none")
  /\ page' = "login" /\ visible' = TRUE /\ overlap' = FALSE
  /\ UNCHANGED <<stored, token>>

--------------------------------------------------------------------------------

Init ==
  /\ open = {}
  /\ encryptedBridge = 0 /\ authenticated = FALSE /\ timer = FALSE
  /\ token = Old /\ stored \in {Old, None} /\ key = stored
  /\ resume = NoResume /\ login = NoLogin
  /\ logout = "idle" /\ expiry = "idle"
  /\ soon = (IF stored # None THEN "resume" ELSE "none")
  /\ page = "login" /\ visible = TRUE /\ overlap = FALSE /\ reloads = 0

ResumeStep == ResumeConnected \/ ResumeLoaded \/ ResumeFailed \/ ResumeRefused \/ ResumeCleared
LogoutStep == LogoutAnswered \/ LogoutDone
LoginStep == LoginConnected \/ LoginFailed \/ LoginSaved \/ LoginLoaded

Next ==
  \/ resumeEncryptedPortal \/ LoginRendered
  \/ ResumeStep \/ LoginStep \/ LogoutStep
  \/ TimerFires \/ Shown \/ Hidden \/ readyUploadBridge
  \/ \E t \in Tokens, remember \in BOOLEAN : submit(t, remember)
  \/ SubmitShort \/ Logout \/ Expired \/ ExpiredDone \/ TerminalExpired
  \/ \E b \in Bridges : BridgeLost(b)
  \/ renderSessions \/ renderDesktop \/ renderTerminal \/ Rotate \/ Reload

Spec == Init /\ [][Next]_vars

\* Microtasks and timers run; an attempt or a request ends one way or the other
\* (each has a timeout); storage answers. Users, network and token owe nothing.
Fairness ==
  /\ WF_vars(resumeEncryptedPortal) /\ WF_vars(LoginRendered)
  /\ WF_vars(TimerFires) /\ WF_vars(ResumeStep)
  /\ SF_vars(LogoutStep)

FairSpec == Spec /\ Fairness

--------------------------------------------------------------------------------
(* Properties *)

\* While the page has a key to resume with, no lost connection and no failed attempt
\* replaces a portal page by the login page: only a refused key, Log out, the
\* daemon's 401 or 1008, a new process, and the user who asks for the desktop page
\* while there is no bridge do.
KeptVisible ==
  [][(page \in Portal /\ page' = "login") =>
       \/ key = None \/ resume.at = "clear" \/ logout = "clear" \/ expiry = "clear"
       \/ TerminalExpired \/ renderDesktop \/ reloads' # reloads]_vars

\* On a portal page that has lost its bridge the resume never dies out: there is
\* always another attempt, as long as there is a key and the page is looked at, and
\* unless a login has overlapped a resume: the two share encryptedBridge.
ResumeGoesOn ==
  (page \in Portal /\ ~authenticated /\ encryptedBridge = 0 /\ key # None) ~>
    \/ resume.at = "connect" \/ authenticated \/ encryptedBridge # 0
    \/ key = None \/ ~visible \/ page = "login" \/ overlap

\* Log out gets to the login page whatever becomes of the request and the bridge.
LogoutEnds == (logout = "asking") ~> (page = "login")

\* After Log out nobody is signed in until a token is typed or the process is new.
LogoutSticks == (logout = "done" /\ login.at = "idle") => ~authenticated
================================================================================
