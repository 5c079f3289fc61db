------------------------------ MODULE PortalProofs -----------------------------
(***************************************************************************)
(* Proofs about the sign-in of the hosted portal.                          *)
(***************************************************************************)
EXTENDS Portal, TLAPS

\* What KeptVisible rests on: the microtask that shows the login page is queued by
\* EncryptedBridge.fail only when there is no key, and nothing that runs before it
\* can set one; and the count of processes is a number.
LoginQueued == (soon = "login" => key = None) /\ reloads \in Nat

LEMMA LoginQueuedStep == ASSUME LoginQueued, [Next]_vars PROVE LoginQueued'
<1> USE DEF LoginQueued, vars
<1>1. CASE resumeEncryptedPortal BY <1>1 DEF resumeEncryptedPortal
<1>2. CASE LoginRendered BY <1>2 DEF LoginRendered
<1>3. CASE ResumeStep
  BY <1>3 DEF ResumeStep, ResumeConnected, ResumeLoaded, ResumeFailed, ResumeRefused, ResumeCleared
<1>4. CASE LoginStep
  BY <1>4 DEF LoginStep, LoginConnected, LoginFailed, LoginSaved, LoginLoaded
<1>5. CASE LogoutStep
  BY <1>5 DEF LogoutStep, LogoutAnswered, LogoutDone, HeldFails
<1>6. CASE TimerFires \/ Shown \/ Hidden \/ readyUploadBridge
  BY <1>6 DEF TimerFires, Shown, Hidden, readyUploadBridge
<1>7. ASSUME NEW t \in Tokens, NEW remember \in BOOLEAN, submit(t, remember) PROVE LoginQueued'
  BY <1>7 DEF submit, HeldFails
<1>8. CASE SubmitShort \/ Logout \/ Expired \/ ExpiredDone \/ TerminalExpired
  BY <1>8 DEF SubmitShort, Logout, Expired, ExpiredDone, TerminalExpired
<1>9. ASSUME NEW b \in Bridges, BridgeLost(b) PROVE LoginQueued'
  BY <1>9 DEF BridgeLost, HeldFails
<1>10. CASE renderSessions \/ renderDesktop \/ renderTerminal \/ Rotate \/ Reload
  BY <1>10 DEF renderSessions, renderDesktop, renderTerminal, Rotate, Reload
<1>11. CASE UNCHANGED vars BY <1>11
<1> QED BY <1>1, <1>2, <1>3, <1>4, <1>5, <1>6, <1>7, <1>8, <1>9, <1>10, <1>11 DEF Next

\* The steps that take a portal page away, each with its reason.
LEMMA PageTaken ==
  ASSUME LoginQueued, Next, page \in Portal, page' = "login"
  PROVE  \/ key = None \/ resume.at = "clear" \/ logout = "clear" \/ expiry = "clear"
         \/ TerminalExpired \/ renderDesktop \/ reloads' # reloads
<1> USE DEF LoginQueued, Portal
<1>1. CASE resumeEncryptedPortal BY <1>1 DEF resumeEncryptedPortal
<1>2. CASE LoginRendered BY <1>2 DEF LoginRendered
<1>3. CASE ResumeStep
  BY <1>3 DEF ResumeStep, ResumeConnected, ResumeLoaded, ResumeFailed, WakingPage,
              ResumeRefused, ResumeCleared
<1>4. CASE LoginStep
  BY <1>4 DEF LoginStep, LoginConnected, LoginFailed, LoginSaved, LoginLoaded
<1>5. CASE LogoutStep
  BY <1>5 DEF LogoutStep, LogoutAnswered, LogoutDone
<1>6. CASE TimerFires \/ Shown \/ Hidden \/ readyUploadBridge
  BY <1>6 DEF TimerFires, Shown, Hidden, readyUploadBridge
<1>7. ASSUME NEW t \in Tokens, NEW remember \in BOOLEAN, submit(t, remember) PROVE FALSE
  BY <1>7 DEF submit
<1>8. CASE SubmitShort \/ Logout \/ Expired \/ ExpiredDone
  BY <1>8 DEF SubmitShort, Logout, Expired, ExpiredDone
<1>9. ASSUME NEW b \in Bridges, BridgeLost(b) PROVE FALSE
  BY <1>9 DEF BridgeLost
<1>10. CASE renderSessions \/ renderTerminal \/ Rotate \/ Reload
  BY <1>10 DEF renderSessions, renderTerminal, Rotate, Reload
<1>11. CASE renderDesktop BY <1>11
<1> QED BY <1>1, <1>2, <1>3, <1>4, <1>5, <1>6, <1>7, <1>8, <1>9, <1>10, <1>11 DEF Next

\* While there is a key to resume with, neither a lost bridge nor a failed attempt of
\* resumeEncryptedPortal replaces a portal page by the login page; renderDesktop, which
\* the user calls, does when there is no bridge.
THEOREM PortalKeptVisible == Spec => KeptVisible
<1>1. Init => LoginQueued
  BY DEF Init, LoginQueued
<1>2. LoginQueued /\ [Next]_vars =>
        [(page \in Portal /\ page' = "login") =>
           \/ key = None \/ resume.at = "clear" \/ logout = "clear" \/ expiry = "clear"
           \/ TerminalExpired \/ renderDesktop \/ reloads' # reloads]_vars
  BY PageTaken
<1> QED BY <1>1, <1>2, LoginQueuedStep, PTL DEF Spec, KeptVisible
================================================================================
