-------------------------------- MODULE Desktop --------------------------------
(***************************************************************************)
(* The remote desktop page of the portal: renderDesktop of                 *)
(* apps/web/src/main.ts with the full desktop (noVNC) and the              *)
(* selected-window view, the touch and pointer handlers of both            *)
(* (installDesktopTouchBridge, installWindowInput) and the frame renderer  *)
(* (createWindowRenderer).                                                 *)
(*                                                                         *)
(* A point is the identifier of the finger it belongs to, a frame its      *)
(* number; coordinates, buttons and key codes are left out. noVNC is       *)
(* external: it takes mouse and key events while connected and not         *)
(* viewOnly, and viewOnly is always the negation of controlEnabled. Its    *)
(* credentials form changes none of this state and is left out.            *)
(***************************************************************************)
EXTENDS Naturals

CONSTANTS
  Touches,     \* identifiers a browser gives to fingers
  None,        \* undefined
  MaxFrames    \* bound: frames that arrive in one view

ASSUME DesktopAssumption == None \notin Touches /\ MaxFrames \in Nat

VARIABLES
  mode,        \* "none" (the source picker), "desktop", "window" or "away" (another page)
  windows,     \* the window list: "reading", "shown" or "empty"
  link,        \* readyState of state.desktopLink or state.windowLink
  controlEnabled,
  glass,       \* fingers on the screen
  touchId, pendingTouchPoint, touchAnimationFrame,
  button,      \* a mouse button is held over the canvas
  pendingMove, animationFrame,
  pressed,     \* what holds a button down at the Mac: "touch", "mouse"
  orphaned,    \* the part of pressed whose view is gone: its "up" cannot be sent
  sent,        \* the message the last step sent, or None
  received,    \* frames that arrived in this view
  pending, drawing, settled   \* the renderer; settled: the last frame drawn or given up

pageVars == <<mode, windows, link, controlEnabled>>
touchVars == <<touchId, pendingTouchPoint, touchAnimationFrame>>
mouseVars == <<pendingMove, animationFrame>>
frameVars == <<received, pending, drawing, settled>>
macVars == <<pressed, orphaned>>
vars == <<pageVars, glass, touchVars, button, mouseVars, macVars, sent, frameVars>>

Message(action) == [action |-> action, point |-> None]

TypeOK ==
  /\ mode \in {"none", "desktop", "window", "away"}
  /\ windows \in {"reading", "shown", "empty"}
  /\ link \in {"none", "connecting", "open", "closed"}
  /\ controlEnabled \in BOOLEAN /\ button \in BOOLEAN
  /\ glass \subseteq Touches
  /\ touchId \in Touches \cup {None} /\ pendingTouchPoint \in Touches \cup {None}
  /\ touchAnimationFrame \in BOOLEAN /\ animationFrame \in BOOLEAN
  /\ pendingMove \in {None, "move", "drag"}
  /\ pressed \subseteq {"touch", "mouse"} /\ orphaned \subseteq pressed
  /\ received \in 0..MaxFrames
  /\ pending \in 0..received /\ drawing \in 0..received /\ settled \in 0..received

--------------------------------------------------------------------------------
(* What reaches the Mac. A button is released by an "up" and by nothing else: the end *)
(* of a link frees the capture and posts no event, so a press outlives its view.      *)

Viewing == mode \in {"desktop", "window"}

\* link.send is ignored unless the link is open; noVNC sends nothing while viewOnly.
Reaches == link = "open" /\ (mode = "desktop" => controlEnabled)

Send(m) == sent' = IF Reaches THEN m ELSE None
Press(who) ==
  IF Reaches THEN pressed' = pressed \cup {who} /\ orphaned' = orphaned \ {who}
             ELSE UNCHANGED macVars
Release(who) ==
  IF Reaches THEN pressed' = pressed \ {who} /\ orphaned' = orphaned \ {who}
             ELSE UNCHANGED macVars
Silent == sent' = None /\ UNCHANGED macVars

\* The listeners or the link are gone, so are the releases they would have sent.
Abandon == orphaned' = pressed /\ sent' = None /\ UNCHANGED pressed

--------------------------------------------------------------------------------
(* Choosing a source *)

\* The answer of listWindows: sources, or a permission, an error or an empty list;
\* it may come when a source has been opened already.
loadWindows ==
  /\ mode # "away" /\ windows = "reading"
  /\ windows' \in {"shown", "empty"}
  /\ Silent
  /\ UNCHANGED <<mode, link, controlEnabled, glass, touchVars, button, mouseVars, frameVars>>

\* The refresh button, disabled while the list is read.
refreshWindows ==
  /\ mode = "none" /\ windows # "reading"
  /\ windows' = "reading"
  /\ Silent
  /\ UNCHANGED <<mode, link, controlEnabled, glass, touchVars, button, mouseVars, frameVars>>

Opening(m) ==
  /\ mode = "none"
  /\ mode' = m
  /\ link' = "connecting"
  /\ Silent
  /\ UNCHANGED <<windows, controlEnabled, glass, touchVars, button, mouseVars, frameVars>>

startFullDesktop == Opening("desktop")
startWindow == windows = "shown" /\ Opening("window")

\* renderDesktop from the Sources button or another page, and leaving for another page:
\* closeConnection drops the links, and touchCleanup the listeners and animation frames
\* without releasing anything; a new page starts with the picker, or is the login
\* when there is no bridge. A decoding under way ends on the old canvas.
renderDesktop ==
  /\ mode' \in {"none", "away"} /\ mode' # mode
  /\ windows' = "reading" /\ link' = "none"
  /\ controlEnabled' = FALSE
  /\ touchId' = None /\ pendingTouchPoint' = None /\ touchAnimationFrame' = FALSE
  /\ pendingMove' = None /\ animationFrame' = FALSE
  /\ Abandon
  /\ received' = 0 /\ pending' = 0 /\ drawing' = 0 /\ settled' = 0
  /\ UNCHANGED <<glass, button>>

\* The open callback and noVNC's connect event: setControls(false).
LinkOpens ==
  /\ link = "connecting"
  /\ link' = "open"
  /\ controlEnabled' = FALSE
  /\ Silent
  /\ UNCHANGED <<mode, windows, glass, touchVars, button, mouseVars, frameVars>>

\* The close and error callbacks and the disconnect event only change the label; the
\* daemon cancels the capture and leaves the Mac's button as it is.
LinkCloses ==
  /\ link \in {"connecting", "open"}
  /\ link' = "closed"
  /\ Abandon
  /\ UNCHANGED <<mode, windows, controlEnabled, glass, touchVars, button, mouseVars, frameVars>>

\* The control button and the touch gate, before the link is open too.
setControls ==
  /\ Viewing
  /\ controlEnabled' = ~controlEnabled
  /\ Silent
  /\ UNCHANGED <<mode, windows, link, glass, touchVars, button, mouseVars, frameVars>>

--------------------------------------------------------------------------------
(* Touch *)

\* onStart and onTouchStart: the only finger on the screen is followed.
onTouchStart(t) ==
  /\ Viewing /\ t \notin glass
  /\ glass' = glass \cup {t}
  /\ IF controlEnabled /\ touchId = None /\ glass = {}
     THEN touchId' = t /\ Press("touch") /\ Send(Message("down"))
     ELSE Silent /\ UNCHANGED touchId
  /\ UNCHANGED <<pageVars, pendingTouchPoint, touchAnimationFrame, button, mouseVars, frameVars>>

\* onMove and onTouchMove: the desktop gets the point at once, the selected window
\* the latest one in the next animation frame.
onTouchMove ==
  /\ Viewing /\ controlEnabled /\ touchId # None /\ touchId \in glass
  /\ IF mode = "desktop"
     THEN /\ Send([action |-> "drag", point |-> touchId])
          /\ UNCHANGED <<pendingTouchPoint, touchAnimationFrame>>
     ELSE /\ sent' = None
          /\ pendingTouchPoint' = touchId /\ touchAnimationFrame' = TRUE
  /\ UNCHANGED <<pageVars, glass, touchId, button, mouseVars, macVars, frameVars>>

flushTouchMove ==
  /\ touchAnimationFrame
  /\ touchAnimationFrame' = FALSE
  /\ IF pendingTouchPoint # None /\ controlEnabled /\ touchId # None
     THEN /\ Send([action |-> "drag", point |-> pendingTouchPoint])
          /\ pendingTouchPoint' = None
     ELSE sent' = None /\ UNCHANGED pendingTouchPoint
  /\ UNCHANGED <<pageVars, glass, touchId, button, mouseVars, macVars, frameVars>>

Lifted == touchId' = None /\ Release("touch") /\ Send(Message("up"))

\* Mutant: the frame requested by the last move stays, with its point.
EndTouch_KeepFrame == Lifted /\ UNCHANGED <<pendingTouchPoint, touchAnimationFrame>>

\* Mutant: the release needs control, like the mouse button's.
EndTouch_NeedsControl ==
  /\ pendingTouchPoint' = None /\ touchAnimationFrame' = FALSE
  /\ IF controlEnabled THEN Lifted ELSE touchId' = None /\ Silent

\* The tracked finger is gone: a move not sent yet is dropped, the button released,
\* with or without control.
EndTouch == pendingTouchPoint' = None /\ touchAnimationFrame' = FALSE /\ Lifted

\* onEnd and onTouchEnd, for touchend and touchcancel.
onTouchEnd(t) ==
  /\ t \in glass
  /\ glass' = glass \ {t}
  /\ IF touchId # None /\ touchId \notin glass'
     THEN EndTouch
     ELSE Silent /\ UNCHANGED touchVars
  /\ UNCHANGED <<pageVars, button, mouseVars, frameVars>>

--------------------------------------------------------------------------------
(* Mouse, wheel, keys, text and clipboard; the full desktop's are noVNC's own *)

onPointerDown ==
  /\ mode = "window" /\ ~button
  /\ button' = TRUE
  /\ IF controlEnabled THEN Press("mouse") /\ Send(Message("down")) ELSE Silent
  /\ UNCHANGED <<pageVars, glass, touchVars, mouseVars, frameVars>>

onPointerMove ==
  /\ mode = "window" /\ controlEnabled
  /\ pendingMove' = IF button THEN "drag" ELSE "move"
  /\ animationFrame' = TRUE
  /\ Silent
  /\ UNCHANGED <<pageVars, glass, touchVars, button, frameVars>>

\* Mutant: control is not asked again in the animation frame.
MoveAllowed_Requested == pendingMove # None

\* Control may be off by the time the animation frame comes.
MoveAllowed == pendingMove # None /\ controlEnabled

flushMove ==
  /\ animationFrame
  /\ animationFrame' = FALSE
  /\ pendingMove' = None
  /\ IF MoveAllowed THEN Send(Message("move")) ELSE sent' = None
  /\ UNCHANGED <<pageVars, glass, touchVars, button, macVars, frameVars>>

onPointerUp ==
  /\ button
  /\ button' = FALSE
  /\ IF mode = "window" /\ controlEnabled
     THEN Release("mouse") /\ Send(Message("up"))
     ELSE Silent
  /\ UNCHANGED <<pageVars, glass, touchVars, mouseVars, frameVars>>

\* onWheel, onKey, the key buttons, the text form and the clipboard prompt: each asks
\* for control in the step that sends.
Type ==
  /\ Viewing /\ controlEnabled
  /\ Send(Message("key"))
  /\ UNCHANGED <<pageVars, glass, touchVars, button, mouseVars, macVars, frameVars>>

--------------------------------------------------------------------------------
(* Frames *)

\* draw: the newest frame waits; renderNext takes it unless one is being drawn.
draw ==
  /\ mode = "window" /\ link = "open" /\ received < MaxFrames
  /\ received' = received + 1
  /\ IF drawing = 0
     THEN drawing' = received' /\ pending' = 0
     ELSE pending' = received' /\ UNCHANGED drawing
  /\ Silent
  /\ UNCHANGED <<pageVars, glass, touchVars, button, mouseVars, settled>>

\* Mutant: the frame that waited is left for the next one to push along.
renderNext_Wait == drawing' = 0 /\ UNCHANGED pending

\* The finally block: the frame that waited is next.
renderNext == drawing' = pending /\ pending' = 0

\* createImageBitmap answers or fails; the bitmap is drawn, or the label warns.
Decoded ==
  /\ drawing # 0
  /\ settled' = drawing
  /\ renderNext
  /\ Silent
  /\ UNCHANGED <<pageVars, glass, touchVars, button, mouseVars, received>>

--------------------------------------------------------------------------------

Init ==
  /\ mode = "none" /\ windows = "reading" /\ link = "none" /\ controlEnabled = FALSE
  /\ glass = {} /\ touchId = None /\ pendingTouchPoint = None /\ touchAnimationFrame = FALSE
  /\ button = FALSE /\ pendingMove = None /\ animationFrame = FALSE
  /\ pressed = {} /\ orphaned = {} /\ sent = None
  /\ received = 0 /\ pending = 0 /\ drawing = 0 /\ settled = 0

Next ==
  \/ loadWindows \/ refreshWindows \/ startFullDesktop \/ startWindow \/ renderDesktop
  \/ LinkOpens \/ LinkCloses \/ setControls
  \/ \E t \in Touches : onTouchStart(t) \/ onTouchEnd(t)
  \/ onTouchMove \/ flushTouchMove
  \/ onPointerDown \/ onPointerMove \/ flushMove \/ onPointerUp \/ Type
  \/ draw \/ Decoded

Spec == Init /\ [][Next]_vars

\* The browser decodes what it was given; the user and the Mac owe nothing.
FairSpec == Spec /\ WF_vars(Decoded)

--------------------------------------------------------------------------------
(* Properties *)

\* Without control nothing is sent to the Mac but the release of a touch: not by an
\* animation frame requested before control was turned off, and not by a link that
\* opens after control was turned on.
ViewOnly == (sent # None /\ ~controlEnabled) => sent.action = "up"

\* In the selected window a finger on the screen holds the Mac's button down, or nobody
\* does: whatever control, a second finger or a cancelled touch did in between, the
\* release is sent. A press whose link or page was gone before its release is the
\* exception; it lasts until the next touch that reaches the Mac, which takes it over.
NoStuckTouch ==
  (mode = "window" /\ link = "open" /\ "touch" \in pressed \ orphaned) => touchId \in glass

\* A drag that is sent carries a point of the finger that is followed now, never one
\* left by the touch before it.
DragFresh == (sent # None /\ sent.action = "drag") => sent.point = touchId

\* Frames may be skipped while one is decoded, the newest one never is: it is drawn
\* or reported as undecodable unless the view is left.
NewestDrawn ==
  \A n \in 1..MaxFrames : (received = n) ~> (settled >= n \/ mode # "window")
================================================================================
