----------------------------- MODULE DesktopProofs -----------------------------
(***************************************************************************)
(* Proofs about the remote desktop page, for any number of fingers and     *)
(* frames.                                                                 *)
(***************************************************************************)
EXTENDS Desktop, TLAPS

\* Every handler of the desktop page keeps every variable in its type.
THEOREM DesktopTypeOK == Spec => []TypeOK
<1>1. ASSUME Init PROVE TypeOK
  <2> USE <1>1, DesktopAssumption DEF Init
  <2>1. received \in 0..MaxFrames
    OBVIOUS
  <2>2. pending \in 0..received /\ drawing \in 0..received /\ settled \in 0..received
    OBVIOUS
  <2>3. /\ touchId \in Touches \cup {None} /\ pendingTouchPoint \in Touches \cup {None}
        /\ pendingMove \in {None, "move", "drag"}
    OBVIOUS
  <2> QED BY <2>1, <2>2, <2>3 DEF TypeOK
<1>2. TypeOK /\ [Next]_vars => TypeOK'
  <2> SUFFICES ASSUME TypeOK, [Next]_vars PROVE TypeOK'
    OBVIOUS
  <2> USE DesktopAssumption DEF TypeOK, vars, pageVars, touchVars, mouseVars, macVars, frameVars, Silent, Viewing, Abandon
  <2>1. CASE loadWindows BY <2>1 DEF loadWindows
  <2>2. CASE refreshWindows BY <2>2 DEF refreshWindows
  <2>3. CASE startFullDesktop BY <2>3 DEF startFullDesktop, Opening
  <2>4. CASE startWindow BY <2>4 DEF startWindow, Opening
  <2>5. CASE renderDesktop
    <3> USE <2>5 DEF renderDesktop
    <3>1. received' \in 0..MaxFrames
      OBVIOUS
    <3>2. /\ pending' \in 0..received' /\ drawing' \in 0..received' /\ settled' \in 0..received'
      OBVIOUS
    <3>3. /\ touchId' \in Touches \cup {None} /\ pendingTouchPoint' \in Touches \cup {None}
          /\ pendingMove' \in {None, "move", "drag"}
      OBVIOUS
    <3> QED BY <3>1, <3>2, <3>3
  <2>6. CASE LinkOpens BY <2>6 DEF LinkOpens
  <2>7. CASE LinkCloses BY <2>7 DEF LinkCloses
  <2>8. CASE setControls BY <2>8 DEF setControls
  <2>9. ASSUME NEW t \in Touches, onTouchStart(t) PROVE TypeOK'
    BY <2>9 DEF onTouchStart, Press
  <2>10. ASSUME NEW t \in Touches, onTouchEnd(t) PROVE TypeOK'
    BY <2>10 DEF onTouchEnd, EndTouch, Lifted, Release
  <2>11. CASE onTouchMove BY <2>11 DEF onTouchMove
  <2>12. CASE flushTouchMove BY <2>12 DEF flushTouchMove
  <2>13. CASE onPointerDown BY <2>13 DEF onPointerDown, Press
  <2>14. CASE onPointerMove BY <2>14 DEF onPointerMove
  <2>15. CASE flushMove BY <2>15 DEF flushMove
  <2>16. CASE onPointerUp BY <2>16 DEF onPointerUp, Release
  <2>17. CASE Type BY <2>17 DEF Type
  <2>18. CASE draw BY <2>18 DEF draw
  <2>19. CASE Decoded BY <2>19 DEF Decoded, renderNext
  <2>20. CASE UNCHANGED vars BY <2>20
  <2> QED
    BY <2>1, <2>2, <2>3, <2>4, <2>5, <2>6, <2>7, <2>8, <2>9, <2>10, <2>11, <2>12, <2>13,
       <2>14, <2>15, <2>16, <2>17, <2>18, <2>19, <2>20 DEF Next
<1> QED BY <1>1, <1>2, PTL DEF Spec
--------------------------------------------------------------------------------
(* What is sent and what is held down *)

\* What is held at the Mac and can still be released is held over an open link.
PressedOpen == pressed \ orphaned # {} => link = "open"

\* The source picker and other pages have no link.
PickerHasNoLink == ~Viewing => link = "none"

\* The finger that is followed is on the screen.
Followed == touchId # None => touchId \in glass

\* A move that waits for its animation frame is of the finger that is followed.
PendingFollowed == pendingTouchPoint # None => pendingTouchPoint = touchId

\* The inductive invariant: NoStuckTouch needs to know that a link that opens finds
\* only abandoned presses, and that a finger is followed no longer than it is there, and
\* DragFresh that no point outlives its touch.
InputInv ==
  /\ PressedOpen /\ PickerHasNoLink /\ Followed /\ PendingFollowed
  /\ NoStuckTouch /\ DragFresh

LEMMA InputInvStep == ASSUME TypeOK, InputInv, [Next]_vars PROVE InputInv'
<1> USE DesktopAssumption DEF TypeOK, vars, pageVars, touchVars, mouseVars, macVars, frameVars, Silent,
      Viewing, Abandon, InputInv, PressedOpen, PickerHasNoLink, Followed, PendingFollowed, NoStuckTouch, DragFresh
<1>1. CASE loadWindows BY <1>1 DEF loadWindows
<1>2. CASE refreshWindows BY <1>2 DEF refreshWindows
<1>3. CASE startFullDesktop BY <1>3 DEF startFullDesktop, Opening
<1>4. CASE startWindow BY <1>4 DEF startWindow, Opening
<1>5. CASE renderDesktop BY <1>5 DEF renderDesktop
<1>6. CASE LinkOpens BY <1>6 DEF LinkOpens
<1>7. CASE LinkCloses BY <1>7 DEF LinkCloses
<1>8. CASE setControls BY <1>8 DEF setControls
<1>9. ASSUME NEW t \in Touches, onTouchStart(t) PROVE InputInv'
  BY <1>9 DEF onTouchStart, Press, Send, Reaches, Message
<1>10. ASSUME NEW t \in Touches, onTouchEnd(t) PROVE InputInv'
  BY <1>10 DEF onTouchEnd, EndTouch, Lifted, Release, Send, Reaches, Message
<1>11. CASE onTouchMove BY <1>11 DEF onTouchMove, Send, Reaches
<1>12. CASE flushTouchMove BY <1>12 DEF flushTouchMove, Send, Reaches
<1>13. CASE onPointerDown BY <1>13 DEF onPointerDown, Press, Send, Reaches, Message
<1>14. CASE onPointerMove BY <1>14 DEF onPointerMove
<1>15. CASE flushMove BY <1>15 DEF flushMove, MoveAllowed, Send, Reaches, Message
<1>16. CASE onPointerUp BY <1>16 DEF onPointerUp, Release, Send, Reaches, Message
<1>17. CASE Type BY <1>17 DEF Type, Send, Reaches, Message
<1>18. CASE draw BY <1>18 DEF draw
<1>19. CASE Decoded BY <1>19 DEF Decoded, renderNext
<1>20. CASE UNCHANGED vars BY <1>20
<1> QED
  BY <1>1, <1>2, <1>3, <1>4, <1>5, <1>6, <1>7, <1>8, <1>9, <1>10, <1>11, <1>12,
   <1>13, <1>14, <1>15, <1>16, <1>17, <1>18, <1>19, <1>20 DEF Next

\* In every reachable state the inductive invariant holds.
THEOREM DesktopInput == Spec => []InputInv
<1>1. Init => InputInv
  BY DEF Init, InputInv, PressedOpen, PickerHasNoLink, Viewing, Followed, PendingFollowed,
     NoStuckTouch, DragFresh
<1> QED BY <1>1, InputInvStep, DesktopTypeOK, PTL DEF Spec

\* No finger leaves the Mac's button held in the selected window, for any sequence of
\* views and lost links: onTouchEnd releases it with or without control, and what a
\* lost link left behind is taken over by the next touch.
THEOREM DesktopNoStuckTouch == Spec => []NoStuckTouch
<1>1. InputInv => NoStuckTouch
  BY DEF InputInv
<1> QED BY <1>1, DesktopInput, PTL

\* No drag is sent with the point of an earlier touch: onTouchEnd cancels the
\* animation frame and drops its point.
THEOREM DesktopDragFresh == Spec => []DragFresh
<1>1. InputInv => DragFresh
  BY DEF InputInv
<1> QED BY <1>1, DesktopInput, PTL

\* While control is off, only the release of a touch is sent, whatever was requested
\* before control was turned off.
THEOREM DesktopViewOnly == Spec => []ViewOnly
<1>1. Init => ViewOnly
  BY DEF Init, ViewOnly
<1>2. TypeOK /\ ViewOnly /\ [Next]_vars => ViewOnly'
  <2> SUFFICES ASSUME TypeOK, ViewOnly, [Next]_vars PROVE ViewOnly'
    OBVIOUS
  <2> USE DesktopAssumption DEF TypeOK, vars, pageVars, touchVars, mouseVars, macVars, frameVars, Silent, ViewOnly, Viewing, Abandon
  <2>1. CASE loadWindows BY <2>1 DEF loadWindows
  <2>2. CASE refreshWindows BY <2>2 DEF refreshWindows
  <2>3. CASE startFullDesktop BY <2>3 DEF startFullDesktop, Opening
  <2>4. CASE startWindow BY <2>4 DEF startWindow, Opening
  <2>5. CASE renderDesktop BY <2>5 DEF renderDesktop
  <2>6. CASE LinkOpens BY <2>6 DEF LinkOpens
  <2>7. CASE LinkCloses BY <2>7 DEF LinkCloses
  <2>8. CASE setControls BY <2>8 DEF setControls
  <2>9. ASSUME NEW t \in Touches, onTouchStart(t) PROVE ViewOnly'
    BY <2>9 DEF onTouchStart, Press, Send, Reaches, Message
  <2>10. ASSUME NEW t \in Touches, onTouchEnd(t) PROVE ViewOnly'
    BY <2>10 DEF onTouchEnd, EndTouch, Lifted, Release, Send, Reaches, Message
  <2>11. CASE onTouchMove BY <2>11 DEF onTouchMove, Send, Reaches
  <2>12. CASE flushTouchMove BY <2>12 DEF flushTouchMove, Send, Reaches
  <2>13. CASE onPointerDown BY <2>13 DEF onPointerDown, Press, Send, Reaches, Message
  <2>14. CASE onPointerMove BY <2>14 DEF onPointerMove
  <2>15. CASE flushMove BY <2>15 DEF flushMove, MoveAllowed, Send, Reaches, Message
  <2>16. CASE onPointerUp BY <2>16 DEF onPointerUp, Release, Send, Reaches, Message
  <2>17. CASE Type BY <2>17 DEF Type, Send, Reaches, Message
  <2>18. CASE draw BY <2>18 DEF draw
  <2>19. CASE Decoded BY <2>19 DEF Decoded, renderNext
  <2>20. CASE UNCHANGED vars BY <2>20
  <2> QED
    BY <2>1, <2>2, <2>3, <2>4, <2>5, <2>6, <2>7, <2>8, <2>9, <2>10, <2>11, <2>12,
       <2>13, <2>14, <2>15, <2>16, <2>17, <2>18, <2>19, <2>20 DEF Next
<1> QED BY <1>1, <1>2, DesktopTypeOK, PTL DEF Spec
================================================================================
