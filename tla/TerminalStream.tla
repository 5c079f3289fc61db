----------------------------- MODULE TerminalStream ----------------------------
(***************************************************************************)
(* One terminal on a portal page: connectTerminal and its callbacks,       *)
(* scheduleTerminalReconnect and closeConnection of apps/web/src/main.ts,  *)
(* TerminalStreamReconciler (terminal-reconnect.ts) and TerminalReplyGate  *)
(* (terminal-reply-gate.ts), against the session's output as the daemon    *)
(* streams it (Session.Subscribe and publish, Server.terminal).            *)
(*                                                                         *)
(* Output is a sequence of numbered chunks; the screen is the sequence of  *)
(* chunk numbers on it. A connection is a number, so that the callbacks of *)
(* an old one can be told from those of the current one (state.socket !==  *)
(* socket); what an old connection still delivers is ignored by that test  *)
(* and left out, except xterm's callback, which may come later. xterm is   *)
(* external: it parses what it is given in order and later; reset() takes  *)
(* effect at once and leaves what is queued. The display is front \o       *)
(* screen and the queue old \o writes, cut at the latest reset().          *)
(* The page holds several Session objects of this one session: the one     *)
(* renderTerminal was given, 1, and one from each loadSessions after it.   *)
(***************************************************************************)
EXTENDS Naturals, Sequences, FiniteSets

CONSTANTS
  MaxOut,      \* bound: chunks the program prints
  Scrollback,  \* chunks the daemon retains (maxScrollback)
  QueueMax,    \* length of a subscriber's channel (256 in the code)
  MaxConns,    \* bound: connections the page opens
  MaxDrops     \* bound: times a connection or the bridge is lost, or Reconnect chosen

ASSUME StreamAssumption ==
  /\ {MaxOut, MaxDrops} \subseteq Nat
  /\ {Scrollback, QueueMax, MaxConns} \subseteq Nat \ {0}

VARIABLES
  produced,    \* chunks printed so far
  alive,       \* the program runs
  framed,      \* the daemon frames snapshots; an older one does not
  sub,         \* the subscriber's channel of the current connection
  dropped,     \* chunks publish could not queue
  serving,     \* Server.terminal runs for the current connection
  wire,        \* messages on their way to the page
  drops,
  onPage,      \* the terminal page is shown (closeConnection has not run)
  bridge,      \* encryptedBridge is there
  loading,     \* resumeEncryptedPortal has it and waits for loadSessions
  cur,         \* state.socket: the number of the connection, 0 for none
  conn,        \* its readyState
  phase, frame, \* the reconciler of this connection
  objects,     \* Session objects made so far; state.sessions has the last one
  told,        \* those whose running was set to false
  session,     \* the object this connection was given; ended: it is in told
  label,       \* what setConnectionState shows; "online" enables the composer
  retry,       \* state.terminalReconnectTimer: the object its closure has, 0 for none
  readyTimer,  \* the 400 ms timer of this connection is set
  writes,      \* given to xterm since the latest reset() and not parsed yet
  screen,      \* of these, parsed
  old,         \* given to xterm before the latest reset() and not parsed yet
  front,       \* of these, parsed since then: in front of the snapshot
  replaying, held   \* the reply gate

daemonVars == <<produced, alive, framed, sub, dropped, serving>>
xtermVars == <<writes, screen, old, front>>
gateVars == <<replaying, held>>
connVars == <<cur, conn, phase, frame, session>>
bridgeVars == <<bridge, loading>>
objectVars == <<objects, told>>
vars == <<daemonVars, wire, drops, onPage, bridgeVars, connVars, objectVars, label, retry,
          readyTimer, xtermVars, gateVars>>

Run(i, j) == [k \in 1..(IF j >= i THEN j - i + 1 ELSE 0) |-> i + k - 1]
Last(s) == s[Len(s)]

\* s.scrollback: the latest chunks.
Retained == Run(IF produced > Scrollback THEN produced - Scrollback + 1 ELSE 1, produced)

Start == [type |-> "start"]
Finish == [type |-> "end"]
Status == [type |-> "status"]
Bytes(s) == [type |-> "bytes", data |-> s]

TypeOK ==
  /\ produced \in 0..MaxOut /\ alive \in BOOLEAN /\ framed \in BOOLEAN
  /\ sub \in Seq(1..MaxOut) /\ Len(sub) <= QueueMax
  /\ dropped \subseteq 1..MaxOut /\ serving \in BOOLEAN
  /\ drops \in 0..MaxDrops
  /\ onPage \in BOOLEAN /\ bridge \in BOOLEAN /\ loading \in BOOLEAN
  /\ cur \in 0..MaxConns /\ conn \in {"none", "connecting", "open", "closed"}
  /\ phase \in {"awaiting", "snapshot", "live"} /\ frame \in Seq(1..MaxOut)
  /\ objects \in 1..(MaxDrops + 1) /\ told \subseteq 1..objects
  /\ session \in 1..objects /\ retry \in 0..objects
  /\ label \in {"connecting", "online", "offline"} /\ readyTimer \in BOOLEAN
  /\ screen \in Seq(1..MaxOut) /\ front \in Seq(1..MaxOut)
  /\ replaying \in BOOLEAN /\ held \in BOOLEAN

--------------------------------------------------------------------------------
(* The daemon *)

\* Session.publish: a subscriber whose channel is full misses the chunk.
publish ==
  /\ alive /\ produced < MaxOut
  /\ produced' = produced + 1
  /\ IF ~serving THEN UNCHANGED <<sub, dropped>>
     ELSE IF Len(sub) < QueueMax
          THEN sub' = Append(sub, produced + 1) /\ UNCHANGED dropped
          ELSE dropped' = dropped \cup {produced + 1} /\ UNCHANGED sub
  /\ UNCHANGED <<alive, framed, serving, wire, drops, onPage, bridgeVars, connVars, objectVars,
                 label, retry, readyTimer, xtermVars, gateVars>>

Exit ==
  /\ alive
  /\ alive' = FALSE
  /\ UNCHANGED <<produced, framed, sub, dropped, serving, wire, drops, onPage, bridgeVars,
                 connVars, objectVars, label, retry, readyTimer, xtermVars, gateVars>>

\* The select loop of Server.terminal: the next update, or the program's end, which
\* leaves what is still queued behind.
Forward ==
  /\ serving
  /\ \/ /\ sub # <<>>
        /\ wire' = Append(wire, Bytes(<<Head(sub)>>))
        /\ sub' = Tail(sub)
        /\ UNCHANGED serving
     \/ /\ ~alive
        /\ wire' = Append(wire, Status)
        /\ sub' = <<>>
        /\ serving' = FALSE
  /\ UNCHANGED <<produced, alive, framed, dropped, drops, onPage, bridgeVars, connVars,
                 objectVars, label, retry, readyTimer, xtermVars, gateVars>>

--------------------------------------------------------------------------------
(* The page: connecting *)

\* Mutant: nothing is scheduled.
scheduleTerminalReconnect_Never(o) == retry

\* scheduleTerminalReconnect: one timer, while the terminal runs, as far as this object
\* knows, and is shown. The delay (500 ms doubled up to 4 s) is not modelled.
scheduleTerminalReconnect(o) == IF retry = 0 /\ o \notin told /\ onPage THEN o ELSE retry

\* Label after scheduleTerminalReconnect.
Scheduled(o, l) == IF retry = 0 /\ o \notin told /\ onPage THEN "connecting" ELSE l

\* connectTerminal with Session object o: the old link is closed, its timers are
\* cleared; without a bridge the page waits for resumeEncryptedPortal and keeps
\* state.socket, and with it the callbacks and the object of the old connection.
connectTerminal(o) ==
  /\ retry' = 0
  /\ label' = "connecting"
  /\ serving' = FALSE /\ sub' = <<>> /\ wire' = <<>>
  /\ IF bridge
     THEN /\ cur < MaxConns /\ cur' = cur + 1 /\ conn' = "connecting" /\ session' = o
          /\ phase' = "awaiting" /\ frame' = <<>> /\ readyTimer' = FALSE
     ELSE /\ conn' = IF conn = "none" THEN "none" ELSE "closed"
          /\ UNCHANGED <<cur, phase, frame, readyTimer, session>>
  /\ UNCHANGED <<produced, alive, framed, dropped, onPage, bridge, told, xtermVars, gateVars>>

\* The Reconnect menu entry has the object renderTerminal was given; Init stands for
\* the call in renderTerminal. It counts as a loss of the connection.
Reconnect ==
  /\ onPage /\ drops < MaxDrops
  /\ drops' = drops + 1
  /\ connectTerminal(1)
  /\ UNCHANGED <<loading, objects>>

\* The daemon accepts: Subscribe takes scrollback and channel in one step, and the
\* link reports opened before the first message. A program that has ended is
\* followed by its status at once.
Accept ==
  /\ conn = "connecting" /\ bridge
  /\ conn' = "open"
  /\ serving' = alive
  /\ sub' = <<>>
  /\ wire' = (IF framed THEN <<Start>> ELSE <<>>)
             \o (IF produced > 0 THEN <<Bytes(Retained)>> ELSE <<>>)
             \o (IF framed THEN <<Finish>> ELSE <<>>)
             \o (IF alive THEN <<>> ELSE <<Status>>)
  /\ label' = "connecting"
  /\ readyTimer' = TRUE
  /\ UNCHANGED <<produced, alive, framed, dropped, drops, onPage, bridgeVars, cur, phase, frame,
                 session, objectVars, retry, xtermVars, gateVars>>

\* closed and failed: the link, the network or the daemon's handler is gone. Close
\* code 1008 leads to the login page instead, which is closeConnection here.
LinkClosed ==
  /\ conn' = "closed"
  /\ serving' = FALSE /\ sub' = <<>> /\ wire' = <<>>
  /\ readyTimer' = FALSE
  /\ retry' = scheduleTerminalReconnect(session)

LinkLost ==
  /\ conn \in {"connecting", "open"} /\ drops < MaxDrops
  /\ drops' = drops + 1
  /\ LinkClosed /\ label' = Scheduled(session, label)
  /\ UNCHANGED <<produced, alive, framed, dropped, onPage, bridgeVars, cur, phase, frame, session,
                 objectVars, xtermVars, gateVars>>

\* The handler returned after its status message.
HandlerDone ==
  /\ conn = "open" /\ ~serving /\ wire = <<>> /\ ~alive
  /\ LinkClosed /\ label' = Scheduled(session, label)
  /\ UNCHANGED <<produced, alive, framed, dropped, drops, onPage, bridgeVars, cur, phase, frame,
                 session, objectVars, xtermVars, gateVars>>

\* EncryptedBridge.fail closes every link and starts resumeEncryptedPortal; one that
\* waits for loadSessions fails with it and tries again.
BridgeLost ==
  /\ bridge /\ drops < MaxDrops
  /\ bridge' = FALSE /\ loading' = FALSE /\ drops' = drops + 1
  /\ label' = "connecting"
  /\ IF conn \in {"connecting", "open"} THEN LinkClosed
     ELSE UNCHANGED <<conn, serving, sub, wire, readyTimer, retry>>
  /\ UNCHANGED <<produced, alive, framed, dropped, onPage, cur, phase, frame, session, objectVars,
                 xtermVars, gateVars>>

\* resumeEncryptedPortal has a new bridge and asks for the sessions; the timer and the
\* menu may use the bridge at once.
BridgeBack ==
  /\ ~bridge
  /\ bridge' = TRUE /\ loading' = TRUE
  /\ UNCHANGED <<daemonVars, wire, drops, onPage, connVars, objectVars, label, retry, readyTimer,
                 xtermVars, gateVars>>

\* What closeConnection leaves of a terminal page.
PageClosed ==
  /\ onPage' = FALSE
  /\ cur' = 0 /\ conn' = "none" /\ phase' = "awaiting" /\ frame' = <<>>
  /\ serving' = FALSE /\ sub' = <<>> /\ wire' = <<>>
  /\ retry' = 0 /\ readyTimer' = FALSE
  /\ writes' = <<>> /\ screen' = <<>> /\ old' = <<>> /\ front' = <<>>
  /\ replaying' = FALSE /\ held' = FALSE
  /\ UNCHANGED <<produced, alive, framed, dropped, bridge, session, told, label>>

\* loadSessions has made new Session objects of the programs that run: the terminal
\* shown is connected with its new one, or the sessions page replaces it.
Resumed ==
  /\ loading
  /\ loading' = FALSE /\ UNCHANGED drops
  /\ \/ /\ onPage /\ alive
        /\ objects' = objects + 1
        /\ connectTerminal(objects')
     \/ /\ onPage /\ ~alive
        /\ PageClosed
        /\ UNCHANGED objects
     \/ /\ ~onPage
        /\ UNCHANGED <<daemonVars, wire, onPage, bridge, connVars, objectVars, label, retry,
                       readyTimer, xtermVars, gateVars>>

\* The reconnect timer: nothing to do, a connection, or another wait for the bridge.
RetryFires ==
  /\ retry # 0
  /\ IF retry \notin told /\ onPage /\ conn # "open" /\ bridge
     THEN connectTerminal(retry) /\ UNCHANGED <<drops, loading, objects>>
     ELSE /\ retry' = IF retry \notin told /\ onPage /\ conn # "open" THEN retry ELSE 0
          /\ label' = IF retry' # 0 THEN "connecting" ELSE label
          /\ UNCHANGED <<daemonVars, wire, drops, onPage, bridgeVars, connVars, objectVars,
                         readyTimer, xtermVars, gateVars>>

\* The composer's submit finds the link closed (one that is connecting has another
\* label) and asks for a reconnect with the object that state.sessions has.
Submit ==
  /\ onPage /\ label = "online" /\ conn = "closed"
  /\ retry' = scheduleTerminalReconnect(objects) /\ label' = Scheduled(objects, label)
  /\ UNCHANGED <<daemonVars, wire, drops, onPage, bridgeVars, connVars, objectVars, readyTimer,
                 xtermVars, gateVars>>

\* closeConnection: another page or another terminal is shown.
closeConnection == onPage /\ PageClosed /\ UNCHANGED <<drops, loading, objects>>

--------------------------------------------------------------------------------
(* The page: messages *)

\* Mutant: the label says "Live" whatever became of the program.
markReady_Ended == "online"

\* markReady, as the label it leaves.
markReady == IF session \notin told THEN "online" ELSE label

\* Mutant: the snapshot is written below what is on the screen.
reset_Not(s) == s

\* terminal.reset().
reset(s) == <<>>

\* applySnapshot; an empty one is applied at once. reset() clears what xterm shows;
\* what it has not parsed will stand in front of the snapshot.
applySnapshot(data) ==
  /\ screen' = reset(screen) /\ front' = <<>>
  /\ old' = old \o writes
  /\ held' = FALSE
  /\ IF data = <<>>
     THEN /\ replaying' = FALSE /\ label' = markReady /\ readyTimer' = FALSE
          /\ writes' = <<>>
     ELSE /\ replaying' = TRUE
          /\ writes' = <<[data |-> data, snapshotOf |-> cur]>>
          /\ UNCHANGED <<label, readyTimer>>

NoSnapshot == UNCHANGED <<xtermVars, gateVars, label, readyTimer>>

\* received: the reconciler's answer to the next message. A message it does not
\* expect closes the link and schedules a reconnect; this daemon sends none.
received ==
  /\ conn = "open" /\ wire # <<>>
  /\ wire' = Tail(wire)
  /\ LET m == Head(wire) IN
     \/ /\ m.type = "start" /\ phase = "awaiting"
        /\ phase' = "snapshot" /\ frame' = <<>> /\ readyTimer' = FALSE
        /\ UNCHANGED <<xtermVars, gateVars, label, told>>
     \/ /\ m.type = "bytes" /\ phase = "snapshot"
        /\ frame' = frame \o m.data
        /\ NoSnapshot /\ UNCHANGED <<phase, told>>
     \/ /\ m.type = "end" /\ phase = "snapshot"
        /\ phase' = "live" /\ frame' = <<>>
        /\ applySnapshot(frame)
        /\ UNCHANGED told
     \/ /\ m.type = "bytes" /\ phase = "awaiting"
        /\ phase' = "live"
        /\ applySnapshot(m.data)
        /\ UNCHANGED <<frame, told>>
     \/ /\ m.type = "bytes" /\ phase = "live"
        /\ writes' = Append(writes, [data |-> m.data, snapshotOf |-> 0])
        /\ UNCHANGED <<screen, old, front, gateVars, label, readyTimer, phase, frame, told>>
     \/ /\ m.type = "status"
        /\ told' = told \cup {session} /\ label' = "offline"
        /\ UNCHANGED <<xtermVars, gateVars, readyTimer, phase, frame>>
  /\ UNCHANGED <<daemonVars, drops, onPage, bridgeVars, cur, conn, session, objects, retry>>

\* Mutant: the gate stays closed after the replay.
finishSnapshot_Not == replaying

\* TerminalReplyGate.finishSnapshot.
finishSnapshot == FALSE

\* xterm has parsed the next write; for a snapshot it calls back (applied).
Parsed ==
  /\ \/ /\ old # <<>>
        /\ front' = front \o Head(old).data /\ old' = Tail(old)
        /\ UNCHANGED <<writes, screen>>
     \/ /\ old = <<>> /\ writes # <<>>
        /\ screen' = screen \o Head(writes).data /\ writes' = Tail(writes)
        /\ UNCHANGED <<old, front>>
  /\ IF Head(old \o writes).snapshotOf = cur /\ cur # 0
     THEN /\ replaying' = finishSnapshot /\ held' = FALSE
          /\ label' = markReady /\ readyTimer' = FALSE
     ELSE UNCHANGED <<gateVars, label, readyTimer>>
  /\ UNCHANGED <<daemonVars, wire, drops, onPage, bridgeVars, connVars, objectVars, retry>>

\* terminal.onData while a snapshot is replayed: only the last reply is held. With
\* the gate open it goes straight to the link.
Reply ==
  /\ onPage /\ replaying /\ ~held
  /\ held' = TRUE
  /\ UNCHANGED <<daemonVars, wire, drops, onPage, bridgeVars, connVars, objectVars, label, retry,
                 readyTimer, xtermVars, replaying>>

\* The 400 ms timer: an older daemon has nothing to send yet.
ReadyFires ==
  /\ readyTimer
  /\ readyTimer' = FALSE
  /\ label' = IF phase = "awaiting" THEN markReady ELSE label
  /\ UNCHANGED <<daemonVars, wire, drops, onPage, bridgeVars, connVars, objectVars, retry,
                 xtermVars, gateVars>>

--------------------------------------------------------------------------------

Init ==
  /\ produced = 0 /\ alive = TRUE /\ framed \in BOOLEAN
  /\ sub = <<>> /\ dropped = {} /\ serving = FALSE /\ wire = <<>> /\ drops = 0
  /\ onPage = TRUE /\ bridge = TRUE /\ loading = FALSE
  /\ cur = 1 /\ conn = "connecting" /\ phase = "awaiting" /\ frame = <<>>
  /\ objects = 1 /\ told = {} /\ session = 1
  /\ label = "connecting" /\ retry = 0 /\ readyTimer = FALSE
  /\ writes = <<>> /\ screen = <<>> /\ old = <<>> /\ front = <<>>
  /\ replaying = FALSE /\ held = FALSE

Next ==
  \/ publish \/ Exit \/ Forward
  \/ Reconnect \/ Accept \/ LinkLost \/ HandlerDone \/ BridgeLost \/ BridgeBack \/ Resumed
  \/ RetryFires \/ Submit \/ closeConnection
  \/ received \/ Parsed \/ Reply \/ ReadyFires

Spec == Init /\ [][Next]_vars

\* Timers fire, messages that arrived are handled, xterm parses, the daemon answers
\* and resumeEncryptedPortal tries until it succeeds. The program owes nothing.
Fairness ==
  /\ WF_vars(Accept) /\ WF_vars(BridgeBack) /\ WF_vars(Resumed) /\ WF_vars(RetryFires)
  /\ WF_vars(received) /\ WF_vars(Parsed) /\ WF_vars(ReadyFires)
  /\ WF_vars(Forward) /\ WF_vars(HandlerDone)

FairSpec == Spec /\ Fairness

--------------------------------------------------------------------------------
(* Properties *)

\* From the latest snapshot on, the screen shows chunks in the order they were
\* printed, none twice, and between the first and the last one only those are missing
\* that publish dropped: a reconnect neither repeats nor loses output. What xterm had
\* not parsed when the snapshot was swapped in stands in front of it (NothingRepeated).
ScreenFaithful ==
  /\ \A i \in 1..(Len(screen) - 1) : screen[i] < screen[i + 1]
  /\ screen # <<>> =>
       \A n \in screen[1]..Last(screen) :
         n \in dropped \/ \E i \in 1..Len(screen) : screen[i] = n

\* The daemon has still to say on this connection whether the program runs.
StatusToCome == serving \/ \E i \in 1..Len(wire) : wire[i] = Status

\* No late callback, timer or reconnect shows a program as live on a connection that
\* was told of its end or began with an object that knows. Once any connection was told,
\* only the Reconnect entry with its object of old does, until the status arrives.
EndedStaysOff ==
  label = "online" =>
    /\ session \notin told
    /\ told # {} => session = 1 /\ (conn = "open" => StatusToCome)

\* A terminal that is shown gets back to live after the link or the bridge was
\* lost, unless the program ends, the page is left, or the bound on connections is
\* used up.
ComesBack ==
  (onPage /\ conn = "closed") ~>
    ((conn = "open" /\ label = "online") \/ ~alive \/ ~onPage \/ cur = MaxConns)

\* The reply gate never stays closed on a live terminal: keys and replies pass again.
GateReopens ==
  replaying ~> (~replaying \/ ~alive \/ cur = MaxConns)

(* What the repository says and the code does not do *)

\* A reconnect duplicates nothing on the display (src/docs/architecture.md:116). What
\* xterm has not parsed when reset() is called is shown again by the snapshot.
NothingRepeated ==
  \A i, j \in 1..Len(front \o screen) : i < j => (front \o screen)[i] # (front \o screen)[j]

\* A terminal that is shown as live has a link (input is paused until it does,
\* src/README.md:454). xterm's callback for the snapshot may come after the link closed.
LiveHasLink == onPage /\ label = "online" => conn = "open"
================================================================================
