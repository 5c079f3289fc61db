--------------------------------- MODULE Bridge --------------------------------
(***************************************************************************)
(* One encrypted bridge: class EncryptedBridge of apps/web/src/main.ts     *)
(* with its terminal, desktop and window links and its file upload,        *)
(* against the daemon's side of the same channel (browserChannel in        *)
(* apps/backend/internal/cloud/connector.go). The two talk over the        *)
(* ordered streams that module Relay is shown to give them.                *)
(*                                                                         *)
(* A packet is its decoded message. Its number shows only where the two    *)
(* counters may part: an answer too large to send has used its number up,  *)
(* and everything the daemon sends later is Wrong to the page. A desktop   *)
(* link behaves as a terminal link and listWindows as request; one set     *)
(* stands for both.                                                        *)
(***************************************************************************)
EXTENDS Naturals, Sequences, FiniteSets

CONSTANTS
  Requests,    \* calls of request() and listWindows()
  Terminals,   \* terminal (and desktop) links: the daemon dials in its reader
  Windows,     \* selected-window links: the daemon opens them in a goroutine
  Chunks,      \* chunks of the file that is uploaded
  MaxOutput,   \* bound: packets of output on the way to the page
  MaxOps       \* bound: requests, links and uploads the page starts

ASSUME BridgeAssumption ==
  /\ Chunks \in Nat /\ MaxOutput \in Nat /\ MaxOps \in Nat
  /\ Terminals \cap Windows = {} /\ Requests \cap (Terminals \cup Windows) = {}

Links == Terminals \cup Windows

VARIABLES
  socket,      \* the page's WebSocket: connecting, open, closed
  login,       \* connectWithKey: greeting, auth, done, failed
  failed,      \* this.failed
  broken,      \* sendChain is a rejected promise
  sends,       \* what sendChain has still to send
  req,         \* the promise each request() returned
  pending,     \* this.requests
  lnk,         \* readyState of each link
  linkMap,     \* this.terminals and this.windows
  told,        \* the last callback of each link
  upload, sentChunks, expect,   \* uploadFile: its stage, chunks acknowledged; this.uploads
  toDaemon, toPage,             \* the channel
  chan,        \* the daemon's channel, opened before bridge_ready: open, authed, closed
  skewed,      \* the daemon has used up a number without sending it
  http,        \* handleHTTPRequest goroutines
  sockets,     \* channel.sockets: the local sockets that are open
  dialing,     \* the one the reader is dialling
  missed,      \* the one that was being dialled when the channel was closed
  capture,     \* openWindow goroutines: none, opening, streaming, over
  file, received   \* the uploaded file: none, creating, temp, stored, removed; chunks in it

pageVars == <<socket, login, failed, broken, req, pending, lnk, linkMap, told>>
uploadVars == <<upload, sentChunks, expect>>
socketVars == <<sockets, dialing, missed>>
daemonVars == <<chan, skewed, http, socketVars, capture, file, received>>
vars == <<pageVars, sends, uploadVars, toDaemon, toPage, daemonVars>>

Msg(t, x) == [type |-> t, id |-> x]
None == "-"
End == Msg("end", None)
Wrong == Msg("wrong", None)

TypeOK ==
  /\ socket \in {"connecting", "open", "closed"}
  /\ login \in {"greeting", "auth", "done", "failed"}
  /\ failed \in BOOLEAN /\ broken \in BOOLEAN /\ skewed \in BOOLEAN
  /\ req \in [Requests -> {"idle", "waiting", "answered", "failed"}]
  /\ pending \subseteq Requests
  /\ lnk \in [Links -> {"idle", "connecting", "open", "closed"}]
  /\ linkMap \subseteq Links
  /\ told \in [Links -> {"nothing", "open", "closed", "left", "late"}]
  /\ upload \in {"idle", "start", "chunk", "finish", "done", "failed"}
  /\ sentChunks \in 0..Chunks
  /\ expect \in BOOLEAN
  /\ chan \in {"open", "authed", "closed"}
  /\ http \subseteq Requests
  /\ sockets \subseteq Terminals /\ dialing \subseteq Terminals /\ missed \subseteq Terminals
  /\ capture \in [Windows -> {"none", "opening", "streaming", "over"}]
  /\ file \in {"none", "creating", "temp", "stored", "removed"}
  /\ received \in 0..Chunks

--------------------------------------------------------------------------------
(* The page: links and fail() *)

\* A callback of a link: one that comes after the link was closed is "late".
Tell(l, what) == IF told[l] \in {"closed", "left"} THEN "late" ELSE what

\* Mutant: a closed link is closed again.
RemoteClosed_Again(C) == {l \in C : lnk[l] # "idle"}

\* The links of C whose remoteClose calls back: not the ones already closed.
RemoteClosed(C) == {l \in C : lnk[l] # "closed"}

remoteClose(C) ==
  /\ lnk' = [l \in Links |-> IF l \in C THEN "closed" ELSE lnk[l]]
  /\ told' = [l \in Links |-> IF l \in RemoteClosed(C) THEN Tell(l, "closed") ELSE told[l]]

\* Mutant: requests that wait for an answer are forgotten with their timers.
Rejected_None(P) == {}

\* What fail() rejects.
Rejected(P) == {r \in P : req[r] = "waiting"}

\* EncryptedBridge.fail: once. An upload that waits is rejected with the rest and
\* sends no cancel, for the socket is closed.
fail ==
  /\ failed' = TRUE
  /\ IF failed
     THEN UNCHANGED <<socket, login, req, pending, lnk, linkMap, told, uploadVars, toDaemon>>
     ELSE /\ socket' = "closed"
          /\ toDaemon' = IF socket = "closed" THEN toDaemon ELSE Append(toDaemon, End)
          /\ login' = IF login = "auth" THEN "failed" ELSE login
          /\ req' = [r \in Requests |-> IF r \in Rejected(pending) THEN "failed" ELSE req[r]]
          /\ pending' = {}
          /\ remoteClose(linkMap)
          /\ linkMap' = {}
          /\ upload' = IF expect THEN "failed" ELSE upload
          /\ expect' = FALSE
          /\ UNCHANGED sentChunks

\* sendEncrypted puts a message at the end of sendChain.
Enqueue(m) == sends' = Append(sends, m)

--------------------------------------------------------------------------------
(* The page: connecting *)

\* waitForBridge: bridge_ready arrives; connectWithKey listens and authenticates.
Greet ==
  /\ login = "greeting" /\ socket = "connecting"
  /\ socket' = "open" /\ login' = "auth"
  /\ Enqueue(Msg("authenticate", None))
  /\ UNCHANGED <<failed, broken, req, pending, lnk, linkMap, told, uploadVars, toDaemon, toPage,
                 daemonVars>>

\* The socket closes first; or the fifteen seconds pass, and nothing is closed.
GreetFails ==
  /\ login = "greeting"
  /\ login' = "failed"
  /\ socket' \in {"closed", socket}
  /\ UNCHANGED <<failed, broken, req, pending, lnk, linkMap, told, sends, uploadVars, toDaemon,
                 toPage, daemonVars>>

\* "Encrypted login timed out": the promise is rejected and nothing is closed.
AuthTimeout ==
  /\ login = "auth"
  /\ login' = "failed"
  /\ UNCHANGED <<socket, failed, broken, req, pending, lnk, linkMap, told, sends, uploadVars,
                 toDaemon, toPage, daemonVars>>

--------------------------------------------------------------------------------
(* The page: requests, links, uploads *)

MayStart ==
  /\ login = "done"
  /\ Cardinality({r \in Requests : req[r] # "idle"} \cup {l \in Links : lnk[l] # "idle"}
                 \cup {u \in {"upload"} : upload # "idle"}) < MaxOps

request(r) ==
  /\ MayStart /\ req[r] = "idle"
  /\ req' = [req EXCEPT ![r] = "waiting"]
  /\ pending' = pending \cup {r}
  /\ Enqueue(Msg("http_request", r))
  /\ UNCHANGED <<socket, login, failed, broken, lnk, linkMap, told, uploadVars, toDaemon, toPage, daemonVars>>

RequestTimeout(r) ==
  /\ r \in pending
  /\ pending' = pending \ {r}
  /\ req' = [req EXCEPT ![r] = IF @ = "waiting" THEN "failed" ELSE @]
  /\ UNCHANGED <<socket, login, failed, broken, lnk, linkMap, told, sends, uploadVars, toDaemon, toPage, daemonVars>>

openLink(l) ==
  /\ MayStart /\ lnk[l] = "idle"
  /\ lnk' = [lnk EXCEPT ![l] = "connecting"]
  /\ linkMap' = linkMap \cup {l}
  /\ Enqueue(Msg("link_open", l))
  /\ UNCHANGED <<socket, login, failed, broken, req, pending, told, uploadVars, toDaemon, toPage, daemonVars>>

\* link.send; bound: one message of input on the way.
linkSend(l) ==
  /\ lnk[l] = "open"
  /\ \A i \in 1..Len(sends) : sends[i].type # "link_data"
  /\ \A i \in 1..Len(toDaemon) : toDaemon[i].type # "link_data"
  /\ Enqueue(Msg("link_data", l))
  /\ UNCHANGED <<pageVars, uploadVars, toDaemon, toPage, daemonVars>>

\* link.close and closeTerminal, closeWindow: no callback, and the daemon is told
\* when the socket is open.
closeLink(l) ==
  /\ lnk[l] \in {"connecting", "open"}
  /\ lnk' = [lnk EXCEPT ![l] = "closed"]
  /\ told' = [told EXCEPT ![l] = "left"]
  /\ linkMap' = linkMap \ {l}
  /\ IF socket = "open" THEN Enqueue(Msg("link_close", l)) ELSE UNCHANGED sends
  /\ UNCHANGED <<socket, login, failed, broken, req, pending, uploadVars, toDaemon, toPage, daemonVars>>

uploadFile ==
  /\ MayStart /\ upload = "idle"
  /\ upload' = "start" /\ expect' = TRUE
  /\ Enqueue(Msg("file_upload_start", None))
  /\ UNCHANGED <<pageVars, sentChunks, toDaemon, toPage, daemonVars>>

\* uploadExchange's timeout: uploadFile gives up and cancels.
UploadTimeout ==
  /\ expect
  /\ expect' = FALSE /\ upload' = "failed"
  /\ IF socket = "open" THEN Enqueue(Msg("file_upload_cancel", None)) ELSE UNCHANGED sends
  /\ UNCHANGED <<pageVars, sentChunks, toDaemon, toPage, daemonVars>>

Expected ==
  CASE upload = "start" -> "file_upload_ready"
    [] upload = "chunk" -> "file_upload_progress"
    [] OTHER -> "file_upload_complete"

\* Mutant: the last chunk's acknowledgement ends the upload.
UploadReply_NoFinish(t) ==
  IF ~expect THEN UNCHANGED <<uploadVars, sends>>
  ELSE LET n == IF upload = "chunk" THEN sentChunks + 1 ELSE 0 IN
       /\ sentChunks' = n
       /\ upload' = IF n < Chunks THEN "chunk" ELSE "done"
       /\ expect' = (n < Chunks)
       /\ sends' = IF n < Chunks THEN Append(sends, Msg("file_upload_chunk", n)) ELSE sends

\* A reply that uploadExchange waits for, and uploadFile's next message; n chunks
\* are acknowledged.
UploadReply(t) ==
  IF ~expect THEN UNCHANGED <<uploadVars, sends>>
  ELSE CASE t = "file_upload_error" ->
              /\ upload' = "failed" /\ expect' = FALSE
              /\ Enqueue(Msg("file_upload_cancel", None))
              /\ UNCHANGED sentChunks
         [] t = "file_upload_complete" ->
              /\ upload' = "done" /\ expect' = FALSE
              /\ UNCHANGED <<sentChunks, sends>>
         [] OTHER ->
              LET n == IF upload = "chunk" THEN sentChunks + 1 ELSE 0 IN
              /\ sentChunks' = n
              /\ upload' = IF n < Chunks THEN "chunk" ELSE "finish"
              /\ Enqueue(IF n < Chunks THEN Msg("file_upload_chunk", n)
                         ELSE Msg("file_upload_finish", None))
              /\ UNCHANGED expect

--------------------------------------------------------------------------------
(* The page: sendChain and receiveChain *)

CanSend == socket = "open" /\ ~broken

\* sendEncrypted's turn in the chain: sent.
Send ==
  /\ sends # <<>> /\ CanSend
  /\ toDaemon' = Append(toDaemon, Head(sends))
  /\ sends' = Tail(sends)
  /\ UNCHANGED <<pageVars, uploadVars, toPage, daemonVars>>

\* Or rejected, and with it everything after: a request() fails although its entry
\* and timer stay, a link fails without leaving its map, an upload gives up.
SendRejected ==
  /\ sends # <<>> /\ ~CanSend
  /\ broken' = TRUE
  /\ sends' = Tail(sends)
  /\ LET m == Head(sends) IN
     /\ req' = IF m.type = "http_request" /\ req[m.id] = "waiting"
               THEN [req EXCEPT ![m.id] = "failed"] ELSE req
     /\ IF m.type \in {"link_open", "link_data"} THEN remoteClose({m.id})
        ELSE UNCHANGED <<lnk, told>>
     /\ login' = IF m.type = "authenticate" THEN "failed" ELSE login
     /\ IF expect /\ m.type \in {"file_upload_start", "file_upload_chunk", "file_upload_finish"}
        THEN upload' = "failed" /\ expect' = FALSE
        ELSE UNCHANGED <<upload, expect>>
  /\ UNCHANGED <<socket, failed, pending, linkMap, sentChunks, toDaemon, toPage, daemonVars>>

Upload == {"file_upload_ready", "file_upload_progress", "file_upload_complete", "file_upload_error"}

\* Messages that only touch the map entry they name; one with no entry is ignored.
Dispatch(m) ==
  /\ login' = IF m.type = "authenticated" /\ login = "auth" THEN "done" ELSE login
  /\ IF m.type = "http_response" /\ m.id \in pending
     THEN /\ req' = [req EXCEPT ![m.id] = IF @ = "waiting" THEN "answered" ELSE @]
          /\ pending' = pending \ {m.id}
     ELSE UNCHANGED <<req, pending>>
  /\ IF m.type \in {"link_opened", "link_data", "link_closed"} /\ m.id \in linkMap
     THEN CASE m.type = "link_opened" /\ lnk[m.id] = "connecting" ->
                 /\ lnk' = [lnk EXCEPT ![m.id] = "open"]
                 /\ told' = [told EXCEPT ![m.id] = Tell(m.id, "open")]
                 /\ UNCHANGED linkMap
            [] m.type = "link_data" /\ lnk[m.id] = "open" ->
                 /\ told' = [told EXCEPT ![m.id] = Tell(m.id, "open")]
                 /\ UNCHANGED <<lnk, linkMap>>
            [] m.type = "link_closed" ->
                 /\ remoteClose({m.id})
                 /\ linkMap' = linkMap \ {m.id}
            [] OTHER -> UNCHANGED <<lnk, told, linkMap>>
     ELSE UNCHANGED <<lnk, told, linkMap>>
  /\ IF m.type \in Upload THEN UploadReply(m.type) ELSE UNCHANGED <<uploadVars, sends>>

\* What receive throws on: a number it did not expect, a reply to another step of
\* the upload; and the socket's close event.
Fatal(m) ==
  \/ m \in {End, Wrong}
  \/ m.type \in Upload \ {"file_upload_error"} /\ expect /\ m.type # Expected

\* receive, in the order of receiveChain. Packets the socket had delivered before
\* fail() are still worked off.
receive ==
  /\ login # "greeting" /\ toPage # <<>>
  /\ toPage' = Tail(toPage)
  /\ \/ /\ Fatal(Head(toPage))
        /\ fail
        /\ UNCHANGED <<broken, sends>>
     \/ /\ ~Fatal(Head(toPage))
        /\ Dispatch(Head(toPage))
        /\ UNCHANGED <<socket, failed, broken, toDaemon>>
  /\ UNCHANGED daemonVars

\* close(), or the network: the socket is gone and the relay tells the daemon.
Disconnect ==
  /\ socket = "open" /\ login # "greeting"
  /\ fail
  /\ UNCHANGED <<broken, sends, toPage, daemonVars>>

--------------------------------------------------------------------------------
(* The daemon's channel *)

Reply(m) == toPage' = IF chan = "closed" THEN toPage ELSE Append(toPage, IF skewed THEN Wrong ELSE m)

\* closeChannel: everything the channel has opened goes with it. A capture that is
\* still being opened, and a socket that is still being dialled, is not in a map yet.
closeChannel ==
  /\ chan' = "closed"
  /\ sockets' = {} /\ missed' = dialing /\ UNCHANGED dialing
  /\ capture' = [w \in Windows |-> IF capture[w] = "streaming" THEN "over" ELSE capture[w]]
  /\ file' = IF file = "temp" THEN "removed" ELSE file

\* The reader: one packet, unless it is still busy with the last one. Every case
\* answers at most once.
Pop == toDaemon # <<>> /\ file # "creating" /\ dialing = {} /\ toDaemon' = Tail(toDaemon)
Arrives(t) == Pop /\ Head(toDaemon).type = t
Authed(t) == Arrives(t) /\ chan = "authed"

authenticateChannel ==
  /\ Arrives("authenticate")
  /\ \/ /\ chan = "open"
        /\ chan' = "authed"
        /\ Reply(Msg("authenticated", None))
        /\ UNCHANGED <<socketVars, capture, file>>
     \/ /\ chan = "open"
        /\ closeChannel
        /\ toPage' = Append(toPage, End)
     \/ chan = "closed" /\ UNCHANGED <<chan, socketVars, capture, file, toPage>>
  /\ UNCHANGED <<pageVars, sends, uploadVars, skewed, http, received>>

\* authTimer.
AuthDeadline ==
  /\ chan = "open"
  /\ closeChannel
  /\ toPage' = Append(toPage, End)
  /\ UNCHANGED <<pageVars, sends, uploadVars, toDaemon, skewed, http, received>>

ReadRequest ==
  /\ Authed("http_request")
  /\ http' = http \cup {Head(toDaemon).id}
  /\ UNCHANGED <<pageVars, sends, uploadVars, toPage, chan, skewed, socketVars, capture, file, received>>

\* Goroutines answer in any order. An answer that does not fit is not sent.
handleHTTPRequest(r) ==
  /\ r \in http
  /\ http' = http \ {r}
  /\ \/ Reply(Msg("http_response", r)) /\ UNCHANGED skewed
     \/ chan = "authed" /\ skewed' = TRUE /\ UNCHANGED toPage
  /\ UNCHANGED <<pageVars, sends, uploadVars, toDaemon, chan, socketVars, capture, file, received>>

\* openLocalSocket, openDesktop, up to the dial.
ReadTerminalOpen ==
  /\ Authed("link_open") /\ Head(toDaemon).id \in Terminals
  /\ dialing' = {Head(toDaemon).id}
  /\ UNCHANGED <<pageVars, sends, uploadVars, toPage, chan, skewed, http, sockets, missed, capture,
                 file, received>>

\* And from there on: the socket is registered and announced, or it could not be
\* dialled. Another goroutine may have closed the channel meanwhile; the socket is
\* then entered in a map nobody looks at any more, and the announcement is dropped.
openLocalSocket(t) ==
  /\ t \in dialing /\ dialing' = {}
  /\ \/ sockets' = sockets \cup {t} /\ Reply(Msg("link_opened", t))
     \/ UNCHANGED sockets /\ Reply(Msg("link_closed", t))
  /\ UNCHANGED <<pageVars, sends, uploadVars, toDaemon, chan, skewed, http, missed, capture, file,
                 received>>

ReadWindowOpen ==
  /\ Authed("link_open") /\ Head(toDaemon).id \in Windows
  /\ capture' = [capture EXCEPT ![Head(toDaemon).id] = "opening"]
  /\ UNCHANGED <<pageVars, sends, uploadVars, toPage, chan, skewed, http, socketVars, file, received>>

\* openWindow, after windowcapture.Open: registered and announced, refused because
\* it failed or another view is open, or given up because the channel is closed.
openWindow(w) ==
  /\ capture[w] = "opening"
  /\ \/ /\ \A v \in Windows : capture[v] # "streaming"
        /\ capture' = [capture EXCEPT ![w] = IF chan = "closed" THEN "over" ELSE "streaming"]
        /\ Reply(Msg("link_opened", w))
     \/ /\ capture' = [capture EXCEPT ![w] = "over"]
        /\ Reply(Msg("link_closed", w))
  /\ UNCHANGED <<pageVars, sends, uploadVars, toDaemon, chan, skewed, http, socketVars, file, received>>

\* Mutant: a terminal's socket is not closed.
CloseAtDaemon_Keep(l) == UNCHANGED <<socketVars, capture>>

\* closeLocalSocket, closeDesktop, closeWindow: what is registered under the id.
CloseAtDaemon(l) ==
  /\ sockets' = sockets \ {l} /\ UNCHANGED <<dialing, missed>>
  /\ capture' = [w \in Windows |-> IF w = l /\ capture[w] = "streaming" THEN "over" ELSE capture[w]]

ReadLinkClose ==
  /\ Authed("link_close")
  /\ CloseAtDaemon(Head(toDaemon).id)
  /\ UNCHANGED <<pageVars, sends, uploadVars, toPage, chan, skewed, http, file, received>>

\* writeLocalSocket, writeWindow, writeDesktop: input for a link that is gone is dropped;
\* input that is too large or cannot be written ends a terminal or a desktop.
ReadLinkData ==
  /\ Authed("link_data")
  /\ \/ UNCHANGED <<socketVars, capture, toPage>>
     \/ /\ Head(toDaemon).id \in sockets
        /\ CloseAtDaemon(Head(toDaemon).id)
        /\ Reply(Msg("link_closed", Head(toDaemon).id))
  /\ UNCHANGED <<pageVars, sends, uploadVars, chan, skewed, http, file, received>>

\* readLocalSocket, streamWindow: output, which ends a socket whose channel is closed
\* because it cannot be sent; or the end of the source.
Active == sockets \cup {w \in Windows : capture[w] = "streaming"}

Output(l) ==
  /\ l \in Active
  /\ IF chan = "closed" THEN CloseAtDaemon(l) /\ UNCHANGED toPage
     ELSE Len(toPage) < MaxOutput /\ Reply(Msg("link_data", l)) /\ UNCHANGED <<socketVars, capture>>
  /\ UNCHANGED <<pageVars, sends, uploadVars, toDaemon, chan, skewed, http, file, received>>

SourceEnds(l) ==
  /\ l \in Active
  /\ CloseAtDaemon(l)
  /\ Reply(Msg("link_closed", l))
  /\ UNCHANGED <<pageVars, sends, uploadVars, toDaemon, chan, skewed, http, file, received>>

\* startFileUpload, from the lookup of the channel to the temporary file, and from
\* there to its entry in channel.uploads. Another goroutine may close the channel
\* in between; the entry is then made in a map nobody looks at any more.
ReadUploadStart ==
  /\ Authed("file_upload_start")
  /\ \/ file' = "creating" /\ UNCHANGED toPage
     \/ Reply(Msg("file_upload_error", None)) /\ UNCHANGED file
  /\ UNCHANGED <<pageVars, sends, uploadVars, chan, skewed, http, socketVars, capture, received>>

startFileUpload ==
  /\ file = "creating"
  /\ file' = "temp"
  /\ Reply(Msg("file_upload_ready", None))
  /\ UNCHANGED <<pageVars, sends, uploadVars, toDaemon, chan, skewed, http, socketVars, capture, received>>

\* writeFileUpload: the offset must be what is already there.
writeFileUpload ==
  /\ Authed("file_upload_chunk")
  /\ \/ /\ file = "temp" /\ Head(toDaemon).id = received /\ received < Chunks
        /\ received' = received + 1
        /\ Reply(Msg("file_upload_progress", None))
        /\ UNCHANGED file
     \/ /\ file' = IF file = "temp" THEN "removed" ELSE file
        /\ Reply(Msg("file_upload_error", None))
        /\ UNCHANGED received
  /\ UNCHANGED <<pageVars, sends, uploadVars, chan, skewed, http, socketVars, capture>>

Complete == file = "temp" /\ received = Chunks

finishFileUpload ==
  /\ Authed("file_upload_finish")
  /\ \/ /\ Complete
        /\ file' = "stored"
        /\ Reply(Msg("file_upload_complete", None))
     \/ /\ file' = IF file = "temp" THEN "removed" ELSE file
        /\ Reply(Msg("file_upload_error", None))
  /\ UNCHANGED <<pageVars, sends, uploadVars, chan, skewed, http, socketVars, capture, received>>

\* Mutant: the temporary file is left.
Cancelled_Keep == file

Cancelled == IF file = "temp" THEN "removed" ELSE file

cancelFileUpload ==
  /\ Authed("file_upload_cancel")
  /\ file' = Cancelled
  /\ UNCHANGED <<pageVars, sends, uploadVars, toPage, chan, skewed, http, socketVars, capture, received>>

\* channel_close from the relay, or the connector's connection is lost; packets of
\* a channel that is closed are refused by the reader and change nothing.
ReadEnd ==
  /\ Arrives("end") /\ chan # "closed"
  /\ closeChannel
  /\ UNCHANGED <<pageVars, sends, uploadVars, toPage, skewed, http, received>>

ReadClosed ==
  /\ Pop /\ chan = "closed" /\ Head(toDaemon).type # "authenticate"
  /\ UNCHANGED <<pageVars, sends, uploadVars, toPage, daemonVars>>

DaemonLost ==
  /\ chan \in {"open", "authed"}
  /\ closeChannel
  /\ toPage' = Append(toPage, End)
  /\ UNCHANGED <<pageVars, sends, uploadVars, toDaemon, skewed, http, received>>

--------------------------------------------------------------------------------

Init ==
  /\ socket = "connecting" /\ login = "greeting"
  /\ failed = FALSE /\ broken = FALSE /\ sends = <<>>
  /\ req = [r \in Requests |-> "idle"] /\ pending = {}
  /\ lnk = [l \in Links |-> "idle"] /\ linkMap = {}
  /\ told = [l \in Links |-> "nothing"]
  /\ upload = "idle" /\ sentChunks = 0 /\ expect = FALSE
  /\ toDaemon = <<>> /\ toPage = <<>>
  /\ chan = "open" /\ skewed = FALSE /\ http = {}
  /\ sockets = {} /\ dialing = {} /\ missed = {}
  /\ capture = [w \in Windows |-> "none"]
  /\ file = "none" /\ received = 0

Page ==
  \/ Greet \/ GreetFails \/ AuthTimeout \/ Disconnect
  \/ uploadFile \/ UploadTimeout
  \/ \E r \in Requests : request(r)
  \/ \E l \in Links : openLink(l) \/ linkSend(l) \/ closeLink(l)

Chain == Send \/ SendRejected \/ receive

Reader ==
  \/ authenticateChannel \/ ReadRequest \/ ReadTerminalOpen \/ ReadWindowOpen
  \/ (\E t \in Terminals : openLocalSocket(t))
  \/ ReadLinkClose \/ ReadLinkData \/ ReadUploadStart \/ startFileUpload \/ writeFileUpload
  \/ finishFileUpload \/ cancelFileUpload \/ ReadEnd \/ ReadClosed

Daemon ==
  \/ AuthDeadline \/ DaemonLost
  \/ \E r \in Requests : handleHTTPRequest(r)
  \/ \E w \in Windows : openWindow(w)
  \/ \E l \in Links : Output(l) \/ SourceEnds(l)

Next == Page \/ Chain \/ Reader \/ Daemon \/ \E r \in Requests : RequestTimeout(r)

Spec == Init /\ [][Next]_vars

\* Promise chains, the daemon's reader and goroutines, and the browser's timers run
\* on; nothing is assumed of the user, of answers or of the network.
Fairness ==
  /\ WF_vars(Send \/ SendRejected) /\ WF_vars(receive) /\ WF_vars(Reader)
  /\ \A r \in Requests : WF_vars(RequestTimeout(r))
  /\ \A w \in Windows : WF_vars(openWindow(w))

FairSpec == Spec /\ Fairness

--------------------------------------------------------------------------------
(* Properties *)

\* A link never calls back after it was closed, by either side, and is closed at
\* most once: the page that reacts to close by reconnecting does so once.
LinkQuiet == \A l \in Links : told[l] # "late"

\* The page reports an upload as done only when the file is stored, and a stored
\* file is whole, whatever timed out, was cancelled or cut off on the way.
UploadExact ==
  /\ upload = "done" => file = "stored"
  /\ file = "stored" => received = Chunks

\* Every request ends for its caller: answered, rejected by fail, or timed out.
RequestsSettle == \A r \in Requests : (req[r] = "waiting") ~> (req[r] \in {"answered", "failed"})

\* After an upload the page has given up on, no part of a file stays behind while
\* the channel lives.
PartialRemoved == (upload = "failed") ~> (file \notin {"creating", "temp"} \/ chan = "closed")

\* A terminal the page has left is left by the daemon too, and so is every terminal
\* when the bridge has failed: its local socket is closed, and none is registered
\* later. The one exception is a socket that was being dialled when the connector
\* lost its connection; it stays until the program's next output or its end.
SocketsFreed ==
  \A t \in Terminals : (told[t] = "left" \/ failed) ~> (t \notin sockets \/ t \in missed)
================================================================================
