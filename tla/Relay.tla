--------------------------------- MODULE Relay ---------------------------------
(***************************************************************************)
(* The relay (apps/relay/src/index.ts): a Durable Object that pairs the    *)
(* daemon's connector socket with the bridge sockets of portal pages, with *)
(* the two peers it talks to: the connector loop of                        *)
(* apps/backend/internal/cloud/connector.go, reduced to its channel table, *)
(* and the page's WebSocket. Payloads are opaque, as they are to the relay *)
(* (ciphertext): a packet is its number in its channel and direction.      *)
(*                                                                         *)
(* A step of the relay is one handler call; a Durable Object runs them one *)
(* at a time. A socket is a pair of queues. "end" is the last entry of a   *)
(* direction: the close frame, or what stands for it when the network      *)
(* breaks and the receiver notices. What is sent to a peer that has left   *)
(* is gone. A handler still runs for messages that arrive on a socket the  *)
(* relay has begun to close.                                               *)
(***************************************************************************)
EXTENDS Naturals, Sequences, FiniteSets

CONSTANTS
  Channels,            \* 1..n, one crypto.randomUUID() after another
  Connectors,          \* 1..n, the connections the daemon makes, one after another
  MAX_BROWSER_SOCKETS,
  MaxPackets,          \* bound: packets sent, over all channels and both directions
  None

ASSUME RelayAssumption ==
  /\ MAX_BROWSER_SOCKETS \in Nat \ {0}
  /\ MaxPackets \in Nat
  /\ None \notin Channels \cup Connectors
  /\ Connectors \subseteq Nat /\ Channels \subseteq Nat

VARIABLES
  cstate,     \* relay side of each connector socket
  bstate,     \* relay side of each browser socket, by its channel
  owner,      \* the connector socket channel_open was sent on
  toConn, fromConn,   \* queues of a connector socket
  toPage, fromPage,   \* queues of a browser socket
  link,       \* the daemon's connection, or None between two attempts
  daemon,     \* the daemon's end of each channel: "open" while in state.channels
  page,       \* the page's end of each channel
  sent, got   \* per channel and end: packets sent, numbers of packets taken

relayVars == <<cstate, bstate, owner>>
queues == <<toConn, fromConn, toPage, fromPage>>
vars == <<relayVars, queues, link, daemon, page, sent, got>>

SocketState == {"none", "open", "closing", "closed"}
EndState == {"idle", "open", "closed"}
Bad == [type |-> "bad"]
End == [type |-> "end"]
Data(c, n) == [type |-> "data", id |-> c, n |-> n]
ChannelOpen(c) == [type |-> "channel_open", id |-> c]
ChannelClose(c) == [type |-> "channel_close", id |-> c]

\* The bound on packets.
MaySend ==
  Cardinality({x \in Channels \X {"page", "daemon"} \X (1..MaxPackets) :
                 x[3] <= sent[x[1]][x[2]]}) < MaxPackets

Message == {Bad, End}
  \cup [type : {"data"}, id : Channels, n : Nat]
  \cup [type : {"channel_open", "channel_close"}, id : Channels]

\* The types; a socket a page got was accepted by a connector.
TypeOK ==
  /\ cstate \in [Connectors -> SocketState]
  /\ bstate \in [Channels -> SocketState]
  /\ owner \in [Channels -> Connectors \cup {None}]
  /\ \A c \in Channels : bstate[c] # "none" => owner[c] \in Connectors
  /\ toConn \in [Connectors -> Seq(Message)]
  /\ fromConn \in [Connectors -> Seq(Message)]
  /\ toPage \in [Channels -> Seq(Message)]
  /\ fromPage \in [Channels -> Seq(Message)]
  /\ link \in Connectors \cup {None}
  /\ daemon \in [Channels -> EndState]
  /\ page \in [Channels -> EndState]
  /\ sent \in [Channels -> [{"page", "daemon"} -> Nat]]
  /\ got \in [Channels -> [{"page", "daemon"} -> Seq(Nat)]]

--------------------------------------------------------------------------------
(* The relay *)

Open(k) == cstate[k] = "open"
Sockets == {c \in Channels : bstate[c] \in {"open", "closing"}}

\* this.connector(): getWebSockets("connector") is in the order of acceptance.
connector ==
  IF \E k \in Connectors : Open(k)
  THEN CHOOSE k \in Connectors : Open(k) /\ \A j \in Connectors : Open(j) => k <= j
  ELSE None

\* socket.send: a socket the peer has left may take a message or throw.
MayThrow(k) == k # link

\* What the relay has sent to connector k and to the page of c, after m.
ToConn(k, m) == IF k = link THEN Append(toConn[k], m) ELSE <<>>
ToPage(c, m) == IF page[c] = "open" THEN Append(toPage[c], m) ELSE <<>>

\* Relay-side close of the browser sockets in C; closing one twice is harmless.
CloseBrowsers(C) ==
  LET closes == {c \in C : bstate[c] = "open"} IN
  /\ bstate' = [c \in Channels |-> IF c \in closes THEN "closing" ELSE bstate[c]]
  /\ toPage' = [c \in Channels |-> IF c \in closes THEN ToPage(c, End) ELSE toPage[c]]

disconnectBrowsers == CloseBrowsers(Sockets)

\* Mutant: the pages of the previous connection are kept.
acceptConnector_KeepBrowsers(k) ==
  /\ cstate[k] = "none"
  /\ link = None
  /\ \A j \in Connectors : j < k => cstate[j] # "none"
  /\ cstate' = [j \in Connectors |-> IF j = k THEN "open" ELSE
                                      IF Open(j) THEN "closing" ELSE cstate[j]]
  /\ toConn' = [j \in Connectors |-> IF Open(j) THEN ToConn(j, End) ELSE toConn[j]]
  /\ link' = k
  /\ UNCHANGED <<bstate, toPage, owner, fromConn, fromPage, daemon, page, sent, got>>

\* The daemon dials (Run, runOnce); the Worker has checked its token. "connected",
\* "hello", "ping" and "pong" ask nothing of their receiver and are left out.
acceptConnector(k) ==
  /\ cstate[k] = "none"
  /\ link = None
  /\ \A j \in Connectors : j < k => cstate[j] # "none"
  /\ cstate' = [j \in Connectors |-> IF j = k THEN "open" ELSE
                                      IF Open(j) THEN "closing" ELSE cstate[j]]
  /\ toConn' = [j \in Connectors |-> IF Open(j) THEN ToConn(j, End) ELSE toConn[j]]
  /\ link' = k
  /\ disconnectBrowsers
  /\ UNCHANGED <<owner, fromConn, fromPage, daemon, page, sent, got>>

BrowserAllowed ==
  /\ connector # None
  /\ Cardinality(Sockets) < MAX_BROWSER_SOCKETS

\* A page asks for a bridge. A refusal (503) changes nothing.
acceptBrowser(c) ==
  /\ bstate[c] = "none"
  /\ \A d \in Channels : d < c => bstate[d] # "none"
  /\ BrowserAllowed
  /\ owner' = [owner EXCEPT ![c] = connector]
  /\ page' = [page EXCEPT ![c] = "open"]
  /\ \/ /\ toConn' = [toConn EXCEPT ![connector] = ToConn(connector, ChannelOpen(c))]
        /\ bstate' = [bstate EXCEPT ![c] = "open"]
        /\ UNCHANGED toPage
     \/ /\ MayThrow(connector)
        /\ bstate' = [bstate EXCEPT ![c] = "closing"]
        /\ toPage' = [toPage EXCEPT ![c] = <<End>>]
        /\ UNCHANGED toConn
  /\ UNCHANGED <<cstate, fromConn, fromPage, link, daemon, sent, got>>

\* sendToConnector, when it answers true.
SendToConnector(m) ==
  /\ connector # None
  /\ toConn' = [toConn EXCEPT ![connector] = ToConn(connector, m)]

SendFails == connector = None \/ MayThrow(connector)

PopPage(c) == fromPage' = [fromPage EXCEPT ![c] = Tail(@)]
PopConn(k) == fromConn' = [fromConn EXCEPT ![k] = Tail(@)]
FromPage(c, t) == fromPage[c] # <<>> /\ Head(fromPage[c]).type = t
FromConn(k, t) == fromConn[k] # <<>> /\ Head(fromConn[k]).type = t

\* A packet from a page: to the connector that is open now, whoever that is.
forwardCiphertext(c) ==
  /\ FromPage(c, "data")
  /\ PopPage(c)
  /\ \/ SendToConnector(Head(fromPage[c])) /\ UNCHANGED <<bstate, toPage>>
     \/ SendFails /\ CloseBrowsers({c}) /\ UNCHANGED toConn
  /\ UNCHANGED <<cstate, owner, fromConn, link, daemon, page, sent, got>>

\* Not base64url, empty, binary or too long.
rejectCiphertext(c) ==
  /\ FromPage(c, "bad")
  /\ PopPage(c)
  /\ CloseBrowsers({c})
  /\ UNCHANGED <<cstate, owner, toConn, fromConn, link, daemon, page, sent, got>>

\* Mutant: the daemon is not told.
browserEnd_Silent(c) ==
  /\ FromPage(c, "end")
  /\ PopPage(c)
  /\ bstate' = [bstate EXCEPT ![c] = "closed"]
  /\ UNCHANGED <<cstate, owner, toConn, fromConn, toPage, link, daemon, page, sent, got>>

\* webSocketClose and webSocketError of a browser socket.
browserEnd(c) ==
  /\ FromPage(c, "end")
  /\ PopPage(c)
  /\ bstate' = [bstate EXCEPT ![c] = "closed"]
  /\ \/ SendToConnector(ChannelClose(c))
     \/ SendFails /\ UNCHANGED toConn
  /\ UNCHANGED <<cstate, owner, fromConn, toPage, link, daemon, page, sent, got>>

\* Mutant: the end of any connector socket disconnects the pages.
StaleEnd_Never(k) == FALSE

\* current && current !== socket.
StaleEnd(k) == connector # None /\ connector # k

\* Mutant: the pages of a connector that is gone are left alone.
connectorEnd_KeepBrowsers(k) ==
  /\ FromConn(k, "end")
  /\ PopConn(k)
  /\ cstate' = [cstate EXCEPT ![k] = "closed"]
  /\ UNCHANGED <<bstate, toPage, owner, toConn, fromPage, link, daemon, page, sent, got>>

\* webSocketClose and webSocketError of a connector socket.
connectorEnd(k) ==
  /\ FromConn(k, "end")
  /\ PopConn(k)
  /\ cstate' = [cstate EXCEPT ![k] = "closed"]
  /\ IF StaleEnd(k)
     THEN UNCHANGED <<bstate, toPage>>
     ELSE disconnectBrowsers
  /\ UNCHANGED <<owner, toConn, fromPage, link, daemon, page, sent, got>>

\* Mutant: the socket is looked up by role and not by channel.
toBrowser_AnyChannel(k) ==
  /\ FromConn(k, "data")
  /\ PopConn(k)
  /\ \E c \in Sockets :
       /\ bstate[c] = "open"
       /\ toPage' = [toPage EXCEPT ![c] = ToPage(c, Head(fromConn[k]))]
  /\ UNCHANGED <<relayVars, toConn, fromPage, link, daemon, page, sent, got>>

\* handleConnectorMessage, e2e_to_browser: to an open browser socket or nowhere.
toBrowser(k) ==
  /\ FromConn(k, "data")
  /\ PopConn(k)
  /\ LET m == Head(fromConn[k]) IN
     toPage' = IF bstate[m.id] = "open"
               THEN [toPage EXCEPT ![m.id] = ToPage(m.id, m)] ELSE toPage
  /\ UNCHANGED <<relayVars, toConn, fromPage, link, daemon, page, sent, got>>

\* handleConnectorMessage, channel_close.
closeFromConnector(k) ==
  /\ FromConn(k, "channel_close")
  /\ PopConn(k)
  /\ CloseBrowsers({Head(fromConn[k]).id})
  /\ UNCHANGED <<cstate, owner, toConn, fromPage, link, daemon, page, sent, got>>

\* A message the relay cannot parse closes the connector socket.
rejectConnector(k) ==
  /\ FromConn(k, "bad")
  /\ PopConn(k)
  /\ cstate' = [cstate EXCEPT ![k] = IF Open(k) THEN "closing" ELSE @]
  /\ toConn' = [toConn EXCEPT ![k] = IF Open(k) THEN ToConn(k, End) ELSE @]
  /\ UNCHANGED <<bstate, owner, toPage, fromPage, link, daemon, page, sent, got>>

--------------------------------------------------------------------------------
(* The daemon: runOnce's reader, and what its channels send *)

Mine == {c \in Channels : daemon[c] = "open"}

\* closeAllChannels: the connection is over, for whatever reason. What was still
\* in the queue may be lost with it.
LinkLost(k) ==
  /\ link' = None
  /\ daemon' = [c \in Channels |-> IF c \in Mine THEN "closed" ELSE daemon[c]]
  /\ \/ fromConn' = [fromConn EXCEPT ![k] = Append(@, End)]
     \/ fromConn' = [fromConn EXCEPT ![k] = <<End>>]

\* Mutant: a closed channel stays in state.channels.
closeChannel_Keep(m) == UNCHANGED daemon

\* closeChannel: gone from state.channels, with everything it had opened.
closeChannel(m) == daemon' = [daemon EXCEPT ![m.id] = IF @ = "open" THEN "closed" ELSE @]

\* readRelay, one message.
readRelay ==
  /\ link # None
  /\ toConn[link] # <<>>
  /\ LET m == Head(toConn[link]) IN
     /\ toConn' = [toConn EXCEPT ![link] = IF m = End THEN <<>> ELSE Tail(@)]
     /\ \/ /\ m.type = "channel_open"
           /\ daemon' = [daemon EXCEPT ![m.id] = "open"]
           /\ UNCHANGED <<fromConn, link, got>>
        \/ /\ m.type = "data"
           /\ IF daemon[m.id] = "open"
              THEN /\ got' = [got EXCEPT ![m.id]["daemon"] = Append(@, m.n)]
                   /\ UNCHANGED fromConn
              ELSE /\ fromConn' = [fromConn EXCEPT ![link] = Append(@, ChannelClose(m.id))]
                   /\ UNCHANGED got
           /\ UNCHANGED <<link, daemon>>
        \/ /\ m.type = "channel_close"
           /\ closeChannel(m)
           /\ UNCHANGED <<fromConn, link, got>>
        \/ /\ m.type = "end"
           /\ LinkLost(link)
           /\ UNCHANGED got
  /\ UNCHANGED <<relayVars, toPage, fromPage, page, sent>>

\* The connection breaks, the daemon stops, or a write fails.
DaemonDrops ==
  /\ link # None
  /\ LinkLost(link)
  /\ toConn' = [toConn EXCEPT ![link] = <<>>]
  /\ UNCHANGED <<relayVars, toPage, fromPage, page, sent, got>>

\* sendOuter of an encrypted packet of the channel.
DaemonSend(c) ==
  /\ link # None /\ c \in Mine
  /\ MaySend
  /\ sent' = [sent EXCEPT ![c]["daemon"] = @ + 1]
  /\ fromConn' = [fromConn EXCEPT ![link] = Append(@, Data(c, sent[c]["daemon"] + 1))]
  /\ UNCHANGED <<relayVars, toConn, toPage, fromPage, link, daemon, page, got>>

\* closeChannel with notifyRelay: authentication failed or timed out.
DaemonCloses(c) ==
  /\ link # None /\ c \in Mine
  /\ daemon' = [daemon EXCEPT ![c] = "closed"]
  /\ fromConn' = [fromConn EXCEPT ![link] = Append(@, ChannelClose(c))]
  /\ UNCHANGED <<relayVars, toConn, toPage, fromPage, link, page, sent, got>>

\* A message of a protocol version the relay does not know.
DaemonGarbles ==
  /\ link # None
  /\ fromConn[link] = <<>> /\ Mine = {}
  /\ fromConn' = [fromConn EXCEPT ![link] = Append(@, Bad)]
  /\ UNCHANGED <<relayVars, toConn, toPage, fromPage, link, daemon, page, sent, got>>

--------------------------------------------------------------------------------
(* The page's WebSocket *)

PageSend(c) ==
  /\ page[c] = "open"
  /\ MaySend
  /\ sent' = [sent EXCEPT ![c]["page"] = @ + 1]
  /\ fromPage' = [fromPage EXCEPT ![c] = Append(@, Data(c, sent[c]["page"] + 1))]
  /\ UNCHANGED <<relayVars, toConn, fromConn, toPage, link, daemon, page, got>>

PageGarbles(c) ==
  /\ page[c] = "open"
  /\ sent[c] = [e \in {"page", "daemon"} |-> 0] /\ fromPage[c] = <<>>
  /\ fromPage' = [fromPage EXCEPT ![c] = <<Bad>>]
  /\ UNCHANGED <<relayVars, toConn, fromConn, toPage, link, daemon, page, sent, got>>

PageLeaves(c) ==
  /\ page' = [page EXCEPT ![c] = "closed"]
  /\ toPage' = [toPage EXCEPT ![c] = <<>>]
  /\ \/ fromPage' = [fromPage EXCEPT ![c] = Append(@, End)]
     \/ fromPage' = [fromPage EXCEPT ![c] = <<End>>]

\* One message from the relay.
PageRead(c) ==
  /\ page[c] = "open"
  /\ toPage[c] # <<>>
  /\ \/ /\ Head(toPage[c]) = End
        /\ PageLeaves(c)
        /\ UNCHANGED got
     \/ /\ Head(toPage[c]) # End
        /\ got' = [got EXCEPT ![c]["page"] = Append(@, Head(toPage[c]).n)]
        /\ toPage' = [toPage EXCEPT ![c] = Tail(@)]
        /\ UNCHANGED <<page, fromPage>>
  /\ UNCHANGED <<relayVars, toConn, fromConn, link, daemon, sent>>

\* Closed by the user, by the bridge, or by the network.
PageDrops(c) ==
  /\ page[c] = "open"
  /\ PageLeaves(c)
  /\ UNCHANGED <<relayVars, toConn, fromConn, link, daemon, sent, got>>

--------------------------------------------------------------------------------

Init ==
  /\ cstate = [k \in Connectors |-> "none"]
  /\ bstate = [c \in Channels |-> "none"]
  /\ owner = [c \in Channels |-> None]
  /\ toConn = [k \in Connectors |-> <<>>]
  /\ fromConn = [k \in Connectors |-> <<>>]
  /\ toPage = [c \in Channels |-> <<>>]
  /\ fromPage = [c \in Channels |-> <<>>]
  /\ link = None
  /\ daemon = [c \in Channels |-> "idle"]
  /\ page = [c \in Channels |-> "idle"]
  /\ sent = [c \in Channels |-> [e \in {"page", "daemon"} |-> 0]]
  /\ got = [c \in Channels |-> [e \in {"page", "daemon"} |-> <<>>]]

webSocketMessage ==
  \/ \E c \in Channels : forwardCiphertext(c) \/ rejectCiphertext(c)
  \/ \E k \in Connectors : toBrowser(k) \/ closeFromConnector(k) \/ rejectConnector(k)

webSocketClose == (\E c \in Channels : browserEnd(c)) \/ (\E k \in Connectors : connectorEnd(k))

Environment ==
  \/ DaemonDrops \/ DaemonGarbles
  \/ \E k \in Connectors : acceptConnector(k)
  \/ \E c \in Channels :
       \/ acceptBrowser(c) \/ DaemonSend(c) \/ DaemonCloses(c)
       \/ PageSend(c) \/ PageGarbles(c) \/ PageDrops(c)

Next == webSocketMessage \/ webSocketClose \/ readRelay \/ Environment \/ \E c \in Channels : PageRead(c)

Spec == Init /\ [][Next]_vars

\* Every message that was sent is handled, and every broken connection noticed;
\* nothing is assumed of when peers connect, send or leave.
Fairness ==
  /\ WF_vars(readRelay)
  /\ \A c \in Channels :
       /\ WF_vars(forwardCiphertext(c) \/ rejectCiphertext(c) \/ browserEnd(c))
       /\ WF_vars(PageRead(c))
  /\ \A k \in Connectors :
       WF_vars(toBrowser(k) \/ closeFromConnector(k) \/ rejectConnector(k) \/ connectorEnd(k))

FairSpec == Spec /\ Fairness

--------------------------------------------------------------------------------
(* Properties *)

\* A page whose bridge is open was announced to the connector that is open now,
\* or the end of its connector is about to be handled: after a reconnect no page
\* keeps talking to a daemon that does not know its channel.
BridgesBelong ==
  \A c \in Channels : bstate[c] = "open" =>
    \/ Open(owner[c])
    \/ cstate[owner[c]] = "closing" /\ connector = None

\* The daemon keeps a channel only while its page's socket is there, or the
\* message (or the end of the connection) that frees it is on its way: a page
\* that goes away never leaves terminals, captures and uploads behind.
ChannelsFreed ==
  \A c \in Mine :
    \/ bstate[c] \in {"open", "closing"}
    \/ \E i \in 1..Len(toConn[link]) : toConn[link][i] \in {ChannelClose(c), End}
    \/ cstate[link] = "closed"

\* The end of a replaced connector's socket never disconnects a page.
StaleEndHarmless ==
  [][\A k \in Connectors :
       connectorEnd(k) /\ (\E j \in Connectors \ {k} : Open(j)) => UNCHANGED bstate]_vars

\* Both ends see the streams the tunnel promises.
T == INSTANCE Tunnel WITH
       Channels <- Channels, page <- page, daemon <- daemon, sent <- sent, got <- got
TunnelSpec == T!Spec

\* When the daemon's connection is gone, its pages are told: a page never waits
\* on a computer that has left.
OrphanEnds ==
  \A c \in Channels : (page[c] = "open" /\ ~Open(owner[c])) ~> page[c] = "closed"

\* A page that is gone is eventually forgotten by the daemon.
GoneForgotten == \A c \in Channels : (page[c] = "closed") ~> daemon[c] # "open"
================================================================================
