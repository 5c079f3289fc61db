------------------------------ MODULE RelayProofs ------------------------------
(***************************************************************************)
(* Proofs about the relay: pages keep to the connector they were announced *)
(* to, the daemon's channels are freed, and the two queues on the way of a *)
(* packet carry, in each direction, exactly the packets not yet taken, in  *)
(* order. The last fact gives the refinement of Tunnel.                    *)
(***************************************************************************)
EXTENDS Relay, TLAPS

--------------------------------------------------------------------------------
(* What a queue holds *)

In(m, Q) == \E i \in 1..Len(Q) : Q[i] = m

IsData(m, c) == m.type = "data" /\ m.id = c

\* m is a message of the channel c to the daemon.
About(m, c) == m.type \in {"data", "channel_open", "channel_close"} /\ m.id = c

NoData(Q, c) == \A i \in 1..Len(Q) : ~IsData(Q[i], c)
NoneAbout(Q, c) == \A i \in 1..Len(Q) : ~About(Q[i], c)

\* The packets of c in Q are those numbered from b + 1 to e, in this order.
Carries(Q, c, b, e) ==
  /\ b <= e
  /\ \A n \in (b + 1)..e : In(Data(c, n), Q)
  /\ \A i \in 1..Len(Q) : IsData(Q[i], c) => Q[i].n \in (b + 1)..e
  /\ \A i, j \in 1..Len(Q) :
       i < j /\ IsData(Q[i], c) /\ IsData(Q[j], c) => Q[i].n < Q[j].n

\* The announcement of c is ahead of everything else about c, and there is one.
OpenFirst(Q, c) ==
  \A i, j \in 1..Len(Q) : Q[i] = ChannelOpen(c) /\ About(Q[j], c) => i <= j

--------------------------------------------------------------------------------
(* The inductive invariant *)

\* One connector socket at most is open: accepting one closes the others.
OneOpen == \A j, k \in Connectors : Open(j) /\ Open(k) => j = k

\* The daemon's own connector is open, or its end is on the way; nothing waits for
\* a connection the daemon has left, and the relay has not been told of the end of
\* the one it has.
Links ==
  /\ \A k \in Connectors : k # link => toConn[k] = <<>>
  /\ \A k \in Connectors : cstate[k] = "none" => fromConn[k] = <<>> /\ k # link
  /\ link # None =>
       /\ \A k \in Connectors : Open(k) => k = link
       /\ Open(link) \/ In(End, toConn[link])
       /\ ~In(End, fromConn[link])

\* A page sends and is sent packets of its own channel.
Packets(c) == [type : {"data"}, id : {c}, n : Nat]
PageQueues ==
  \A c \in Channels :
    /\ toPage[c] \in Seq({End} \cup Packets(c))
    /\ fromPage[c] \in Seq({Bad, End} \cup Packets(c))

\* The daemon has, or is about to learn of, the channel c.
Live(c) ==
  link # None /\ (daemon[c] = "open" \/ In(ChannelOpen(c), toConn[link]))

\* A channel nobody asked for has left no trace.
Fresh ==
  \A c \in Channels : bstate[c] = "none" =>
    /\ page[c] = "idle" /\ daemon[c] = "idle" /\ owner[c] = None
    /\ sent[c]["page"] = 0 /\ fromPage[c] = <<>> /\ toPage[c] = <<>>
    /\ got[c]["page"] = <<>>
    /\ link # None => NoneAbout(toConn[link], c)

\* A channel is announced once, to the connector that owns it, and before anything
\* else is said of it; its packets come from that connector alone.
Announced ==
  \A c \in Channels :
    /\ daemon[c] = "open" => link # None
    /\ daemon[c] = "idle" => sent[c]["daemon"] = 0 /\ got[c]["daemon"] = <<>>
    /\ Live(c) => owner[c] = link
    /\ link # None => OpenFirst(toConn[link], c)
    /\ link # None /\ In(ChannelOpen(c), toConn[link]) => daemon[c] = "idle"
    /\ \A k \in Connectors : k # owner[c] => NoData(fromConn[k], c)

\* ChannelsFreed, from the moment the channel is announced.
Freed ==
  \A c \in Channels : Live(c) =>
    \/ bstate[c] \in {"open", "closing"}
    \/ In(ChannelClose(c), toConn[link])
    \/ In(End, toConn[link])

\* From the page to the daemon: the packets not yet taken are in the connector's
\* queue and then, while the connector is open, in the page's.
ToDaemon ==
  \A c \in Channels : Live(c) =>
    \E mid \in 0..sent[c]["page"] :
      /\ Carries(toConn[link], c, Len(got[c]["daemon"]), mid)
      /\ Open(link) =>
           \E e \in mid..sent[c]["page"] :
             /\ Carries(fromPage[c], c, mid, e)
             /\ page[c] = "open" => e = sent[c]["page"]

\* From the daemon to the page, likewise, while the page's socket is open.
FromDaemon ==
  \A c \in Channels : page[c] = "open" =>
    \E mid \in 0..sent[c]["daemon"] :
      /\ Carries(toPage[c], c, Len(got[c]["page"]), mid)
      /\ bstate[c] = "open" =>
           \E e \in mid..sent[c]["daemon"] :
             /\ Carries(fromConn[owner[c]], c, mid, e)
             /\ daemon[c] # "closed" => e = sent[c]["daemon"]

RelayInv ==
  /\ TypeOK /\ OneOpen /\ Links /\ BridgesBelong /\ PageQueues /\ Fresh
  /\ Announced /\ Freed /\ ToDaemon /\ FromDaemon

--------------------------------------------------------------------------------
(* Facts about queues *)

\* A message by its type.
LEMMA Shapes ==
  ASSUME NEW m \in Message
  PROVE  /\ m.type = "data" =>
              m.id \in Channels /\ m.n \in Nat /\ m = Data(m.id, m.n)
         /\ m.type = "channel_open" => m.id \in Channels /\ m = ChannelOpen(m.id)
         /\ m.type = "channel_close" => m.id \in Channels /\ m = ChannelClose(m.id)
         /\ m.type = "end" => m = End
         /\ m.type = "bad" => m = Bad
         /\ m.type \in {"data", "channel_open", "channel_close", "end", "bad"}
BY DEF Message, Data, ChannelOpen, ChannelClose, End, Bad

\* The messages of the model are messages.
LEMMA Made ==
  ASSUME NEW c \in Channels, NEW n \in Nat
  PROVE  /\ Data(c, n) \in Message /\ IsData(Data(c, n), c)
         /\ ChannelOpen(c) \in Message /\ ChannelClose(c) \in Message
         /\ End \in Message /\ Bad \in Message
         /\ Data(c, n).n = n /\ Data(c, n).type = "data" /\ Data(c, n).id = c
         /\ ChannelOpen(c).type = "channel_open" /\ ChannelOpen(c).id = c
         /\ ChannelClose(c).type = "channel_close" /\ ChannelClose(c).id = c
         /\ End.type = "end" /\ Bad.type = "bad"
BY DEF Message, Data, ChannelOpen, ChannelClose, End, Bad, IsData

\* A queue with one entry more, or one less.
LEMMA SeqStep ==
  ASSUME NEW S, NEW Q \in Seq(S), NEW x \in S
  PROVE  /\ <<>> \in Seq(S) /\ <<x>> \in Seq(S) /\ Append(Q, x) \in Seq(S)
         /\ Q # <<>> => Head(Q) \in S /\ Tail(Q) \in Seq(S)
OBVIOUS

\* What a queue holds after an entry was added at its end.
LEMMA InAppend ==
  ASSUME NEW Q \in Seq(Message), NEW x \in Message, NEW m
  PROVE  /\ Append(Q, x) \in Seq(Message)
         /\ In(m, Append(Q, x)) <=> In(m, Q) \/ m = x
<1>1. Append(Q, x) \in Seq(Message) /\ Len(Append(Q, x)) = Len(Q) + 1
  OBVIOUS
<1>2. Append(Q, x)[Len(Q) + 1] = x /\ \A i \in 1..Len(Q) : Append(Q, x)[i] = Q[i]
  OBVIOUS
<1>3. In(m, Append(Q, x)) => In(m, Q) \/ m = x
  BY <1>1, <1>2 DEF In
<1>4. In(m, Q) => In(m, Append(Q, x))
  BY <1>1, <1>2 DEF In
<1>5. m = x => In(m, Append(Q, x))
  BY <1>1, <1>2 DEF In
<1> QED
  BY <1>1, <1>3, <1>4, <1>5

\* What a queue holds once its first entry is taken.
LEMMA InTail ==
  ASSUME NEW Q \in Seq(Message), Q # <<>>, NEW m
  PROVE  /\ Tail(Q) \in Seq(Message) /\ Head(Q) \in Message
         /\ In(m, Q) <=> In(m, Tail(Q)) \/ m = Head(Q)
<1>1. Tail(Q) \in Seq(Message) /\ Len(Tail(Q)) = Len(Q) - 1 /\ Len(Q) \in Nat \ {0}
  OBVIOUS
<1>2. Head(Q) = Q[1] /\ Head(Q) \in Message
  OBVIOUS
<1>3. \A i \in 1..Len(Tail(Q)) : Tail(Q)[i] = Q[i + 1] /\ i + 1 \in 1..Len(Q)
  BY <1>1
<1>4. In(m, Q) => In(m, Tail(Q)) \/ m = Head(Q)
  <2>1. SUFFICES ASSUME NEW i \in 1..Len(Q), Q[i] = m, i # 1 PROVE In(m, Tail(Q))
    BY <1>2 DEF In
  <2>2. i - 1 \in 1..Len(Tail(Q)) /\ Tail(Q)[i - 1] = Q[i]
    BY <1>1, <2>1
  <2> QED
    BY <2>1, <2>2 DEF In
<1>5. In(m, Tail(Q)) \/ m = Head(Q) => In(m, Q)
  BY <1>1, <1>2, <1>3 DEF In
<1> QED
  BY <1>1, <1>2, <1>4, <1>5

\* Nothing is in an empty queue, and one entry in a queue of one.
LEMMA InEmpty ==
  ASSUME NEW m, NEW x \in Message
  PROVE  /\ <<>> \in Seq(Message) /\ ~In(m, <<>>)
         /\ <<x>> \in Seq(Message) /\ (In(m, <<x>>) <=> m = x)
BY DEF In

\* A queue without packets of c stays one.
LEMMA NoDataStep ==
  ASSUME NEW Q \in Seq(Message), NEW x \in Message, NEW c
  PROVE  /\ NoData(<<>>, c)
         /\ ~IsData(x, c) => NoData(<<x>>, c)
         /\ NoData(Q, c) /\ ~IsData(x, c) => NoData(Append(Q, x), c)
         /\ Q # <<>> /\ NoData(Q, c) => NoData(Tail(Q), c)
<1>1. Q # <<>> => \A i \in 1..Len(Tail(Q)) : Tail(Q)[i] = Q[i + 1] /\ i + 1 \in 1..Len(Q)
  OBVIOUS
<1> QED
  BY <1>1 DEF NoData

LEMMA NoneAboutStep ==
  ASSUME NEW Q \in Seq(Message), NEW x \in Message, NEW c
  PROVE  /\ NoneAbout(<<>>, c)
         /\ NoneAbout(Q, c) /\ ~About(x, c) => NoneAbout(Append(Q, x), c)
         /\ Q # <<>> /\ NoneAbout(Q, c) => NoneAbout(Tail(Q), c) /\ ~About(Head(Q), c)
         /\ NoneAbout(Q, c) => NoData(Q, c) /\ ~In(ChannelOpen(c), Q)
<1>1. Q # <<>> => \A i \in 1..Len(Tail(Q)) : Tail(Q)[i] = Q[i + 1] /\ i + 1 \in 1..Len(Q)
  OBVIOUS
<1>2. NoneAbout(Q, c) => NoData(Q, c) /\ ~In(ChannelOpen(c), Q)
  BY DEF NoneAbout, NoData, In, IsData, About, ChannelOpen
<1>3. Q # <<>> => Head(Q) = Q[1] /\ 1 \in 1..Len(Q)
  OBVIOUS
<1> QED
  BY <1>1, <1>2, <1>3 DEF NoneAbout

\* A queue without packets of c carries none.
LEMMA CarriesNone ==
  ASSUME NEW Q \in Seq(Message), NEW c, NEW b \in Nat, NoData(Q, c)
  PROVE  Carries(Q, c, b, b)
BY DEF Carries, NoData

\* A queue between packets b and e holds another message.
LEMMA CarriesOther ==
  ASSUME NEW Q \in Seq(Message), NEW c \in Channels, NEW b \in Nat, NEW e \in Nat,
         Carries(Q, c, b, e), NEW x \in Message, ~IsData(x, c)
  PROVE  Carries(Append(Q, x), c, b, e)
<1>1. Len(Append(Q, x)) = Len(Q) + 1 /\ Append(Q, x)[Len(Q) + 1] = x
      /\ \A i \in 1..Len(Q) : Append(Q, x)[i] = Q[i]
  OBVIOUS
<1>2. \A n \in (b + 1)..e : In(Data(c, n), Append(Q, x))
  BY InAppend DEF Carries
<1>3. \A i \in 1..Len(Append(Q, x)) :
        IsData(Append(Q, x)[i], c) => i \in 1..Len(Q) /\ Append(Q, x)[i] = Q[i]
  BY <1>1
<1> QED
  BY <1>1, <1>2, <1>3 DEF Carries

\* The next packet is added.
LEMMA CarriesNext ==
  ASSUME NEW Q \in Seq(Message), NEW c \in Channels, NEW b \in Nat, NEW e \in Nat,
         Carries(Q, c, b, e)
  PROVE  Carries(Append(Q, Data(c, e + 1)), c, b, e + 1)
<1> DEFINE x == Data(c, e + 1)
           R == Append(Q, x)
<1>0. x \in Message /\ IsData(x, c) /\ x.n = e + 1
  BY Made
<1> HIDE DEF x
<1>1. Len(R) = Len(Q) + 1 /\ R[Len(Q) + 1] = x /\ \A i \in 1..Len(Q) : R[i] = Q[i]
  BY <1>0
<1>2. \A n \in (b + 1)..(e + 1) : In(Data(c, n), R)
  <2>1. TAKE n \in (b + 1)..(e + 1)
  <2>2. CASE n = e + 1
    BY <1>0, <2>2, InAppend DEF x
  <2>3. CASE n # e + 1
    BY <1>0, <2>3, InAppend DEF Carries
  <2> QED
    BY <2>2, <2>3
<1> HIDE DEF R
<1>3. \A i \in 1..Len(R) : i = Len(Q) + 1 \/ i \in 1..Len(Q)
  BY <1>1
<1>4. \A i \in 1..Len(R) : IsData(R[i], c) => R[i].n \in (b + 1)..(e + 1)
  BY <1>0, <1>1, <1>3 DEF Carries
<1>5. \A i, j \in 1..Len(R) :
        i < j /\ IsData(R[i], c) /\ IsData(R[j], c) => R[i].n < R[j].n
  <2>1. SUFFICES ASSUME NEW i \in 1..Len(R), NEW j \in 1..Len(R),
                        i < j, IsData(R[i], c), IsData(R[j], c)
                 PROVE  R[i].n < R[j].n
    OBVIOUS
  <2>2. i \in 1..Len(Q)
    BY <1>1, <2>1
  <2>3. CASE j \in 1..Len(Q)
    BY <1>1, <2>1, <2>2, <2>3 DEF Carries
  <2>4. CASE j = Len(Q) + 1
    BY <1>0, <1>1, <2>1, <2>2, <2>4 DEF Carries
  <2> QED
    BY <1>3, <2>3, <2>4
<1>6. b <= e + 1
  BY DEF Carries
<1>7. Carries(R, c, b, e + 1)
  BY <1>2, <1>4, <1>5, <1>6, Zenon DEF Carries
<1> QED
  BY <1>7 DEF R, x

\* The first entry is taken: a packet of c is the next one.
LEMMA CarriesTail ==
  ASSUME NEW Q \in Seq(Message), Q # <<>>,
         NEW c \in Channels, NEW b \in Nat, NEW e \in Nat, Carries(Q, c, b, e)
  PROVE  /\ ~IsData(Head(Q), c) => Carries(Tail(Q), c, b, e)
         /\ IsData(Head(Q), c) =>
              /\ Head(Q) = Data(c, b + 1)
              /\ b + 1 <= e
              /\ Carries(Tail(Q), c, b + 1, e)
<1> DEFINE R == Tail(Q)
<1>1. R \in Seq(Message) /\ Len(R) = Len(Q) - 1 /\ Len(Q) \in Nat \ {0}
      /\ Head(Q) = Q[1] /\ Head(Q) \in Message
  OBVIOUS
<1>2. \A i \in 1..Len(R) : R[i] = Q[i + 1] /\ i + 1 \in 1..Len(Q) /\ i + 1 > 1
  BY <1>1
<1>3. \A n : In(Data(c, n), Q) <=> In(Data(c, n), R) \/ Data(c, n) = Head(Q)
  BY InTail
<1>4. \A i, j \in 1..Len(R) :
        i < j /\ IsData(R[i], c) /\ IsData(R[j], c) => R[i].n < R[j].n
  <2>1. SUFFICES ASSUME NEW i \in 1..Len(R), NEW j \in 1..Len(R),
                        i < j, IsData(R[i], c), IsData(R[j], c)
                 PROVE  R[i].n < R[j].n
    OBVIOUS
  <2>2. R[i] = Q[i + 1] /\ R[j] = Q[j + 1] /\ i + 1 \in 1..Len(Q) /\ j + 1 \in 1..Len(Q)
    BY <1>2
  <2>3. i + 1 < j + 1
    BY <1>1, <2>1
  <2> QED
    BY <2>1, <2>2, <2>3 DEF Carries
<1> HIDE DEF R
<1>5. ASSUME ~IsData(Head(Q), c)
      PROVE  Carries(R, c, b, e)
  <2>1. \A n \in (b + 1)..e : In(Data(c, n), R)
    BY <1>3, <1>5, Made DEF Carries
  <2>2. \A i \in 1..Len(R) : IsData(R[i], c) => R[i].n \in (b + 1)..e
    BY <1>2 DEF Carries
  <2> QED
    BY <1>4, <2>1, <2>2 DEF Carries
<1>6. ASSUME IsData(Head(Q), c)
      PROVE  Head(Q) = Data(c, b + 1) /\ b + 1 <= e /\ Carries(R, c, b + 1, e)
  <2>1. Head(Q).n \in (b + 1)..e /\ Head(Q) = Data(c, Head(Q).n)
    BY <1>1, <1>6, Shapes DEF Carries, IsData
  <2>2. \A i \in 1..Len(R) : IsData(R[i], c) => R[i].n > Head(Q).n /\ R[i].n \in (b + 1)..e
    BY <1>1, <1>2, <1>6 DEF Carries
  <2>3. Head(Q).n = b + 1
    <3>1. SUFFICES ASSUME Head(Q).n # b + 1 PROVE FALSE
      OBVIOUS
    <3>2. In(Data(c, b + 1), Q) /\ Data(c, b + 1) # Head(Q)
      BY <2>1, <3>1, Made DEF Carries
    <3>3. In(Data(c, b + 1), R)
      BY <1>3, <3>2
    <3>4. PICK i \in 1..Len(R) : R[i] = Data(c, b + 1)
      BY <3>3 DEF In
    <3> QED
      BY <2>1, <2>2, <3>4, Made
  <2>4. \A n \in ((b + 1) + 1)..e : In(Data(c, n), R)
    <3>1. TAKE n \in ((b + 1) + 1)..e
    <3>2. In(Data(c, n), Q) /\ Data(c, n) # Head(Q)
      BY <2>3, Made DEF Carries
    <3> QED
      BY <1>3, <3>2
  <2>5. \A i \in 1..Len(R) : IsData(R[i], c) => R[i].n \in ((b + 1) + 1)..e
    BY <2>2, <2>3
  <2> QED
    BY <1>4, <2>1, <2>3, <2>4, <2>5 DEF Carries
<1> QED
  BY <1>5, <1>6 DEF R

\* The announcement of a channel stays first.
LEMMA OpenFirstAppend ==
  ASSUME NEW Q \in Seq(Message), NEW c \in Channels, OpenFirst(Q, c), NEW x \in Message,
         x = ChannelOpen(c) => NoneAbout(Q, c)
  PROVE  OpenFirst(Append(Q, x), c)
<1>1. Len(Append(Q, x)) = Len(Q) + 1 /\ Append(Q, x)[Len(Q) + 1] = x
      /\ \A i \in 1..Len(Q) : Append(Q, x)[i] = Q[i]
  OBVIOUS
<1> QED
  BY <1>1 DEF OpenFirst, NoneAbout

LEMMA OpenFirstTail ==
  ASSUME NEW Q \in Seq(Message), Q # <<>>, NEW c \in Channels, OpenFirst(Q, c)
  PROVE  /\ OpenFirst(Tail(Q), c)
         /\ About(Head(Q), c) => ~In(ChannelOpen(c), Tail(Q))
<1> DEFINE R == Tail(Q)
<1>1. R \in Seq(Message) /\ Len(R) = Len(Q) - 1 /\ Len(Q) \in Nat \ {0}
      /\ Head(Q) = Q[1]
  OBVIOUS
<1>2. \A i \in 1..Len(R) : R[i] = Q[i + 1] /\ i + 1 \in 1..Len(Q) /\ i + 1 > 1
  BY <1>1
<1> HIDE DEF R
<1>3. OpenFirst(R, c)
  <2>1. SUFFICES ASSUME NEW i \in 1..Len(R), NEW j \in 1..Len(R),
                        R[i] = ChannelOpen(c), About(R[j], c)
                 PROVE  i <= j
    BY DEF OpenFirst
  <2>2. i + 1 <= j + 1
    BY <1>2, <2>1 DEF OpenFirst
  <2> QED
    BY <1>1, <2>2
<1>4. About(Head(Q), c) => ~In(ChannelOpen(c), R)
  BY <1>1, <1>2 DEF In, OpenFirst
<1> QED
  BY <1>3, <1>4 DEF R

--------------------------------------------------------------------------------
(* Types *)

\* this.connector() is the open connector socket, when there is one.
LEMMA ConnectorIs ==
  ASSUME OneOpen
  PROVE  /\ connector # None => connector \in Connectors /\ Open(connector)
         /\ \A k \in Connectors : Open(k) => connector = k
         /\ (\A k \in Connectors : ~Open(k)) => connector = None
<1>1. ASSUME NEW k \in Connectors, Open(k)
      PROVE  connector = k
  <2>1. k <= k
    BY RelayAssumption
  <2>2. \A j \in Connectors : Open(j) => k <= j
    BY <1>1, <2>1 DEF OneOpen
  <2>3. \A j \in Connectors :
          (Open(j) /\ \A i \in Connectors : Open(i) => j <= i) <=> j = k
    BY <1>1, <2>2 DEF OneOpen
  <2> QED
    BY <1>1, <2>3 DEF connector
<1>2. (\A k \in Connectors : ~Open(k)) => connector = None
  BY DEF connector
<1> QED
  BY <1>1, <1>2

\* What the relay sends is a queue again.
LEMMA SentIs ==
  ASSUME TypeOK, NEW m \in Message
  PROVE  /\ \A k \in Connectors : ToConn(k, m) \in Seq(Message)
         /\ \A c \in Channels : ToPage(c, m) \in Seq(Message)
BY DEF TypeOK, ToConn, ToPage

\* Closing browser sockets keeps the types.
LEMMA CloseBrowsersTypes ==
  ASSUME TypeOK, NEW C, CloseBrowsers(C), UNCHANGED owner
  PROVE  /\ bstate' \in [Channels -> SocketState]
         /\ toPage' \in [Channels -> Seq(Message)]
         /\ \A c \in Channels : bstate'[c] # "none" => owner'[c] \in Connectors
<1>1. End \in Message
  BY DEF Message
<1>2. \A c \in Channels : ToPage(c, End) \in Seq(Message)
  BY <1>1, SentIs
<1>3. \A c \in Channels : bstate'[c] \in {"closing", bstate[c]} /\ (bstate'[c] # bstate[c] => bstate[c] = "open")
  BY DEF TypeOK, CloseBrowsers
<1> QED
  BY <1>2, <1>3 DEF TypeOK, CloseBrowsers, SocketState

\* The state a step of the relay's connector sockets leaves.
LEMMA OneOpenStep ==
  ASSUME TypeOK, OneOpen, [Next]_vars
  PROVE  OneOpen'
<1> USE DEF TypeOK, OneOpen, Open
<1>1. ASSUME NEW k \in Connectors, acceptConnector(k) PROVE OneOpen'
  BY <1>1 DEF acceptConnector
<1>2. ASSUME NEW k \in Connectors, connectorEnd(k) PROVE OneOpen'
  BY <1>2 DEF connectorEnd
<1>3. ASSUME NEW k \in Connectors, rejectConnector(k) PROVE OneOpen'
  BY <1>3 DEF rejectConnector
<1>4. CASE UNCHANGED cstate
  BY <1>4
<1> QED
  BY <1>1, <1>2, <1>3, <1>4
  DEF Next, webSocketMessage, webSocketClose, Environment, vars, relayVars,
      forwardCiphertext, rejectCiphertext, toBrowser, closeFromConnector, browserEnd,
      readRelay, DaemonDrops, DaemonGarbles, acceptBrowser, DaemonSend, DaemonCloses,
      PageSend, PageGarbles, PageDrops, PageRead

\* The first entry of a queue that is not empty, and the rest.
LEMMA HeadIs ==
  ASSUME TypeOK
  PROVE  /\ \A c \in Channels : fromPage[c] # <<>> =>
              Head(fromPage[c]) \in Message /\ Tail(fromPage[c]) \in Seq(Message)
         /\ \A c \in Channels : toPage[c] # <<>> =>
              Head(toPage[c]) \in Message /\ Tail(toPage[c]) \in Seq(Message)
         /\ \A k \in Connectors : fromConn[k] # <<>> =>
              Head(fromConn[k]) \in Message /\ Tail(fromConn[k]) \in Seq(Message)
         /\ \A k \in Connectors : toConn[k] # <<>> =>
              Head(toConn[k]) \in Message /\ Tail(toConn[k]) \in Seq(Message)
BY DEF TypeOK

\* The types are kept by the relay's handlers.
LEMMA RelayTypes ==
  ASSUME TypeOK, OneOpen, Fresh, webSocketMessage \/ webSocketClose
  PROVE  TypeOK'
<1> USE DEF TypeOK
<1>0. \A c \in Channels : ChannelClose(c) \in Message /\ End \in Message
  BY DEF Message, ChannelClose
<1>1. ASSUME NEW c \in Channels, forwardCiphertext(c) PROVE TypeOK'
  <2>1. Head(fromPage[c]) \in Message /\ Tail(fromPage[c]) \in Seq(Message)
    BY <1>1, HeadIs DEF forwardCiphertext, FromPage
  <2>2. fromPage' \in [Channels -> Seq(Message)]
    BY <1>1, <2>1 DEF forwardCiphertext, PopPage
  <2>3. CASE SendToConnector(Head(fromPage[c])) /\ UNCHANGED <<bstate, toPage>>
    <3>1. toConn' \in [Connectors -> Seq(Message)]
      BY <2>1, <2>3, SentIs, ConnectorIs DEF SendToConnector
    <3> QED
      BY <1>1, <2>2, <2>3, <3>1 DEF forwardCiphertext
  <2>4. CASE CloseBrowsers({c}) /\ UNCHANGED toConn
    BY <1>1, <2>2, <2>4, CloseBrowsersTypes DEF forwardCiphertext
  <2> QED
    BY <1>1, <2>3, <2>4 DEF forwardCiphertext
<1>2. ASSUME NEW c \in Channels, rejectCiphertext(c) PROVE TypeOK'
  <2>1. fromPage' \in [Channels -> Seq(Message)]
    BY <1>2, HeadIs DEF rejectCiphertext, PopPage, FromPage
  <2> QED
    BY <1>2, <2>1, CloseBrowsersTypes DEF rejectCiphertext
<1>3. ASSUME NEW k \in Connectors, toBrowser(k) PROVE TypeOK'
  <2>1. Head(fromConn[k]) \in Message /\ Head(fromConn[k]).id \in Channels
    BY <1>3, HeadIs, Shapes DEF toBrowser, FromConn
  <2>2. fromConn' \in [Connectors -> Seq(Message)]
    BY <1>3, HeadIs DEF toBrowser, PopConn, FromConn
  <2>3. ToPage(Head(fromConn[k]).id, Head(fromConn[k])) \in Seq(Message)
    BY <2>1, SentIs
  <2>4. toPage' \in [Channels -> Seq(Message)]
    BY <1>3, <2>1, <2>3 DEF toBrowser
  <2> QED
    BY <1>3, <2>2, <2>4 DEF toBrowser, relayVars
<1>4. ASSUME NEW k \in Connectors, closeFromConnector(k) PROVE TypeOK'
  <2>1. fromConn' \in [Connectors -> Seq(Message)]
    BY <1>4, HeadIs DEF closeFromConnector, PopConn, FromConn
  <2> QED
    BY <1>4, <2>1, CloseBrowsersTypes DEF closeFromConnector
<1>5. ASSUME NEW k \in Connectors, rejectConnector(k) PROVE TypeOK'
  <2>1. fromConn' \in [Connectors -> Seq(Message)]
    BY <1>5, HeadIs DEF rejectConnector, PopConn, FromConn
  <2>2. toConn' \in [Connectors -> Seq(Message)]
    BY <1>0, <1>5, SentIs DEF rejectConnector, Message
  <2>3. cstate' \in [Connectors -> SocketState]
    BY <1>5 DEF rejectConnector, SocketState
  <2> QED
    BY <1>5, <2>1, <2>2, <2>3 DEF rejectConnector
<1>6. ASSUME NEW c \in Channels, browserEnd(c) PROVE TypeOK'
  <2>1. fromPage' \in [Channels -> Seq(Message)]
    BY <1>6, HeadIs DEF browserEnd, PopPage, FromPage
  <2>2. toConn' \in [Connectors -> Seq(Message)]
    <3>1. CASE SendToConnector(ChannelClose(c))
      BY <1>0, <3>1, SentIs, ConnectorIs DEF SendToConnector
    <3>2. CASE UNCHANGED toConn
      BY <3>2
    <3> QED
      BY <1>6, <3>1, <3>2 DEF browserEnd
  <2>3. bstate[c] # "none"
    BY <1>6 DEF browserEnd, FromPage, Fresh
  <2>4. bstate' \in [Channels -> SocketState]
    BY <1>6 DEF browserEnd, SocketState
  <2> QED
    BY <1>6, <2>1, <2>2, <2>3, <2>4 DEF browserEnd
<1>7. ASSUME NEW k \in Connectors, connectorEnd(k) PROVE TypeOK'
  <2>1. fromConn' \in [Connectors -> Seq(Message)]
    BY <1>7, HeadIs DEF connectorEnd, PopConn, FromConn
  <2>2. cstate' \in [Connectors -> SocketState]
    BY <1>7 DEF connectorEnd, SocketState
  <2>3. CASE UNCHANGED <<bstate, toPage>>
    BY <1>7, <2>1, <2>2, <2>3 DEF connectorEnd
  <2>4. CASE disconnectBrowsers
    BY <1>7, <2>1, <2>2, <2>4, CloseBrowsersTypes DEF connectorEnd, disconnectBrowsers
  <2> QED
    BY <1>7, <2>3, <2>4 DEF connectorEnd
<1> QED
  BY <1>1, <1>2, <1>3, <1>4, <1>5, <1>6, <1>7 DEF webSocketMessage, webSocketClose

\* The types are kept by the daemon, by the pages, and by new connections.
LEMMA PeerTypes ==
  ASSUME TypeOK, OneOpen, PageQueues, Links,
         readRelay \/ Environment \/ \E c \in Channels : PageRead(c)
  PROVE  TypeOK'
<1> USE DEF TypeOK
<1>0. /\ End \in Message /\ Bad \in Message
      /\ \A c \in Channels : ChannelOpen(c) \in Message /\ ChannelClose(c) \in Message
      /\ \A c \in Channels, n \in Nat : Data(c, n) \in Message
  BY Made DEF Message
<1>1. ASSUME NEW k \in Connectors, acceptConnector(k) PROVE TypeOK'
  <2>1. toConn' \in [Connectors -> Seq(Message)]
    BY <1>0, <1>1, SentIs DEF acceptConnector
  <2>2. cstate' \in [Connectors -> SocketState]
    BY <1>1 DEF acceptConnector, SocketState
  <2> QED
    BY <1>1, <2>1, <2>2, CloseBrowsersTypes DEF acceptConnector, disconnectBrowsers
<1>2. ASSUME NEW c \in Channels, acceptBrowser(c) PROVE TypeOK'
  <2>1. connector \in Connectors
    BY <1>2, ConnectorIs DEF acceptBrowser, BrowserAllowed
  <2>2. owner' \in [Channels -> Connectors \cup {None}] /\ owner'[c] = connector
        /\ \A d \in Channels \ {c} : owner'[d] = owner[d]
    BY <1>2, <2>1 DEF acceptBrowser
  <2>3. toConn' \in [Connectors -> Seq(Message)]
    <3>1. ToConn(connector, ChannelOpen(c)) \in Seq(Message)
      BY <1>0, <2>1, SentIs
    <3>2. \/ toConn' = [toConn EXCEPT ![connector] = ToConn(connector, ChannelOpen(c))]
          \/ toConn' = toConn
      BY <1>2 DEF acceptBrowser
    <3> QED
      BY <2>1, <3>1, <3>2
  <2>4. toPage' \in [Channels -> Seq(Message)]
    <3>1. toPage' = toPage \/ toPage' = [toPage EXCEPT ![c] = <<End>>]
      BY <1>2 DEF acceptBrowser
    <3>2. <<End>> \in Seq(Message)
      BY <1>0, InEmpty
    <3> QED
      BY <3>1, <3>2
  <2>5. bstate' \in [Channels -> SocketState] /\ \A d \in Channels \ {c} : bstate'[d] = bstate[d]
    BY <1>2 DEF acceptBrowser, SocketState
  <2>6. page' \in [Channels -> EndState]
    BY <1>2 DEF acceptBrowser, EndState
  <2>7. \A d \in Channels : bstate'[d] # "none" => owner'[d] \in Connectors
    BY <2>1, <2>2, <2>5
  <2> QED
    BY <1>2, <2>2, <2>3, <2>4, <2>5, <2>6, <2>7 DEF acceptBrowser
<1>3. ASSUME link # None, LinkLost(link)
      PROVE  /\ link' \in Connectors \cup {None}
             /\ daemon' \in [Channels -> EndState]
             /\ fromConn' \in [Connectors -> Seq(Message)]
  <2>1. daemon' \in [Channels -> EndState]
    BY <1>3 DEF LinkLost, EndState
  <2>2. fromConn' \in [Connectors -> Seq(Message)]
    <3>1. link \in Connectors /\ <<End>> \in Seq(Message)
      BY <1>0, <1>3, InEmpty
    <3>2. Append(fromConn[link], End) \in Seq(Message)
      BY <1>0, <3>1, InAppend
    <3> QED
      BY <1>3, <3>1, <3>2 DEF LinkLost
  <2> QED
    BY <1>3, <2>1, <2>2 DEF LinkLost
<1>4. CASE readRelay
  <2> DEFINE m == Head(toConn[link])
  <2>1. link \in Connectors /\ m \in Message /\ Tail(toConn[link]) \in Seq(Message)
    BY <1>4, HeadIs DEF readRelay
  <2>2. toConn' \in [Connectors -> Seq(Message)]
    BY <1>4, <2>1, InEmpty DEF readRelay
  <2>3. CASE m.type = "channel_open"
    <3>1. m.id \in Channels
      BY <2>1, <2>3, Shapes
    <3>2. daemon' \in [Channels -> EndState]
      BY <1>4, <2>3, <3>1 DEF readRelay, EndState
    <3> QED
      BY <1>4, <2>2, <2>3, <3>2 DEF readRelay, relayVars
  <2>4. CASE m.type = "data"
    <3>1. m.id \in Channels /\ m.n \in Nat
      BY <2>1, <2>4, Shapes
    <3>2. CASE daemon[m.id] = "open"
      <4>1. got' = [got EXCEPT ![m.id]["daemon"] = Append(@, m.n)]
        BY <1>4, <2>4, <3>2 DEF readRelay
      <4>2. Append(got[m.id]["daemon"], m.n) \in Seq(Nat)
        BY <3>1
      <4>3. got' \in [Channels -> [{"page", "daemon"} -> Seq(Nat)]]
        BY <3>1, <4>1, <4>2
      <4> QED
        BY <1>4, <2>2, <2>4, <3>2, <4>3 DEF readRelay, relayVars
    <3>3. CASE daemon[m.id] # "open"
      <4>1. fromConn' \in [Connectors -> Seq(Message)]
        <5>1. fromConn' = [fromConn EXCEPT ![link] = Append(@, ChannelClose(m.id))]
          BY <1>4, <2>4, <3>3 DEF readRelay
        <5>2. Append(fromConn[link], ChannelClose(m.id)) \in Seq(Message)
          BY <1>0, <2>1, <3>1, InAppend
        <5> QED
          BY <2>1, <5>1, <5>2
      <4> QED
        BY <1>4, <2>2, <2>4, <3>3, <4>1 DEF readRelay, relayVars
    <3> QED
      BY <3>2, <3>3
  <2>5. CASE m.type = "channel_close"
    <3>1. m.id \in Channels
      BY <2>1, <2>5, Shapes
    <3>2. daemon' \in [Channels -> EndState]
      BY <1>4, <2>5, <3>1 DEF readRelay, closeChannel, EndState
    <3> QED
      BY <1>4, <2>2, <2>5, <3>2 DEF readRelay, relayVars
  <2>6. CASE m.type = "end"
    BY <1>3, <1>4, <2>2, <2>6 DEF readRelay, relayVars
  <2> QED
    BY <1>4, <2>3, <2>4, <2>5, <2>6 DEF readRelay
<1>5. CASE DaemonDrops
  <2>1. toConn' \in [Connectors -> Seq(Message)]
    BY <1>5, InEmpty DEF DaemonDrops
  <2> QED
    BY <1>3, <1>5, <2>1 DEF DaemonDrops, relayVars
<1>6. CASE DaemonGarbles
  <2>1. fromConn' \in [Connectors -> Seq(Message)]
    BY <1>0, <1>6 DEF DaemonGarbles
  <2> QED
    BY <1>6, <2>1 DEF DaemonGarbles, relayVars
<1>7. ASSUME NEW c \in Channels, DaemonSend(c) PROVE TypeOK'
  <2>1. sent[c]["daemon"] + 1 \in Nat
    OBVIOUS
  <2>2. fromConn' \in [Connectors -> Seq(Message)]
    BY <1>0, <1>7, <2>1 DEF DaemonSend
  <2>3. sent' \in [Channels -> [{"page", "daemon"} -> Nat]]
    BY <1>7, <2>1 DEF DaemonSend
  <2> QED
    BY <1>7, <2>2, <2>3 DEF DaemonSend, relayVars
<1>8. ASSUME NEW c \in Channels, DaemonCloses(c) PROVE TypeOK'
  <2>1. fromConn' \in [Connectors -> Seq(Message)]
    BY <1>0, <1>8 DEF DaemonCloses
  <2>2. daemon' \in [Channels -> EndState]
    BY <1>8 DEF DaemonCloses, EndState
  <2> QED
    BY <1>8, <2>1, <2>2 DEF DaemonCloses, relayVars
<1>9. ASSUME NEW c \in Channels, PageSend(c) PROVE TypeOK'
  <2>1. sent[c]["page"] + 1 \in Nat
    OBVIOUS
  <2>2. fromPage' \in [Channels -> Seq(Message)]
    BY <1>0, <1>9, <2>1 DEF PageSend
  <2>3. sent' \in [Channels -> [{"page", "daemon"} -> Nat]]
    BY <1>9, <2>1 DEF PageSend
  <2> QED
    BY <1>9, <2>2, <2>3 DEF PageSend, relayVars
<1>10. ASSUME NEW c \in Channels, PageGarbles(c) PROVE TypeOK'
  <2>1. fromPage' \in [Channels -> Seq(Message)]
    BY <1>0, <1>10, InEmpty DEF PageGarbles
  <2> QED
    BY <1>10, <2>1 DEF PageGarbles, relayVars
<1>11. ASSUME NEW c \in Channels, PageLeaves(c)
       PROVE  /\ page' \in [Channels -> EndState]
              /\ toPage' \in [Channels -> Seq(Message)]
              /\ fromPage' \in [Channels -> Seq(Message)]
  <2>1. page' \in [Channels -> EndState] /\ toPage' \in [Channels -> Seq(Message)]
    BY <1>11, InEmpty DEF PageLeaves, EndState
  <2>2. fromPage' \in [Channels -> Seq(Message)]
    <3>1. <<End>> \in Seq(Message) /\ Append(fromPage[c], End) \in Seq(Message)
      BY <1>0, InEmpty, InAppend
    <3> QED
      BY <1>11, <3>1 DEF PageLeaves
  <2> QED
    BY <2>1, <2>2
<1>12. ASSUME NEW c \in Channels, PageDrops(c) PROVE TypeOK'
  BY <1>11, <1>12 DEF PageDrops, relayVars
<1>13. ASSUME NEW c \in Channels, PageRead(c) PROVE TypeOK'
  <2>1. CASE Head(toPage[c]) = End /\ PageLeaves(c) /\ UNCHANGED got
    BY <1>11, <1>13, <2>1 DEF PageRead, relayVars
  <2>2. CASE /\ Head(toPage[c]) # End
             /\ got' = [got EXCEPT ![c]["page"] = Append(@, Head(toPage[c]).n)]
             /\ toPage' = [toPage EXCEPT ![c] = Tail(@)]
             /\ UNCHANGED <<page, fromPage>>
    <3>1. toPage[c] # <<>> /\ Head(toPage[c]) \in Message /\ Tail(toPage[c]) \in Seq(Message)
      BY <1>13, HeadIs DEF PageRead
    <3>3. IsData(Head(toPage[c]), c)
      <4>1. toPage[c] \in Seq({End} \cup Packets(c))
        BY DEF PageQueues
      <4>2. Head(toPage[c]) \in {End} \cup Packets(c)
        BY <3>1, <4>1, SeqStep
      <4> QED
        BY <2>2, <4>2 DEF Packets, IsData
    <3>4. Head(toPage[c]).n \in Nat
      BY <3>1, <3>3, Shapes DEF IsData
    <3>5. Append(got[c]["page"], Head(toPage[c]).n) \in Seq(Nat)
      BY <3>4
    <3>6. got' \in [Channels -> [{"page", "daemon"} -> Seq(Nat)]]
      BY <2>2, <3>5
    <3>7. toPage' \in [Channels -> Seq(Message)]
      BY <2>2, <3>1
    <3> QED
      BY <1>13, <2>2, <3>6, <3>7 DEF PageRead, relayVars
  <2> QED
    BY <1>13, <2>1, <2>2 DEF PageRead
<1> QED
  BY <1>1, <1>2, <1>4, <1>5, <1>6, <1>7, <1>8, <1>9, <1>10, <1>12, <1>13 DEF Environment

--------------------------------------------------------------------------------
(* Connector sockets *)

\* What is sent on a connector socket arrives if the daemon is still there.
LEMMA SentToConn ==
  ASSUME TypeOK, Links, NEW k \in Connectors, NEW m \in Message,
         toConn' = [toConn EXCEPT ![k] = ToConn(k, m)]
  PROVE  /\ k # link => toConn' = toConn
         /\ k = link => toConn'[link] = Append(toConn[link], m)
         /\ \A j \in Connectors : j # link => toConn'[j] = <<>>
BY DEF TypeOK, Links, ToConn

\* A step that adds an entry to the daemon's queue, or leaves all of them alone.
LEMMA LinksSent ==
  ASSUME TypeOK, Links, OneOpen, UNCHANGED <<cstate, link, fromConn>>,
         NEW m \in Message, connector # None,
         toConn' = [toConn EXCEPT ![connector] = ToConn(connector, m)]
  PROVE  Links'
<1>1. connector \in Connectors
  BY ConnectorIs
<1>2. /\ connector # link => toConn' = toConn
      /\ connector = link => toConn'[link] = Append(toConn[link], m)
      /\ \A j \in Connectors : j # link => toConn'[j] = <<>>
  BY <1>1, SentToConn
<1>3. link # None => (In(End, toConn[link]) => In(End, toConn'[link]))
  <2>1. link # None => toConn[link] \in Seq(Message)
    BY DEF TypeOK
  <2>2. link # None => (In(End, toConn[link]) => In(End, Append(toConn[link], m)))
    BY <2>1, InAppend
  <2> QED
    BY <1>2, <2>2
<1> QED
  BY <1>2, <1>3 DEF Links, Open

LEMMA LinksStep ==
  ASSUME TypeOK, Links, OneOpen, [Next]_vars
  PROVE  Links'
<1>0. /\ End \in Message /\ Bad \in Message
      /\ \A c \in Channels : ChannelOpen(c) \in Message /\ ChannelClose(c) \in Message
      /\ \A c \in Channels, n \in Nat : Data(c, n) \in Message
  BY Made DEF Message
<1>1. ASSUME NEW k \in Connectors, acceptConnector(k) PROVE Links'
  <2>1. link = None /\ link' = k /\ k # None
    BY <1>1, RelayAssumption DEF acceptConnector
  <2>2. \A j \in Connectors : j # None
    BY RelayAssumption
  <2>3. toConn' = [j \in Connectors |-> <<>>]
    BY <1>1, <2>1, <2>2 DEF acceptConnector, ToConn, Links, TypeOK
  <2>4. \A j \in Connectors : cstate'[j] = "open" <=> j = k
    BY <1>1 DEF acceptConnector, Open, TypeOK
  <2>5. fromConn' = fromConn /\ fromConn[k] = <<>>
    BY <1>1 DEF acceptConnector, Links
  <2>6. \A j \in Connectors : cstate'[j] = "none" => cstate[j] = "none" /\ j # k
    BY <1>1 DEF acceptConnector, TypeOK
  <2>7. ~In(End, fromConn'[k])
    BY <1>0, <2>5, InEmpty
  <2> QED
    BY <2>1, <2>3, <2>4, <2>5, <2>6, <2>7 DEF Links, Open
<1>2. ASSUME NEW c \in Channels, acceptBrowser(c) PROVE Links'
  <2>1. CASE toConn' = [toConn EXCEPT ![connector] = ToConn(connector, ChannelOpen(c))]
    BY <1>0, <1>2, <2>1, LinksSent DEF acceptBrowser, BrowserAllowed
  <2>2. CASE UNCHANGED toConn
    BY <1>2, <2>2 DEF acceptBrowser, Links, Open
  <2> QED
    BY <1>2, <2>1, <2>2 DEF acceptBrowser
<1>3. ASSUME NEW c \in Channels, forwardCiphertext(c) PROVE Links'
  <2>1. Head(fromPage[c]) \in Message
    BY <1>3, HeadIs DEF forwardCiphertext, FromPage
  <2>2. CASE SendToConnector(Head(fromPage[c]))
    BY <1>3, <2>1, <2>2, LinksSent DEF forwardCiphertext, SendToConnector
  <2>3. CASE UNCHANGED toConn
    BY <1>3, <2>3 DEF forwardCiphertext, Links, Open
  <2> QED
    BY <1>3, <2>2, <2>3 DEF forwardCiphertext
<1>4. ASSUME NEW c \in Channels, browserEnd(c) PROVE Links'
  <2>1. CASE SendToConnector(ChannelClose(c))
    BY <1>0, <1>4, <2>1, LinksSent DEF browserEnd, SendToConnector
  <2>2. CASE UNCHANGED toConn
    BY <1>4, <2>2 DEF browserEnd, Links, Open
  <2> QED
    BY <1>4, <2>1, <2>2 DEF browserEnd
<1>5. ASSUME NEW k \in Connectors, PopConn(k), fromConn[k] # <<>>, UNCHANGED <<link>>,
             UNCHANGED <<cstate, toConn>>
      PROVE  Links'
  <2>1. fromConn'[k] = Tail(fromConn[k]) /\ \A j \in Connectors : j # k => fromConn'[j] = fromConn[j]
    BY <1>5 DEF PopConn, TypeOK
  <2>2. In(End, fromConn'[k]) => In(End, fromConn[k])
    BY <1>5, <2>1, InTail DEF TypeOK
  <2> QED
    BY <1>5, <2>1, <2>2 DEF Links, Open, TypeOK
<1>6. ASSUME NEW k \in Connectors, connectorEnd(k) PROVE Links'
  <2>1. fromConn[k] # <<>> /\ Head(fromConn[k]) = End
    BY <1>6, HeadIs, Shapes DEF connectorEnd, FromConn
  <2>2. k # link
    <3>1. In(End, fromConn[k])
      BY <2>1, InTail DEF TypeOK
    <3> QED
      BY <3>1, RelayAssumption DEF Links
  <2>3. \A j \in Connectors : j # k => fromConn'[j] = fromConn[j] /\ cstate'[j] = cstate[j]
    BY <1>6 DEF connectorEnd, PopConn, TypeOK
  <2>4. cstate'[k] = "closed"
    BY <1>6 DEF connectorEnd, TypeOK
  <2> QED
    BY <1>6, <2>1, <2>2, <2>3, <2>4 DEF connectorEnd, Links, Open, TypeOK
<1>7. ASSUME NEW k \in Connectors, rejectConnector(k) PROVE Links'
  <2>1. fromConn[k] # <<>> /\ Head(fromConn[k]) = Bad
    BY <1>7, HeadIs, Shapes DEF rejectConnector, FromConn
  <2>2. fromConn'[k] = Tail(fromConn[k]) /\ \A j \in Connectors : j # k => fromConn'[j] = fromConn[j]
    BY <1>7 DEF rejectConnector, PopConn, TypeOK
  <2>3. In(End, fromConn'[k]) => In(End, fromConn[k])
    BY <2>1, <2>2, InTail DEF TypeOK
  <2>4. cstate[k] # "none"
    BY <2>1 DEF Links
  <2>5. cstate'[k] # "none" /\ cstate'[k] # "open" /\ \A j \in Connectors : j # k => cstate'[j] = cstate[j]
    BY <1>7, <2>4 DEF rejectConnector, Open, TypeOK
  <2>6. link' = link
    BY <1>7 DEF rejectConnector
  <2>7. \A j \in Connectors : cstate'[j] = "none" => fromConn'[j] = <<>> /\ j # link'
    BY <2>2, <2>5, <2>6 DEF Links
  <2>8. link' # None => ~In(End, fromConn'[link'])
    BY <2>2, <2>3, <2>6 DEF Links, TypeOK
  <2>9. link' # None => \A j \in Connectors : cstate'[j] = "open" => j = link'
    BY <2>5, <2>6 DEF Links, Open
  <2>10. CASE Open(k)
    <3>1. toConn' = [toConn EXCEPT ![k] = ToConn(k, End)]
      BY <1>7, <2>10 DEF rejectConnector
    <3>2. /\ k = link => toConn'[link] = Append(toConn[link], End)
          /\ \A j \in Connectors : j # link => toConn'[j] = <<>>
      BY <1>0, <3>1, SentToConn
    <3>3. k = link => In(End, toConn'[link])
      <4>1. In(End, Append(toConn[k], End))
        BY <1>0, InAppend DEF TypeOK
      <4> QED
        BY <3>2, <4>1
    <3>4. link # None => k = link
      BY <2>10 DEF Links
    <3> QED
      BY <2>6, <2>7, <2>8, <2>9, <3>2, <3>3, <3>4 DEF Links, Open
  <2>11. CASE ~Open(k)
    <3>1. toConn' = toConn /\ cstate' = cstate
      BY <1>7, <2>11 DEF rejectConnector, TypeOK
    <3> QED
      BY <2>6, <2>7, <2>8, <2>9, <3>1 DEF Links, Open
  <2> QED
    BY <2>10, <2>11
<1>8. ASSUME link # None, LinkLost(link), UNCHANGED cstate,
             toConn' = [toConn EXCEPT ![link] = <<>>]
      PROVE  Links'
  <2>1. link \in Connectors /\ link' = None
    BY <1>8 DEF LinkLost, TypeOK
  <2>2. \A j \in Connectors : toConn'[j] = <<>>
    BY <1>8, <2>1 DEF Links, TypeOK
  <2>3. \A j \in Connectors : j # link => fromConn'[j] = fromConn[j]
    BY <1>8, <2>1 DEF LinkLost, TypeOK
  <2>4. cstate[link] # "none" /\ None \notin Connectors
    BY <2>1, RelayAssumption DEF Links
  <2> QED
    BY <1>8, <2>1, <2>2, <2>3, <2>4 DEF Links
<1>9. ASSUME link # None, NEW m \in Message, m # End, UNCHANGED <<cstate, link, toConn>>,
             fromConn' = [fromConn EXCEPT ![link] = Append(@, m)]
      PROVE  Links'
  <2>1. link \in Connectors /\ cstate[link] # "none"
    BY <1>9 DEF Links, TypeOK
  <2>2. fromConn'[link] = Append(fromConn[link], m)
        /\ \A j \in Connectors : j # link => fromConn'[j] = fromConn[j]
    BY <1>9, <2>1 DEF TypeOK
  <2>3. ~In(End, fromConn'[link])
    BY <1>9, <2>1, <2>2, InAppend DEF Links, TypeOK
  <2> QED
    BY <1>9, <2>1, <2>2, <2>3 DEF Links, Open
<1>10. CASE readRelay
  <2> DEFINE m == Head(toConn[link])
  <2>1. link \in Connectors /\ m \in Message /\ toConn[link] # <<>>
    BY <1>10, HeadIs DEF readRelay, TypeOK
  <2>2. CASE m = End
    <3>1. m.type = "end"
      BY <2>2 DEF End
    <3>2. LinkLost(link) /\ toConn' = [toConn EXCEPT ![link] = <<>>]
      BY <1>10, <2>2, <3>1 DEF readRelay
    <3> QED
      BY <1>8, <1>10, <3>2 DEF readRelay, relayVars
  <2>3. CASE m # End
    <3>1. m.type # "end"
      BY <2>1, <2>3, Shapes
    <3>2. toConn' = [toConn EXCEPT ![link] = Tail(@)] /\ UNCHANGED <<link, cstate>>
      BY <1>10, <2>3, <3>1 DEF readRelay, relayVars
    <3>3. toConn'[link] = Tail(toConn[link]) /\ \A j \in Connectors : j # link => toConn'[j] = toConn[j]
      BY <2>1, <3>2 DEF TypeOK
    <3>4. In(End, toConn[link]) => In(End, toConn'[link])
      BY <2>1, <2>3, <3>3, InTail DEF TypeOK
    <3>5. CASE UNCHANGED fromConn
      BY <1>10, <3>2, <3>3, <3>4, <3>5 DEF readRelay, Links, Open
    <3>6. CASE fromConn' = [fromConn EXCEPT ![link] = Append(@, ChannelClose(m.id))] /\ m.type = "data"
      <4>1. ChannelClose(m.id) \in Message /\ ChannelClose(m.id) # End
        BY <1>0, <2>1, <3>6, Shapes DEF ChannelClose, End
      <4>2. fromConn'[link] = Append(fromConn[link], ChannelClose(m.id))
            /\ \A j \in Connectors : j # link => fromConn'[j] = fromConn[j]
        BY <2>1, <3>6 DEF TypeOK
      <4>3. ~In(End, fromConn'[link])
        BY <1>10, <2>1, <4>1, <4>2, InAppend DEF Links, TypeOK, readRelay
      <4>4. cstate[link] # "none"
        BY <2>1 DEF Links
      <4> QED
        BY <1>10, <3>2, <3>3, <3>4, <4>2, <4>3, <4>4 DEF readRelay, Links, Open
    <3> QED
      BY <1>10, <3>1, <3>5, <3>6 DEF readRelay
  <2> QED
    BY <2>2, <2>3
<1>11. CASE DaemonDrops
  BY <1>8, <1>11 DEF DaemonDrops, relayVars
<1>12. CASE DaemonGarbles
  <2>1. Bad # End
    BY DEF Bad, End
  <2> QED
    BY <1>0, <1>9, <1>12, <2>1 DEF DaemonGarbles, relayVars
<1>13. ASSUME NEW c \in Channels, DaemonSend(c) PROVE Links'
  <2>1. sent[c]["daemon"] + 1 \in Nat
    BY DEF TypeOK
  <2>2. Data(c, sent[c]["daemon"] + 1) \in Message /\ Data(c, sent[c]["daemon"] + 1) # End
    BY <1>0, <2>1 DEF Data, End
  <2> QED
    BY <1>9, <1>13, <2>2 DEF DaemonSend, relayVars
<1>14. ASSUME NEW c \in Channels, DaemonCloses(c) PROVE Links'
  <2>1. ChannelClose(c) # End
    BY DEF ChannelClose, End
  <2> QED
    BY <1>0, <1>9, <1>14, <2>1 DEF DaemonCloses, relayVars
<1>15. CASE UNCHANGED <<cstate, link, toConn, fromConn>>
  BY <1>15 DEF Links, Open
<1> QED
  BY <1>1, <1>2, <1>3, <1>4, <1>5, <1>6, <1>7, <1>10, <1>11, <1>12, <1>13, <1>14, <1>15
  DEF Next, webSocketMessage, webSocketClose, Environment, vars, relayVars, queues,
      rejectCiphertext, toBrowser, closeFromConnector, FromConn,
      PageSend, PageGarbles, PageDrops, PageRead

\* Closing browser sockets opens none, and tells the pages of those it closes.
LEMMA Closes ==
  ASSUME TypeOK, NEW C, CloseBrowsers(C), NEW c \in Channels
  PROVE  /\ bstate'[c] = "open" => bstate[c] = "open" /\ c \notin C /\ toPage'[c] = toPage[c]
         /\ bstate'[c] = "none" <=> bstate[c] = "none"
         /\ bstate[c] = "none" => toPage'[c] = toPage[c]
         /\ bstate'[c] \in {"open", "closing"} <=> bstate[c] \in {"open", "closing"}
         /\ toPage'[c] = toPage[c] \/ toPage'[c] = ToPage(c, End)
BY DEF TypeOK, CloseBrowsers, SocketState

\* Pages belong to the open connector, or to none.
LEMMA BridgesBelongStep ==
  ASSUME TypeOK, OneOpen, Links, Fresh, BridgesBelong, [Next]_vars
  PROVE  BridgesBelong'
<1>0. OneOpen'
  BY OneOpenStep
<1>1. cstate' = cstate => connector' = connector
  BY DEF connector, Open
<1>2. ASSUME UNCHANGED <<cstate, owner>>,
             \A c \in Channels : bstate'[c] = "open" => bstate[c] = "open"
      PROVE  BridgesBelong'
  BY <1>1, <1>2 DEF BridgesBelong, Open
<1>3. ASSUME NEW k \in Connectors, acceptConnector(k) PROVE BridgesBelong'
  BY <1>3, Closes DEF acceptConnector, disconnectBrowsers, Sockets, BridgesBelong
<1>4. ASSUME NEW c \in Channels, acceptBrowser(c) PROVE BridgesBelong'
  <2>1. connector \in Connectors /\ Open(connector) /\ connector' = connector /\ cstate' = cstate
    BY <1>1, <1>4, ConnectorIs DEF acceptBrowser, BrowserAllowed
  <2>2. owner'[c] = connector /\ \A d \in Channels : d # c => owner'[d] = owner[d] /\ bstate'[d] = bstate[d]
    BY <1>4 DEF acceptBrowser, TypeOK
  <2> QED
    BY <2>1, <2>2 DEF BridgesBelong, Open
<1>5. ASSUME NEW c \in Channels, forwardCiphertext(c) PROVE BridgesBelong'
  BY <1>2, <1>5, Closes DEF forwardCiphertext
<1>6. ASSUME NEW c \in Channels, rejectCiphertext(c) PROVE BridgesBelong'
  BY <1>2, <1>6, Closes DEF rejectCiphertext
<1>7. ASSUME NEW k \in Connectors, closeFromConnector(k) PROVE BridgesBelong'
  BY <1>2, <1>7, Closes DEF closeFromConnector
<1>8. ASSUME NEW c \in Channels, browserEnd(c) PROVE BridgesBelong'
  BY <1>2, <1>8 DEF browserEnd, TypeOK
<1>9. ASSUME NEW k \in Connectors, connectorEnd(k) PROVE BridgesBelong'
  <2>1. CASE StaleEnd(k)
    <3>1. connector \in Connectors /\ Open(connector) /\ connector # k
      BY <2>1, ConnectorIs DEF StaleEnd
    <3>2. bstate' = bstate /\ owner' = owner /\ \A j \in Connectors : j # k => cstate'[j] = cstate[j]
      BY <1>9, <2>1 DEF connectorEnd, TypeOK
    <3>3. \A c \in Channels : bstate[c] = "open" => owner[c] = connector
      BY <3>1, ConnectorIs, RelayAssumption DEF BridgesBelong, TypeOK
    <3> QED
      BY <3>1, <3>2, <3>3 DEF BridgesBelong, Open
  <2>2. CASE ~StaleEnd(k)
    BY <1>9, <2>2, Closes DEF connectorEnd, disconnectBrowsers, Sockets, BridgesBelong
  <2> QED
    BY <2>1, <2>2
<1>10. ASSUME NEW k \in Connectors, rejectConnector(k) PROVE BridgesBelong'
  <2>1. CASE Open(k)
    <3>1. connector = k /\ bstate' = bstate /\ owner' = owner /\ cstate'[k] = "closing"
          /\ \A j \in Connectors : j # k => cstate'[j] = cstate[j] /\ cstate'[j] # "open"
      BY <1>10, <2>1, ConnectorIs DEF rejectConnector, TypeOK, OneOpen, Open
    <3>2. connector' = None
      BY <3>1 DEF connector, Open
    <3>3. \A c \in Channels : bstate[c] = "open" => owner[c] = k
      BY <2>1, <3>1, RelayAssumption DEF BridgesBelong, TypeOK, OneOpen
    <3> QED
      BY <3>1, <3>2, <3>3 DEF BridgesBelong
  <2>2. CASE ~Open(k)
    BY <1>2, <1>10, <2>2 DEF rejectConnector, TypeOK
  <2> QED
    BY <2>1, <2>2
<1>11. CASE UNCHANGED <<cstate, owner, bstate>>
  BY <1>2, <1>11
<1> QED
  BY <1>3, <1>4, <1>5, <1>6, <1>7, <1>8, <1>9, <1>10, <1>11
  DEF Next, webSocketMessage, webSocketClose, Environment, vars, relayVars,
      toBrowser, readRelay, DaemonDrops, DaemonGarbles, DaemonSend, DaemonCloses,
      PageSend, PageGarbles, PageDrops, PageRead

\* The queues of a page hold packets of its own channel.
LEMMA PageQueuesStep ==
  ASSUME TypeOK, PageQueues, [Next]_vars
  PROVE  PageQueues'
<1> DEFINE I(c) == {End} \cup Packets(c)
           O(c) == {Bad, End} \cup Packets(c)
<1>0. /\ PageQueues <=> \A c \in Channels : toPage[c] \in Seq(I(c)) /\ fromPage[c] \in Seq(O(c))
      /\ PageQueues' <=> \A c \in Channels : toPage'[c] \in Seq(I(c)) /\ fromPage'[c] \in Seq(O(c))
  BY DEF PageQueues
<1>1. \A c \in Channels : End \in I(c) /\ End \in O(c) /\ Bad \in O(c)
      /\ \A n \in Nat : Data(c, n) \in I(c) /\ Data(c, n) \in O(c)
  BY DEF Packets, Data
<1> HIDE DEF I, O
<1>2. \A c \in Channels : ToPage(c, End) \in Seq(I(c))
  BY <1>0, <1>1, SeqStep DEF ToPage
<1>3. \A C : CloseBrowsers(C) => \A c \in Channels : toPage'[c] \in Seq(I(c))
  BY <1>0, <1>2, Closes
<1>4. ASSUME NEW c \in Channels, PopPage(c), fromPage[c] # <<>>
      PROVE  \A d \in Channels : fromPage'[d] \in Seq(O(d))
  BY <1>0, <1>1, <1>4, SeqStep DEF PopPage, TypeOK
<1>5. ASSUME NEW c \in Channels, forwardCiphertext(c) PROVE PageQueues'
  BY <1>0, <1>3, <1>4, <1>5 DEF forwardCiphertext, FromPage
<1>6. ASSUME NEW c \in Channels, rejectCiphertext(c) PROVE PageQueues'
  BY <1>0, <1>3, <1>4, <1>6 DEF rejectCiphertext, FromPage
<1>7. ASSUME NEW c \in Channels, browserEnd(c) PROVE PageQueues'
  BY <1>0, <1>4, <1>7 DEF browserEnd, FromPage
<1>8. ASSUME NEW k \in Connectors, toBrowser(k) PROVE PageQueues'
  <2> DEFINE m == Head(fromConn[k])
  <2>1. m.id \in Channels /\ m.n \in Nat /\ m = Data(m.id, m.n)
    BY <1>8, HeadIs, Shapes DEF toBrowser, FromConn
  <2>2. m \in I(m.id)
    BY <1>1, <2>1
  <2>3. ToPage(m.id, m) \in Seq(I(m.id))
    BY <1>0, <2>1, <2>2, SeqStep DEF ToPage
  <2>4. toPage' = toPage \/ toPage' = [toPage EXCEPT ![m.id] = ToPage(m.id, m)]
    BY <1>8 DEF toBrowser
  <2>5. \A c \in Channels : toPage'[c] \in Seq(I(c))
    BY <1>0, <2>1, <2>3, <2>4 DEF TypeOK
  <2> QED
    BY <1>0, <1>8, <2>5 DEF toBrowser
<1>9. ASSUME NEW k \in Connectors, closeFromConnector(k) PROVE PageQueues'
  BY <1>0, <1>3, <1>9 DEF closeFromConnector
<1>10. ASSUME NEW k \in Connectors, connectorEnd(k) PROVE PageQueues'
  BY <1>0, <1>3, <1>10 DEF connectorEnd, disconnectBrowsers
<1>11. ASSUME NEW k \in Connectors, acceptConnector(k) PROVE PageQueues'
  BY <1>0, <1>3, <1>11 DEF acceptConnector, disconnectBrowsers
<1>12. ASSUME NEW c \in Channels, acceptBrowser(c) PROVE PageQueues'
  <2>1. <<End>> \in Seq(I(c))
    BY <1>0, <1>1, SeqStep
  <2>2. toPage' = toPage \/ toPage' = [toPage EXCEPT ![c] = <<End>>]
    BY <1>12 DEF acceptBrowser
  <2> QED
    BY <1>0, <1>12, <2>1, <2>2 DEF acceptBrowser, TypeOK
<1>13. ASSUME NEW c \in Channels, PageSend(c) PROVE PageQueues'
  <2>1. Data(c, sent[c]["page"] + 1) \in O(c)
    BY <1>1 DEF TypeOK
  <2>2. Append(fromPage[c], Data(c, sent[c]["page"] + 1)) \in Seq(O(c))
    BY <1>0, <2>1, SeqStep
  <2> QED
    BY <1>0, <1>13, <2>2 DEF PageSend, TypeOK
<1>14. ASSUME NEW c \in Channels, PageGarbles(c) PROVE PageQueues'
  <2>1. <<Bad>> \in Seq(O(c))
    BY <1>0, <1>1, SeqStep
  <2> QED
    BY <1>0, <1>14, <2>1 DEF PageGarbles, TypeOK
<1>15. ASSUME NEW c \in Channels, PageLeaves(c) PROVE PageQueues'
  <2>1. <<>> \in Seq(I(c)) /\ <<End>> \in Seq(O(c)) /\ Append(fromPage[c], End) \in Seq(O(c))
    BY <1>0, <1>1, SeqStep
  <2> QED
    BY <1>0, <1>15, <2>1 DEF PageLeaves, TypeOK
<1>16. ASSUME NEW c \in Channels, PageRead(c) PROVE PageQueues'
  <2>1. toPage[c] # <<>>
    BY <1>16 DEF PageRead
  <2>2. Tail(toPage[c]) \in Seq(I(c))
    BY <1>0, <1>1, <2>1, SeqStep
  <2> QED
    BY <1>0, <1>15, <1>16, <2>2 DEF PageRead, TypeOK
<1>17. CASE UNCHANGED <<toPage, fromPage>>
  BY <1>0, <1>17
<1> QED
  BY <1>5, <1>6, <1>7, <1>8, <1>9, <1>10, <1>11, <1>12, <1>13, <1>14, <1>15, <1>16, <1>17
  DEF Next, webSocketMessage, webSocketClose, Environment, vars, queues, relayVars,
      rejectConnector, readRelay, DaemonDrops, DaemonGarbles, DaemonSend, DaemonCloses,
      PageDrops

--------------------------------------------------------------------------------
(* Channels *)

\* What sendToConnector does to the daemon's queue: it adds the message while the
\* daemon's own socket is the open one, and changes nothing otherwise.
LEMMA SentEffect ==
  ASSUME TypeOK, Links, OneOpen, NEW m \in Message, SendToConnector(m)
  PROVE  \/ toConn' = toConn /\ (link = None \/ ~Open(link))
         \/ /\ link # None /\ link \in Connectors /\ Open(link) /\ connector = link
            /\ toConn'[link] = Append(toConn[link], m)
<1>1. connector \in Connectors /\ Open(connector) /\ connector # None
  BY ConnectorIs DEF SendToConnector
<1>2. CASE connector = link
  BY <1>1, <1>2, SentToConn DEF SendToConnector
<1>3. CASE connector # link
  <2>1. toConn' = toConn
    BY <1>1, <1>3, SentToConn DEF SendToConnector
  <2> QED
    BY <1>1, <1>3, <2>1 DEF Links
<1> QED
  BY <1>2, <1>3

\* The packet a page's handler takes is one of its channel.
LEMMA PageHead ==
  ASSUME TypeOK, PageQueues, NEW c \in Channels, fromPage[c] # <<>>
  PROVE  /\ Head(fromPage[c]) \in Message /\ Tail(fromPage[c]) \in Seq(Message)
         /\ Head(fromPage[c]).type = "data" => IsData(Head(fromPage[c]), c)
<1>1. fromPage[c] \in Seq({Bad, End} \cup Packets(c)) /\ Bad \in {Bad, End} \cup Packets(c)
  BY DEF PageQueues
<1>2. Head(fromPage[c]) \in {Bad, End} \cup Packets(c)
  BY <1>1, SeqStep
<1> QED
  BY <1>2, HeadIs DEF Packets, IsData, Bad, End

\* A channel nobody asked for leaves no trace.
LEMMA FreshStep ==
  ASSUME TypeOK, Links, OneOpen, PageQueues, Fresh, [Next]_vars
  PROVE  Fresh'
<1> DEFINE Same(d) == /\ UNCHANGED <<page[d], daemon[d], owner[d], fromPage[d], toPage[d]>>
                      /\ UNCHANGED <<sent[d]["page"], got[d]["page"]>>
           Quiet(d) == link' # None => NoneAbout(toConn'[link'], d)
<1>0. SUFFICES ASSUME NEW d \in Channels, bstate'[d] = "none"
               PROVE  bstate[d] = "none" /\ Same(d) /\ Quiet(d)
  BY <1>0 DEF Fresh
<1>1. ASSUME bstate[d] = "none"
      PROVE  /\ page[d] = "idle" /\ daemon[d] = "idle" /\ owner[d] = None
             /\ fromPage[d] = <<>> /\ toPage[d] = <<>>
             /\ link # None => NoneAbout(toConn[link], d) /\ toConn[link] \in Seq(Message)
  BY <1>1 DEF Fresh, TypeOK
<1>2. \A C : CloseBrowsers(C) => bstate[d] = "none" /\ toPage'[d] = toPage[d]
  BY <1>0, Closes
<1>3. ASSUME NEW m \in Message, bstate[d] = "none", SendToConnector(m), ~About(m, d), link' = link
      PROVE  Quiet(d)
  <2>1. link # None => NoneAbout(Append(toConn[link], m), d)
    BY <1>1, <1>3, NoneAboutStep
  <2>2. toConn' = toConn \/ (link # None /\ toConn'[link] = Append(toConn[link], m))
    BY <1>3, SentEffect
  <2> QED
    BY <1>1, <1>3, <2>1, <2>2
<1>4. ASSUME NEW k \in Connectors, acceptConnector(k)
      PROVE  bstate[d] = "none" /\ Same(d) /\ Quiet(d)
  <2>1. link = None /\ link' = k
    BY <1>4 DEF acceptConnector
  <2>2. toConn'[k] = <<>>
    BY <1>4, <2>1, RelayAssumption DEF acceptConnector, ToConn, Links, TypeOK
  <2>3. Quiet(d)
    BY <2>1, <2>2 DEF NoneAbout
  <2> QED
    BY <1>2, <1>4, <2>3 DEF acceptConnector, disconnectBrowsers
<1>5. ASSUME NEW c \in Channels, acceptBrowser(c)
      PROVE  bstate[d] = "none" /\ Same(d) /\ Quiet(d)
  <2>1. c # d
    BY <1>0, <1>5 DEF acceptBrowser, TypeOK
  <2>2. bstate[d] = "none" /\ Same(d)
    BY <1>0, <1>5, <2>1 DEF acceptBrowser, TypeOK
  <2>3. ChannelOpen(c) \in Message /\ ~About(ChannelOpen(c), d)
    BY <2>1 DEF Message, ChannelOpen, About
  <2>4. SendToConnector(ChannelOpen(c)) \/ toConn' = toConn
    BY <1>5 DEF acceptBrowser, BrowserAllowed, SendToConnector
  <2>5. link' = link
    BY <1>5 DEF acceptBrowser
  <2> QED
    BY <1>1, <1>3, <2>2, <2>3, <2>4, <2>5
<1>6. ASSUME NEW c \in Channels, forwardCiphertext(c)
      PROVE  bstate[d] = "none" /\ Same(d) /\ Quiet(d)
  <2>1. bstate[d] = "none"
    BY <1>0, <1>2, <1>6 DEF forwardCiphertext
  <2>2. c # d
    BY <1>1, <1>6, <2>1 DEF forwardCiphertext, FromPage
  <2>3. Head(fromPage[c]) \in Message /\ ~About(Head(fromPage[c]), d)
    BY <1>6, <2>2, PageHead DEF forwardCiphertext, FromPage, About, IsData
  <2>4. Same(d)
    BY <1>2, <1>6, <2>2 DEF forwardCiphertext, PopPage, TypeOK
  <2> QED
    BY <1>1, <1>3, <1>6, <2>1, <2>3, <2>4 DEF forwardCiphertext
<1>7. ASSUME NEW c \in Channels, rejectCiphertext(c)
      PROVE  bstate[d] = "none" /\ Same(d) /\ Quiet(d)
  <2>1. bstate[d] = "none"
    BY <1>2, <1>7 DEF rejectCiphertext
  <2>2. c # d
    BY <1>1, <1>7, <2>1 DEF rejectCiphertext, FromPage
  <2> QED
    BY <1>1, <1>2, <1>7, <2>1, <2>2 DEF rejectCiphertext, PopPage, TypeOK
<1>8. ASSUME NEW c \in Channels, browserEnd(c)
      PROVE  bstate[d] = "none" /\ Same(d) /\ Quiet(d)
  <2>1. c # d /\ bstate[d] = "none"
    BY <1>0, <1>8 DEF browserEnd, TypeOK
  <2>2. ChannelClose(c) \in Message /\ ~About(ChannelClose(c), d)
    BY <2>1 DEF Message, ChannelClose, About
  <2>3. Same(d)
    BY <1>8, <2>1 DEF browserEnd, PopPage, TypeOK
  <2> QED
    BY <1>1, <1>3, <1>8, <2>1, <2>2, <2>3 DEF browserEnd
<1>9. ASSUME NEW k \in Connectors, connectorEnd(k)
      PROVE  bstate[d] = "none" /\ Same(d) /\ Quiet(d)
  BY <1>0, <1>1, <1>2, <1>9 DEF connectorEnd, disconnectBrowsers
<1>10. ASSUME NEW k \in Connectors, toBrowser(k)
      PROVE  bstate[d] = "none" /\ Same(d) /\ Quiet(d)
  BY <1>0, <1>1, <1>10 DEF toBrowser, relayVars, TypeOK
<1>11. ASSUME NEW k \in Connectors, closeFromConnector(k)
      PROVE  bstate[d] = "none" /\ Same(d) /\ Quiet(d)
  BY <1>0, <1>1, <1>2, <1>11 DEF closeFromConnector
<1>12. ASSUME NEW k \in Connectors, rejectConnector(k)
      PROVE  bstate[d] = "none" /\ Same(d) /\ Quiet(d)
  <2>1. bstate[d] = "none" /\ Same(d) /\ link' = link
    BY <1>0, <1>12 DEF rejectConnector
  <2>2. End \in Message /\ ~About(End, d)
    BY DEF Message, End, About
  <2>3. toConn' = toConn \/ toConn' = [toConn EXCEPT ![k] = ToConn(k, End)]
    BY <1>12 DEF rejectConnector, TypeOK
  <2>4. toConn' = toConn \/ (link # None => toConn'[link] \in {toConn[link], Append(toConn[link], End)})
    BY <2>2, <2>3, SentToConn
  <2>5. link # None => NoneAbout(toConn[link], d) /\ NoneAbout(Append(toConn[link], End), d)
    BY <1>1, <2>1, <2>2, NoneAboutStep
  <2> QED
    BY <2>1, <2>4, <2>5
<1>13. CASE readRelay
  <2> DEFINE m == Head(toConn[link])
  <2>1. bstate[d] = "none" /\ link # None /\ link \in Connectors /\ toConn[link] # <<>> /\ m \in Message
    BY <1>0, <1>13, HeadIs DEF readRelay, relayVars, TypeOK
  <2>2. NoneAbout(Tail(toConn[link]), d) /\ ~About(m, d)
    BY <1>1, <2>1, NoneAboutStep
  <2>3. toConn'[link] = Tail(toConn[link]) \/ toConn'[link] = <<>>
    BY <1>13, <2>1 DEF readRelay, TypeOK
  <2>4. link' = link \/ link' = None
    BY <1>13 DEF readRelay, LinkLost
  <2>5. Quiet(d)
    <3>1. NoneAbout(<<>>, d)
      BY DEF NoneAbout
    <3> QED
      BY <2>2, <2>3, <2>4, <3>1
  <2>6. daemon'[d] = daemon[d]
    <3>1. CASE m.type = "channel_open"
      BY <1>13, <2>1, <2>2, <3>1 DEF readRelay, About, TypeOK
    <3>2. CASE m.type = "channel_close"
      BY <1>13, <2>1, <2>2, <3>2 DEF readRelay, closeChannel, About, TypeOK
    <3>3. CASE m.type = "end"
      BY <1>1, <1>13, <2>1, <3>3 DEF readRelay, LinkLost, Mine, TypeOK
    <3> QED
      BY <1>13, <3>1, <3>2, <3>3 DEF readRelay
  <2>7. got'[d]["page"] = got[d]["page"]
    BY <1>13, <2>2 DEF readRelay, About, TypeOK
  <2> QED
    BY <1>13, <2>1, <2>5, <2>6, <2>7 DEF readRelay, relayVars
<1>14. CASE DaemonDrops
  <2>1. bstate[d] = "none" /\ link' = None /\ daemon'[d] = daemon[d]
    BY <1>0, <1>1, <1>14 DEF DaemonDrops, relayVars, LinkLost, Mine, TypeOK
  <2> QED
    BY <1>14, <2>1 DEF DaemonDrops, relayVars
<1>15. CASE DaemonGarbles
  BY <1>0, <1>1, <1>15 DEF DaemonGarbles, relayVars
<1>16. ASSUME NEW c \in Channels, DaemonSend(c)
      PROVE  bstate[d] = "none" /\ Same(d) /\ Quiet(d)
  BY <1>0, <1>1, <1>16 DEF DaemonSend, relayVars, TypeOK
<1>17. ASSUME NEW c \in Channels, DaemonCloses(c)
      PROVE  bstate[d] = "none" /\ Same(d) /\ Quiet(d)
  BY <1>0, <1>1, <1>17 DEF DaemonCloses, relayVars, Mine, TypeOK
<1>18. ASSUME NEW c \in Channels, PageSend(c)
      PROVE  bstate[d] = "none" /\ Same(d) /\ Quiet(d)
  <2>1. bstate[d] = "none" /\ c # d
    BY <1>0, <1>1, <1>18 DEF PageSend, relayVars
  <2> QED
    BY <1>1, <1>18, <2>1 DEF PageSend, relayVars, TypeOK
<1>19. ASSUME NEW c \in Channels, PageGarbles(c)
      PROVE  bstate[d] = "none" /\ Same(d) /\ Quiet(d)
  BY <1>0, <1>1, <1>19 DEF PageGarbles, relayVars, TypeOK
<1>20. ASSUME NEW c \in Channels, PageDrops(c)
      PROVE  bstate[d] = "none" /\ Same(d) /\ Quiet(d)
  BY <1>0, <1>1, <1>20 DEF PageDrops, PageLeaves, relayVars, TypeOK
<1>21. ASSUME NEW c \in Channels, PageRead(c)
      PROVE  bstate[d] = "none" /\ Same(d) /\ Quiet(d)
  <2>1. bstate[d] = "none" /\ c # d
    BY <1>0, <1>1, <1>21 DEF PageRead, relayVars
  <2> QED
    BY <1>1, <1>21, <2>1 DEF PageRead, PageLeaves, relayVars, TypeOK
<1>22. CASE UNCHANGED vars
  BY <1>0, <1>1, <1>22 DEF vars, relayVars, queues
<1> QED
  BY <1>4, <1>5, <1>6, <1>7, <1>8, <1>9, <1>10, <1>11, <1>12, <1>13, <1>14, <1>15, <1>16,
     <1>17, <1>18, <1>19, <1>20, <1>21, <1>22
  DEF Next, webSocketMessage, webSocketClose, Environment

\* What readRelay does, by the message m at the head of the daemon's queue.
ReadsEnd(m) == m = End /\ LinkLost(link) /\ got' = got /\ toConn'[link] = <<>>
Pops(m) == m # End /\ link' = link /\ toConn'[link] = Tail(toConn[link])
ReadsOpen(m) ==
  /\ Pops(m) /\ m.id \in Channels /\ m = ChannelOpen(m.id)
  /\ daemon' = [daemon EXCEPT ![m.id] = "open"]
  /\ UNCHANGED <<fromConn, got>>
ReadsPacket(m) ==
  /\ Pops(m) /\ m.id \in Channels /\ m.n \in Nat /\ m = Data(m.id, m.n)
  /\ daemon[m.id] = "open"
  /\ got' = [got EXCEPT ![m.id]["daemon"] = Append(@, m.n)]
  /\ UNCHANGED <<fromConn, daemon>>
ReadsStray(m) ==
  /\ Pops(m) /\ m.id \in Channels /\ m.n \in Nat /\ m = Data(m.id, m.n)
  /\ daemon[m.id] # "open"
  /\ fromConn' = [fromConn EXCEPT ![link] = Append(@, ChannelClose(m.id))]
  /\ UNCHANGED <<daemon, got>>
ReadsClose(m) ==
  /\ Pops(m) /\ m.id \in Channels /\ m = ChannelClose(m.id)
  /\ closeChannel(m)
  /\ UNCHANGED <<fromConn, got>>

LEMMA ReadEffect ==
  ASSUME TypeOK, readRelay, NEW m, m = Head(toConn[link])
  PROVE  /\ link \in Connectors /\ link # None /\ toConn[link] # <<>> /\ m \in Message
         /\ ReadsEnd(m) \/ ReadsOpen(m) \/ ReadsPacket(m) \/ ReadsStray(m) \/ ReadsClose(m)
<1>1. link \in Connectors /\ link # None /\ toConn[link] # <<>> /\ m \in Message
  BY HeadIs DEF readRelay, TypeOK
<1>2. m.type = "end" <=> m = End
  BY <1>1, Shapes DEF End
<1>3. m # End => toConn'[link] = Tail(toConn[link])
  BY <1>1 DEF readRelay, TypeOK
<1>4. m = End => toConn'[link] = <<>>
  BY <1>1 DEF readRelay, TypeOK
<1>5. CASE m.type = "channel_open"
  BY <1>1, <1>2, <1>3, <1>5, Shapes DEF readRelay, ReadsOpen, Pops
<1>6. CASE m.type = "data"
  BY <1>1, <1>2, <1>3, <1>6, Shapes DEF readRelay, ReadsPacket, ReadsStray, Pops
<1>7. CASE m.type = "channel_close"
  BY <1>1, <1>2, <1>3, <1>7, Shapes DEF readRelay, ReadsClose, Pops
<1>8. CASE m.type = "end"
  BY <1>1, <1>2, <1>4, <1>8 DEF readRelay, ReadsEnd
<1> QED
  BY <1>5, <1>6, <1>7, <1>8 DEF readRelay

\* Channels are announced once, to their owner, and first.
LEMMA AnnouncedStep ==
  ASSUME TypeOK, Links, OneOpen, PageQueues, Fresh, Announced, [Next]_vars
  PROVE  Announced'
<1> DEFINE Ends(d) ==
             /\ daemon[d] = "open" => link # None
             /\ daemon[d] = "idle" => sent[d]["daemon"] = 0 /\ got[d]["daemon"] = <<>>
           Told(d) ==
             /\ Live(d) => owner[d] = link
             /\ link # None => OpenFirst(toConn[link], d)
             /\ link # None /\ In(ChannelOpen(d), toConn[link]) => daemon[d] = "idle"
           Owned(d) == \A k \in Connectors : k # owner[d] => NoData(fromConn[k], d)
<1>0. SUFFICES ASSUME NEW d \in Channels
               PROVE  Ends(d)' /\ Told(d)' /\ Owned(d)'
  BY DEF Announced
<1>a. Ends(d) /\ Told(d) /\ Owned(d)
  BY DEF Announced
<1>b. /\ \A k \in Connectors : fromConn[k] \in Seq(Message) /\ toConn[k] \in Seq(Message)
      /\ link # None => link \in Connectors
      /\ End \in Message /\ ~IsData(End, d) /\ End # ChannelOpen(d)
      /\ Bad \in Message /\ ~IsData(Bad, d)
      /\ \A c \in Channels : /\ ChannelClose(c) \in Message /\ ~IsData(ChannelClose(c), d)
                             /\ ChannelClose(c) # ChannelOpen(d)
                             /\ ChannelOpen(c) \in Message
      /\ None \notin Connectors
  BY RelayAssumption DEF TypeOK, Message, End, Bad, ChannelClose, ChannelOpen, IsData
<1>1. UNCHANGED <<link, daemon[d], sent[d]["daemon"], got[d]["daemon"]>> => Ends(d)'
  BY <1>a
<1>2. UNCHANGED <<link, daemon[d], owner[d], toConn>> => Told(d)'
  BY <1>a DEF Live
<1>3. UNCHANGED <<owner[d], fromConn>> => Owned(d)'
  BY <1>a
<1>4. ASSUME NEW k \in Connectors, PopConn(k), fromConn[k] # <<>>, UNCHANGED owner
      PROVE  Owned(d)'
  <2>1. NoData(fromConn[k], d) => NoData(Tail(fromConn[k]), d)
    BY <1>4, <1>b, NoDataStep
  <2> QED
    BY <1>a, <1>4, <2>1 DEF PopConn, TypeOK
<1>5. ASSUME NEW x \in Message, x # ChannelOpen(d), UNCHANGED <<link, daemon[d], owner[d]>>,
             toConn' = toConn \/ (link # None /\ toConn'[link] = Append(toConn[link], x))
      PROVE  Told(d)'
  <2>1. CASE toConn' = toConn
    BY <1>2, <1>5, <2>1
  <2>2. CASE link # None /\ toConn'[link] = Append(toConn[link], x)
    <3>1. In(ChannelOpen(d), toConn'[link]) => In(ChannelOpen(d), toConn[link])
      BY <1>5, <1>b, <2>2, InAppend
    <3>2. OpenFirst(Append(toConn[link], x), d)
      BY <1>5, <1>a, <1>b, <2>2, OpenFirstAppend
    <3> QED
      BY <1>a, <1>5, <2>2, <3>1, <3>2 DEF Live
  <2> QED
    BY <1>5, <2>1, <2>2
<1>6. ASSUME NEW x \in Message, link # None, fromConn' = [fromConn EXCEPT ![link] = Append(@, x)],
             UNCHANGED owner, ~IsData(x, d) \/ owner[d] = link
      PROVE  Owned(d)'
  <2>1. NoData(fromConn[link], d) /\ ~IsData(x, d) => NoData(Append(fromConn[link], x), d)
    BY <1>6, <1>b, NoDataStep
  <2> QED
    BY <1>a, <1>b, <1>6, <2>1 DEF TypeOK
<1>7. ASSUME link # None, LinkLost(link), UNCHANGED <<owner, sent, got>>
      PROVE  Ends(d)' /\ Told(d)' /\ Owned(d)'
  <2>1. link' = None /\ daemon'[d] # "open" /\ (daemon'[d] = "idle" => daemon[d] = "idle")
    BY <1>7 DEF LinkLost, Mine, TypeOK
  <2>2. Ends(d)' /\ Told(d)'
    BY <1>a, <1>7, <2>1 DEF Live
  <2>3. CASE fromConn' = [fromConn EXCEPT ![link] = Append(@, End)]
    BY <1>6, <1>7, <1>b, <2>2, <2>3
  <2>4. CASE fromConn' = [fromConn EXCEPT ![link] = <<End>>]
    <3>1. NoData(<<End>>, d)
      BY <1>b, <1>7, NoDataStep
    <3> QED
      BY <1>a, <1>b, <1>7, <2>2, <2>4, <3>1 DEF TypeOK
  <2> QED
    BY <1>7, <2>3, <2>4 DEF LinkLost
<1>11. ASSUME NEW k \in Connectors, acceptConnector(k) PROVE Ends(d)' /\ Told(d)' /\ Owned(d)'
  <2>1. link = None /\ link' = k
    BY <1>11 DEF acceptConnector
  <2>2. toConn'[k] = <<>> /\ daemon[d] # "open" /\ k # None
    BY <1>11, <1>a, <1>b, <2>1 DEF acceptConnector, ToConn, Links, TypeOK
  <2>3. ~In(ChannelOpen(d), <<>>) /\ OpenFirst(<<>>, d)
    BY DEF In, OpenFirst
  <2>4. UNCHANGED <<owner, daemon, sent, got, fromConn>>
    BY <1>11 DEF acceptConnector
  <2> QED
    BY <1>a, <1>3, <2>1, <2>2, <2>3, <2>4 DEF Live
<1>12. ASSUME NEW c \in Channels, acceptBrowser(c) PROVE Ends(d)' /\ Told(d)' /\ Owned(d)'
  <2>1. UNCHANGED <<link, daemon, sent, got, fromConn>> /\ owner'[c] = connector /\ bstate[c] = "none"
        /\ (c # d => owner'[d] = owner[d])
    BY <1>12 DEF acceptBrowser, TypeOK
  <2>2. Ends(d)'
    BY <1>1, <2>1
  <2>3. SendToConnector(ChannelOpen(c)) \/ toConn' = toConn
    BY <1>12 DEF acceptBrowser, BrowserAllowed, SendToConnector
  <2>4. \/ toConn' = toConn
        \/ link # None /\ connector = link /\ toConn'[link] = Append(toConn[link], ChannelOpen(c))
    BY <1>b, <2>3, SentEffect
  <2>5. CASE c # d
    <3>1. ChannelOpen(c) # ChannelOpen(d)
      BY <2>5 DEF ChannelOpen
    <3> QED
      BY <1>b, <1>3, <1>5, <2>1, <2>2, <2>4, <2>5, <3>1
  <2>6. CASE c = d
    <3>1. daemon[d] = "idle" /\ owner[d] = None /\ (link # None => NoneAbout(toConn[link], d))
      BY <2>1, <2>6 DEF Fresh
    <3>2. Owned(d)'
      BY <1>a, <1>b, <2>1, <3>1
    <3>3. link # None => ~In(ChannelOpen(d), toConn[link])
      BY <1>b, <3>1, NoneAboutStep
    <3>4. link # None => OpenFirst(Append(toConn[link], ChannelOpen(d)), d)
      BY <1>a, <1>b, <3>1, OpenFirstAppend
    <3> QED
      BY <1>a, <2>1, <2>2, <2>4, <2>6, <3>1, <3>2, <3>3, <3>4 DEF Live
  <2> QED
    BY <2>5, <2>6
<1>13. ASSUME NEW c \in Channels, forwardCiphertext(c) PROVE Ends(d)' /\ Told(d)' /\ Owned(d)'
  <2>1. Head(fromPage[c]) \in Message /\ Head(fromPage[c]) # ChannelOpen(d)
    BY <1>13, PageHead DEF forwardCiphertext, FromPage, ChannelOpen
  <2>2. UNCHANGED <<link, daemon, sent, got, fromConn, owner>>
    BY <1>13 DEF forwardCiphertext
  <2>3. toConn' = toConn \/ (link # None /\ toConn'[link] = Append(toConn[link], Head(fromPage[c])))
    BY <1>13, <2>1, SentEffect DEF forwardCiphertext
  <2> QED
    BY <1>1, <1>3, <1>5, <2>1, <2>2, <2>3
<1>14. ASSUME NEW c \in Channels, browserEnd(c) PROVE Ends(d)' /\ Told(d)' /\ Owned(d)'
  <2>1. UNCHANGED <<link, daemon, sent, got, fromConn, owner>>
    BY <1>14 DEF browserEnd
  <2>2. toConn' = toConn \/ (link # None /\ toConn'[link] = Append(toConn[link], ChannelClose(c)))
    BY <1>14, <1>b, SentEffect DEF browserEnd
  <2> QED
    BY <1>1, <1>3, <1>5, <1>b, <2>1, <2>2
<1>15. ASSUME NEW k \in Connectors, rejectConnector(k) PROVE Ends(d)' /\ Told(d)' /\ Owned(d)'
  <2>1. UNCHANGED <<link, daemon, sent, got, owner>>
    BY <1>15 DEF rejectConnector
  <2>2. toConn' = toConn \/ toConn' = [toConn EXCEPT ![k] = ToConn(k, End)]
    BY <1>15 DEF rejectConnector, TypeOK
  <2>3. toConn' = toConn \/ (link # None /\ toConn'[link] = Append(toConn[link], End))
    BY <1>b, <2>2, SentToConn
  <2> QED
    BY <1>1, <1>4, <1>5, <1>15, <1>b, <2>1, <2>3 DEF rejectConnector, FromConn
<1>16. ASSUME NEW k \in Connectors, toBrowser(k) \/ closeFromConnector(k) \/ connectorEnd(k)
       PROVE  Ends(d)' /\ Told(d)' /\ Owned(d)'
  <2>1. UNCHANGED <<link, daemon, sent, got, owner, toConn>> /\ PopConn(k) /\ fromConn[k] # <<>>
    BY <1>16 DEF toBrowser, closeFromConnector, connectorEnd, FromConn, relayVars
  <2> QED
    BY <1>1, <1>2, <1>4, <2>1
<1>17. CASE readRelay
  <2> DEFINE m == Head(toConn[link])
             Q == toConn[link]
  <2>1. UNCHANGED <<owner, sent>>
    BY <1>17 DEF readRelay, relayVars
  <2>2. link \in Connectors /\ link # None /\ Q # <<>> /\ m \in Message
    BY <1>17, ReadEffect
  <2>3. /\ OpenFirst(Tail(Q), d)
        /\ About(m, d) => ~In(ChannelOpen(d), Tail(Q))
        /\ In(ChannelOpen(d), Q) <=> In(ChannelOpen(d), Tail(Q)) \/ ChannelOpen(d) = m
    BY <1>a, <1>b, <2>2, OpenFirstTail, InTail
  <2>4. CASE ReadsEnd(m)
    BY <1>7, <2>1, <2>2, <2>4 DEF ReadsEnd
  <2>5. CASE ReadsOpen(m)
    <3> USE DEF ReadsOpen, Pops
    <3>1. CASE m.id = d
      <4>1. About(m, d) /\ daemon'[d] = "open"
        BY <2>5, <3>1 DEF About, ChannelOpen, TypeOK
      <4> QED
        BY <1>a, <1>3, <2>1, <2>2, <2>3, <2>5, <3>1, <4>1 DEF Live
    <3>2. CASE m.id # d
      <4>1. m # ChannelOpen(d) /\ daemon'[d] = daemon[d]
        BY <2>5, <3>2 DEF ChannelOpen, TypeOK
      <4> QED
        BY <1>a, <1>1, <1>3, <2>1, <2>2, <2>3, <2>5, <4>1 DEF Live
    <3> QED
      BY <3>1, <3>2
  <2>6. CASE ReadsPacket(m)
    <3> USE DEF ReadsPacket, Pops
    <3>1. Ends(d)'
      <4>1. m.id # d => got'[d] = got[d]
        BY <2>6 DEF TypeOK
      <4> QED
        BY <1>a, <2>1, <2>6, <4>1
    <3> QED
      BY <1>a, <1>3, <2>1, <2>2, <2>3, <2>6, <3>1 DEF Live
  <2>7. CASE ReadsStray(m)
    <3> USE DEF ReadsStray, Pops
    <3>1. Owned(d)'
      BY <1>6, <1>b, <2>1, <2>2, <2>7
    <3> QED
      BY <1>a, <1>1, <2>1, <2>2, <2>3, <2>7, <3>1 DEF Live
  <2>8. CASE ReadsClose(m)
    <3> USE DEF ReadsClose, Pops
    <3>1. daemon'[d] = daemon[d] \/ (daemon[d] = "open" /\ daemon'[d] = "closed")
      BY <2>8 DEF closeChannel, TypeOK
    <3> QED
      BY <1>a, <1>3, <2>1, <2>2, <2>3, <2>8, <3>1 DEF Live
  <2> QED
    BY <1>17, <2>4, <2>5, <2>6, <2>7, <2>8, ReadEffect
<1>18. CASE DaemonDrops
  BY <1>7, <1>18 DEF DaemonDrops, relayVars
<1>19. CASE DaemonGarbles
  BY <1>1, <1>2, <1>6, <1>19, <1>b DEF DaemonGarbles, relayVars
<1>20. ASSUME NEW c \in Channels, DaemonSend(c) PROVE Ends(d)' /\ Told(d)' /\ Owned(d)'
  <2> DEFINE x == Data(c, sent[c]["daemon"] + 1)
  <2>1. x \in Message /\ (IsData(x, d) => c = d)
    BY Made DEF TypeOK, Data, IsData
  <2>2. daemon[c] = "open" /\ link # None
    BY <1>20 DEF DaemonSend, Mine
  <2>3. ~IsData(x, d) \/ owner[d] = link
    BY <1>a, <2>1, <2>2 DEF Live
  <2>4. Owned(d)'
    BY <1>6, <1>20, <2>1, <2>3 DEF DaemonSend, relayVars
  <2>5. c # d => sent'[d] = sent[d]
    BY <1>20 DEF DaemonSend, TypeOK
  <2> QED
    BY <1>a, <1>2, <1>20, <2>2, <2>4, <2>5 DEF DaemonSend, relayVars
<1>21. ASSUME NEW c \in Channels, DaemonCloses(c) PROVE Ends(d)' /\ Told(d)' /\ Owned(d)'
  <2>1. daemon'[d] = daemon[d] \/ (daemon[d] = "open" /\ daemon'[d] = "closed")
    BY <1>21 DEF DaemonCloses, Mine, TypeOK
  <2>2. UNCHANGED <<link, toConn, owner, sent, got>> /\ link # None
    BY <1>21 DEF DaemonCloses, relayVars
  <2>3. Owned(d)'
    BY <1>6, <1>21, <1>b DEF DaemonCloses, relayVars
  <2> QED
    BY <1>a, <2>1, <2>2, <2>3 DEF Live
<1>22. ASSUME NEW c \in Channels, PageSend(c) PROVE Ends(d)' /\ Told(d)' /\ Owned(d)'
  <2>1. sent'[d]["daemon"] = sent[d]["daemon"]
    BY <1>22 DEF PageSend, TypeOK
  <2> QED
    BY <1>1, <1>2, <1>3, <1>22, <2>1 DEF PageSend, relayVars
<1>23. ASSUME NEW c \in Channels, PageRead(c) PROVE Ends(d)' /\ Told(d)' /\ Owned(d)'
  <2>1. got' = got \/ got' = [got EXCEPT ![c]["page"] = Append(@, Head(toPage[c]).n)]
    BY <1>23 DEF PageRead
  <2>2. got'[d]["daemon"] = got[d]["daemon"]
    <3>1. ASSUME NEW v, got' = [got EXCEPT ![c]["page"] = v] PROVE got'[d]["daemon"] = got[d]["daemon"]
      BY <3>1 DEF TypeOK
    <3> QED
      BY <2>1, <3>1
  <2> QED
    BY <1>1, <1>2, <1>3, <1>23, <2>2 DEF PageRead, relayVars
<1>24. CASE UNCHANGED <<owner, link, daemon, sent, got, toConn, fromConn>>
  BY <1>1, <1>2, <1>3, <1>24
<1> QED
  BY <1>11, <1>12, <1>13, <1>14, <1>15, <1>16, <1>17, <1>18, <1>19, <1>20, <1>21, <1>22,
     <1>23, <1>24
  DEF Next, webSocketMessage, webSocketClose, Environment, vars, relayVars, queues,
      rejectCiphertext, PageGarbles, PageDrops

\* A channel the daemon has, or will have, is there or about to be freed.
LEMMA FreedStep ==
  ASSUME TypeOK, Links, OneOpen, PageQueues, Announced, Freed, [Next]_vars
  PROVE  Freed'
<1> DEFINE There(d) == bstate[d] \in {"open", "closing"}
           Leaving(d) == In(ChannelClose(d), toConn[link]) \/ In(End, toConn[link])
           Kept(d) == Live(d) => There(d) \/ Leaving(d)
<1>0. SUFFICES ASSUME NEW d \in Channels PROVE Kept(d)'
  BY DEF Freed
<1>a. /\ Kept(d)
      /\ daemon[d] = "open" => link # None
      /\ link # None => OpenFirst(toConn[link], d) /\ link \in Connectors
      /\ link # None => toConn[link] \in Seq(Message)
  BY DEF Freed, Announced, TypeOK
<1>b. /\ End \in Message /\ End # ChannelOpen(d)
      /\ \A c \in Channels : /\ ChannelClose(c) \in Message /\ ChannelClose(c) # ChannelOpen(d)
                             /\ ChannelOpen(c) \in Message
  BY DEF Message, End, ChannelClose, ChannelOpen
<1>1. ASSUME UNCHANGED <<link, toConn>>, There(d) => There(d)',
             daemon'[d] = "open" => daemon[d] = "open"
      PROVE  Kept(d)'
  BY <1>a, <1>1 DEF Live
<1>2. ASSUME NEW x \in Message, x # ChannelOpen(d), UNCHANGED <<link, daemon>>,
             There(d) => There(d)',
             toConn' = toConn \/ (link # None /\ toConn'[link] = Append(toConn[link], x))
      PROVE  Kept(d)'
  <2>1. CASE link # None /\ toConn'[link] = Append(toConn[link], x)
    <3>1. /\ In(ChannelOpen(d), toConn'[link]) => In(ChannelOpen(d), toConn[link])
          /\ In(ChannelClose(d), toConn[link]) => In(ChannelClose(d), toConn'[link])
          /\ In(End, toConn[link]) => In(End, toConn'[link])
      BY <1>a, <1>2, <2>1, InAppend
    <3> QED
      BY <1>a, <1>2, <2>1, <3>1 DEF Live
  <2> QED
    BY <1>1, <1>2, <2>1
<1>3. \A C : CloseBrowsers(C) => (There(d) <=> There(d)')
  BY Closes
<1>4. link' = None => Kept(d)'
  BY DEF Live
<1>5. ASSUME NEW k \in Connectors, acceptConnector(k) PROVE Kept(d)'
  <2>1. link = None /\ link' = k /\ daemon' = daemon
    BY <1>5 DEF acceptConnector
  <2>2. toConn'[k] = <<>> /\ daemon[d] # "open"
    BY <1>5, <1>a, <2>1, RelayAssumption DEF acceptConnector, ToConn, Links, TypeOK
  <2>3. ~In(ChannelOpen(d), <<>>)
    BY DEF In
  <2> QED
    BY <2>1, <2>2, <2>3 DEF Live
<1>6. ASSUME NEW c \in Channels, acceptBrowser(c) PROVE Kept(d)'
  <2>1. CASE c = d
    BY <1>6, <2>1 DEF acceptBrowser, TypeOK
  <2>2. CASE c # d
    <3>1. UNCHANGED <<link, daemon>> /\ bstate'[d] = bstate[d] /\ ChannelOpen(c) # ChannelOpen(d)
      BY <1>6, <2>2 DEF acceptBrowser, ChannelOpen, TypeOK
    <3>2. SendToConnector(ChannelOpen(c)) \/ toConn' = toConn
      BY <1>6 DEF acceptBrowser, BrowserAllowed, SendToConnector
    <3>3. toConn' = toConn \/ (link # None /\ toConn'[link] = Append(toConn[link], ChannelOpen(c)))
      BY <1>b, <3>2, SentEffect
    <3> QED
      BY <1>2, <1>b, <3>1, <3>3
  <2> QED
    BY <2>1, <2>2
<1>7. ASSUME NEW c \in Channels, forwardCiphertext(c) PROVE Kept(d)'
  <2>1. Head(fromPage[c]) \in Message /\ Head(fromPage[c]) # ChannelOpen(d)
    BY <1>7, PageHead DEF forwardCiphertext, FromPage, ChannelOpen
  <2>2. UNCHANGED <<link, daemon>> /\ (There(d) => There(d)')
    BY <1>3, <1>7 DEF forwardCiphertext
  <2>3. toConn' = toConn \/ (link # None /\ toConn'[link] = Append(toConn[link], Head(fromPage[c])))
    BY <1>7, <2>1, SentEffect DEF forwardCiphertext
  <2> QED
    BY <1>2, <2>1, <2>2, <2>3
<1>8. ASSUME NEW c \in Channels, browserEnd(c) PROVE Kept(d)'
  <2>1. UNCHANGED <<link, daemon>> /\ (c # d => bstate'[d] = bstate[d])
    BY <1>8 DEF browserEnd, TypeOK
  <2>2. \/ toConn' = toConn /\ (link = None \/ ~Open(link))
        \/ link # None /\ toConn'[link] = Append(toConn[link], ChannelClose(c))
    <3>1. CASE SendToConnector(ChannelClose(c))
      BY <1>b, <3>1, SentEffect
    <3>2. CASE SendFails /\ toConn' = toConn
      <4>1. link # None => ~Open(link)
        BY <1>a, <3>2, ConnectorIs DEF SendFails, MayThrow
      <4> QED
        BY <3>2, <4>1
    <3> QED
      BY <1>8, <3>1, <3>2 DEF browserEnd
  <2>3. CASE c # d
    BY <1>2, <1>b, <2>1, <2>2, <2>3
  <2>4. CASE c = d
    <3>1. CASE link # None /\ toConn'[link] = Append(toConn[link], ChannelClose(c))
      <4>1. In(ChannelClose(d), toConn'[link])
        BY <1>a, <1>b, <2>4, <3>1, InAppend
      <4> QED
        BY <2>1, <4>1
    <3>2. CASE toConn' = toConn /\ (link = None \/ ~Open(link))
      BY <1>4, <2>1, <3>2 DEF Links
    <3> QED
      BY <2>2, <3>1, <3>2
  <2> QED
    BY <2>3, <2>4
<1>9. ASSUME NEW k \in Connectors, rejectConnector(k) PROVE Kept(d)'
  <2>1. UNCHANGED <<link, daemon, bstate>>
    BY <1>9 DEF rejectConnector
  <2>2. toConn' = toConn \/ toConn' = [toConn EXCEPT ![k] = ToConn(k, End)]
    BY <1>9 DEF rejectConnector, TypeOK
  <2>3. toConn' = toConn \/ (link # None /\ toConn'[link] = Append(toConn[link], End))
    BY <1>a, <1>b, <2>2, SentToConn, RelayAssumption
  <2> QED
    BY <1>2, <1>b, <2>1, <2>3
<1>10. ASSUME NEW k \in Connectors, toBrowser(k) \/ closeFromConnector(k) \/ connectorEnd(k)
       PROVE  Kept(d)'
  <2>1. UNCHANGED <<link, daemon, toConn>> /\ (There(d) => There(d)')
    BY <1>3, <1>10
    DEF toBrowser, closeFromConnector, connectorEnd, disconnectBrowsers, relayVars
  <2> QED
    BY <1>1, <2>1
<1>11. ASSUME NEW c \in Channels, rejectCiphertext(c) PROVE Kept(d)'
  BY <1>1, <1>3, <1>11 DEF rejectCiphertext
<1>12. CASE readRelay
  <2> DEFINE m == Head(toConn[link])
             Q == toConn[link]
  <2>1. bstate' = bstate
    BY <1>12 DEF readRelay, relayVars
  <2>2. link \in Connectors /\ link # None /\ Q # <<>> /\ m \in Message
    BY <1>12, ReadEffect
  <2>3. /\ About(m, d) => ~In(ChannelOpen(d), Tail(Q))
        /\ In(ChannelOpen(d), Q) <=> In(ChannelOpen(d), Tail(Q)) \/ ChannelOpen(d) = m
        /\ In(ChannelClose(d), Q) <=> In(ChannelClose(d), Tail(Q)) \/ ChannelClose(d) = m
        /\ In(End, Q) <=> In(End, Tail(Q)) \/ End = m
    BY <1>a, <2>2, OpenFirstTail, InTail
  <2>4. CASE ReadsEnd(m)
    BY <1>4, <2>4 DEF ReadsEnd, LinkLost
  <2>5. ASSUME Pops(m), m # ChannelClose(d),
               daemon'[d] = "open" => daemon[d] = "open" \/ m = ChannelOpen(d)
        PROVE  Kept(d)'
    BY <1>a, <2>1, <2>2, <2>3, <2>5 DEF Live, Pops
  <2>6. CASE ReadsOpen(m)
    <3>1. m # ChannelClose(d)
      BY <2>6 DEF ReadsOpen, ChannelOpen, ChannelClose
    <3> QED
      BY <2>5, <2>6, <3>1 DEF ReadsOpen, TypeOK
  <2>7. CASE ReadsPacket(m) \/ ReadsStray(m)
    <3>1. m # ChannelClose(d)
      BY <2>7 DEF ReadsPacket, ReadsStray, Data, ChannelClose
    <3> QED
      BY <2>5, <2>7, <3>1 DEF ReadsPacket, ReadsStray
  <2>8. CASE ReadsClose(m)
    <3>1. CASE m.id = d
      <4>1. About(m, d) /\ daemon'[d] # "open"
        BY <2>8, <3>1 DEF ReadsClose, About, ChannelClose, closeChannel, TypeOK
      <4> QED
        BY <2>3, <2>8, <4>1 DEF Live, ReadsClose, Pops
    <3>2. CASE m.id # d
      <4>1. m # ChannelClose(d) /\ daemon'[d] = daemon[d]
        BY <2>8, <3>2 DEF ReadsClose, ChannelClose, closeChannel, TypeOK
      <4> QED
        BY <2>5, <2>8, <4>1 DEF ReadsClose
    <3> QED
      BY <3>1, <3>2
  <2> QED
    BY <1>12, <2>4, <2>6, <2>7, <2>8, ReadEffect
<1>13. CASE DaemonDrops
  BY <1>4, <1>13 DEF DaemonDrops, LinkLost
<1>14. ASSUME NEW c \in Channels, DaemonCloses(c) PROVE Kept(d)'
  <2>1. daemon'[d] = "open" => daemon[d] = "open"
    BY <1>14 DEF DaemonCloses, TypeOK
  <2> QED
    BY <1>1, <1>14, <2>1 DEF DaemonCloses, relayVars
<1>15. CASE UNCHANGED <<link, toConn, bstate, daemon>>
  BY <1>1, <1>15
<1> QED
  BY <1>5, <1>6, <1>7, <1>8, <1>9, <1>10, <1>11, <1>12, <1>13, <1>14, <1>15
  DEF Next, webSocketMessage, webSocketClose, Environment, vars, relayVars, queues,
      DaemonGarbles, DaemonSend, PageSend, PageGarbles, PageDrops, PageRead

--------------------------------------------------------------------------------
(* Packets *)

\* The packets a page sent are on their way to the daemon, in order.
LEMMA ToDaemonStep ==
  ASSUME TypeOK, Links, OneOpen, PageQueues, Fresh, Announced, ToDaemon, [Next]_vars
  PROVE  ToDaemon'
<1> DEFINE Rest(d, mid) ==
             \E e \in mid..sent[d]["page"] :
               /\ Carries(fromPage[d], d, mid, e)
               /\ page[d] = "open" => e = sent[d]["page"]
           Way(d, mid) ==
             /\ Carries(toConn[link], d, Len(got[d]["daemon"]), mid)
             /\ Open(link) => Rest(d, mid)
           Goal(d) == Live(d) => \E mid \in 0..sent[d]["page"] : Way(d, mid)
<1>0. SUFFICES ASSUME NEW d \in Channels, Live(d)' PROVE \E mid \in 0..sent[d]["page"]' : Way(d, mid)'
  BY DEF ToDaemon
<1>a. /\ Goal(d)
      /\ link # None => OpenFirst(toConn[link], d) /\ link \in Connectors
      /\ link # None => toConn[link] \in Seq(Message)
      /\ daemon[d] = "open" => link # None
      /\ sent[d]["page"] \in Nat /\ got[d]["daemon"] \in Seq(Nat) /\ Len(got[d]["daemon"]) \in Nat
      /\ fromPage[d] \in Seq(Message)
  BY DEF ToDaemon, Announced, TypeOK
<1>b. /\ End \in Message /\ End # ChannelOpen(d) /\ ~IsData(End, d)
      /\ Bad \in Message /\ ~IsData(Bad, d)
      /\ \A c \in Channels : /\ ChannelClose(c) \in Message /\ ChannelClose(c) # ChannelOpen(d)
                             /\ ~IsData(ChannelClose(c), d)
                             /\ ChannelOpen(c) \in Message /\ ~IsData(ChannelOpen(c), d)
  BY DEF Message, End, Bad, ChannelClose, ChannelOpen, IsData
<1> HIDE DEF Rest
<1>1. UNCHANGED <<sent[d]["page"], fromPage[d], page[d]>> => \A mid : Rest(d, mid) => Rest(d, mid)'
  BY DEF Rest
\* Nothing about the channel changes, except that a connector may close.
<1>2. ASSUME UNCHANGED <<link, toConn, sent[d]["page"], fromPage[d], page[d], got[d]["daemon"]>>,
             daemon'[d] = "open" => daemon[d] = "open", Open(link)' => Open(link)
      PROVE  \E mid \in 0..sent[d]["page"]' : Way(d, mid)'
  <2>1. PICK mid \in 0..sent[d]["page"] : Way(d, mid)
    BY <1>0, <1>a, <1>2 DEF Live
  <2> QED
    BY <1>1, <1>2, <2>1
\* Another message is sent to the daemon.
<1>3. ASSUME NEW x \in Message, x # ChannelOpen(d), ~IsData(x, d),
             toConn' = toConn \/ (link # None /\ toConn'[link] = Append(toConn[link], x)),
             UNCHANGED <<link, sent[d]["page"], page[d], got, daemon>>,
             \A mid \in 0..sent[d]["page"] : Rest(d, mid) => Rest(d, mid)',
             Open(link)' => Open(link)
      PROVE  \E mid \in 0..sent[d]["page"]' : Way(d, mid)'
  <2>1. Live(d)
    <3>1. link # None => (In(ChannelOpen(d), Append(toConn[link], x)) => In(ChannelOpen(d), toConn[link]))
      BY <1>3, <1>a, InAppend
    <3> QED
      BY <1>0, <1>3, <3>1 DEF Live
  <2>2. PICK mid \in 0..sent[d]["page"] : Way(d, mid)
    BY <2>1, <1>a
  <2>3. Carries(Append(toConn[link], x), d, Len(got[d]["daemon"]), mid)
    BY <1>3, <1>a, <2>1, <2>2, CarriesOther DEF Live
  <2> QED
    BY <1>3, <2>2, <2>3
\* A message of the page that is no packet is taken.
<1>4. ASSUME fromPage[d] # <<>>, fromPage'[d] = Tail(fromPage[d]), ~IsData(Head(fromPage[d]), d),
             UNCHANGED <<sent[d]["page"], page[d]>>,
             NEW mid \in 0..sent[d]["page"], Rest(d, mid)
      PROVE  Rest(d, mid)'
  <2>1. PICK e \in mid..sent[d]["page"] :
               Carries(fromPage[d], d, mid, e) /\ (page[d] = "open" => e = sent[d]["page"])
    BY <1>4 DEF Rest
  <2>2. mid \in Nat /\ e \in Nat
    BY <1>4, <1>a, <2>1
  <2>3. Carries(Tail(fromPage[d]), d, mid, e)
    BY <1>4, <1>a, <2>1, <2>2, CarriesTail
  <2> QED
    BY <1>4, <2>1, <2>3 DEF Rest
<1>5. ASSUME NEW k \in Connectors, acceptConnector(k) PROVE FALSE
  <2>1. link = None /\ link' = k /\ daemon' = daemon
    BY <1>5 DEF acceptConnector
  <2>2. toConn'[k] = <<>> /\ daemon[d] # "open"
    BY <1>5, <1>a, <2>1, RelayAssumption DEF acceptConnector, ToConn, Links, TypeOK
  <2>3. ~In(ChannelOpen(d), <<>>)
    BY DEF In
  <2> QED
    BY <1>0, <2>1, <2>2, <2>3 DEF Live
<1>6. ASSUME NEW c \in Channels, acceptBrowser(c)
      PROVE  \E mid \in 0..sent[d]["page"]' : Way(d, mid)'
  <2>1. UNCHANGED <<link, daemon, sent, got, fromPage, cstate>> /\ bstate[c] = "none"
        /\ (c # d => page'[d] = page[d])
    BY <1>6 DEF acceptBrowser, TypeOK
  <2>2. SendToConnector(ChannelOpen(c)) \/ toConn' = toConn
    BY <1>6 DEF acceptBrowser, BrowserAllowed, SendToConnector
  <2>3. toConn' = toConn \/ (link # None /\ toConn'[link] = Append(toConn[link], ChannelOpen(c)))
    BY <1>b, <2>2, SentEffect
  <2>4. CASE c # d
    <3>1. ChannelOpen(c) # ChannelOpen(d)
      BY <2>4 DEF ChannelOpen
    <3>2. Open(link)' => Open(link)
      BY <2>1 DEF Open
    <3> QED
      BY <1>b, <1>1, <1>3, <2>1, <2>3, <2>4, <3>1, <3>2
  <2>5. CASE c = d
    <3>1. daemon[d] = "idle" /\ sent[d]["page"] = 0 /\ fromPage[d] = <<>>
          /\ (link # None => NoneAbout(toConn[link], d))
      BY <2>1, <2>5 DEF Fresh
    <3>2. got[d]["daemon"] = <<>>
      BY <3>1 DEF Announced
    <3>3. link # None /\ NoData(toConn[link], d) /\ ~In(ChannelOpen(d), toConn[link])
      BY <1>0, <1>a, <1>b, <2>1, <3>1, NoneAboutStep DEF Live
    <3>4. NoData(Append(toConn[link], ChannelOpen(d)), d)
          /\ Append(toConn[link], ChannelOpen(d)) \in Seq(Message)
      BY <1>a, <1>b, <3>3, NoDataStep, InAppend
    <3>5. toConn'[link] = Append(toConn[link], ChannelOpen(d))
      BY <1>0, <2>1, <2>3, <2>5, <3>1, <3>3 DEF Live
    <3>6. Carries(toConn'[link], d, 0, 0)
      BY <3>4, <3>5, CarriesNone
    <3>7. Carries(<<>>, d, 0, 0)
      BY <1>b, NoDataStep, InEmpty, CarriesNone
    <3>8. Rest(d, 0)'
      BY <2>1, <3>1, <3>7 DEF Rest
    <3> QED
      BY <2>1, <3>1, <3>2, <3>6, <3>8
  <2> QED
    BY <2>4, <2>5
<1>7. ASSUME NEW c \in Channels, forwardCiphertext(c)
      PROVE  \E mid \in 0..sent[d]["page"]' : Way(d, mid)'
  <2> DEFINE x == Head(fromPage[c])
  <2>1. x \in Message /\ IsData(x, c) /\ x # ChannelOpen(d) /\ fromPage[c] # <<>>
    BY <1>7, PageHead DEF forwardCiphertext, FromPage, ChannelOpen
  <2>2. UNCHANGED <<link, daemon, sent, got, page, cstate>>
        /\ fromPage'[c] = Tail(fromPage[c]) /\ (c # d => fromPage'[d] = fromPage[d])
    BY <1>7 DEF forwardCiphertext, PopPage, TypeOK
  <2>3. \/ toConn' = toConn /\ (link = None \/ ~Open(link))
        \/ link # None /\ Open(link) /\ toConn'[link] = Append(toConn[link], x)
    <3>1. CASE SendToConnector(x)
      BY <2>1, <3>1, SentEffect
    <3>2. CASE SendFails /\ toConn' = toConn
      <4>1. link # None => ~Open(link)
        BY <1>a, <3>2, ConnectorIs DEF SendFails, MayThrow
      <4> QED
        BY <3>2, <4>1
    <3> QED
      BY <1>7, <3>1, <3>2 DEF forwardCiphertext
  <2>4. Open(link)' <=> Open(link)
    BY <2>2 DEF Open
  <2>5. CASE c # d
    <3>1. ~IsData(x, d)
      BY <2>1, <2>5 DEF IsData
    <3> HIDE DEF x
    <3> QED
      BY <1>1, <1>3, <2>1, <2>2, <2>3, <2>4, <2>5, <3>1
  <2>6. CASE c = d /\ toConn' = toConn /\ (link = None \/ ~Open(link))
    <3>1. PICK mid \in 0..sent[d]["page"] : Way(d, mid)
      BY <1>0, <1>a, <2>2, <2>6 DEF Live
    <3> QED
      BY <1>0, <2>2, <2>4, <2>6, <3>1 DEF Live
  <2>7. CASE c = d /\ link # None /\ Open(link) /\ toConn'[link] = Append(toConn[link], x)
    <3>0. Live(d)
      BY <1>0, <1>a, <2>1, <2>2, <2>7, InAppend DEF Live
    <3>1. PICK mid \in 0..sent[d]["page"] : Way(d, mid)
      BY <1>a, <3>0
    <3>2. PICK e \in mid..sent[d]["page"] :
               Carries(fromPage[d], d, mid, e) /\ (page[d] = "open" => e = sent[d]["page"])
      BY <2>7, <3>1 DEF Rest
    <3>3. mid \in Nat /\ e \in Nat
      BY <1>a, <3>1, <3>2
    <3>4. x = Data(d, mid + 1) /\ mid + 1 <= e /\ Carries(Tail(fromPage[d]), d, mid + 1, e)
      BY <1>a, <2>1, <2>7, <3>2, <3>3, CarriesTail
    <3>5. Carries(toConn'[link], d, Len(got[d]["daemon"]), mid + 1)
      BY <1>a, <2>7, <3>1, <3>3, <3>4, CarriesNext
    <3>6. mid + 1 \in 0..sent[d]["page"] /\ e \in (mid + 1)..sent[d]["page"]
      BY <1>a, <3>2, <3>3, <3>4
    <3>7. Rest(d, mid + 1)'
      BY <2>2, <2>7, <3>2, <3>4, <3>6 DEF Rest
    <3> QED
      BY <2>2, <3>5, <3>6, <3>7
  <2> QED
    BY <2>3, <2>5, <2>6, <2>7
<1>8. ASSUME NEW c \in Channels, fromPage[c] # <<>>, ~IsData(Head(fromPage[c]), c), PopPage(c),
             UNCHANGED <<sent, page>>, NEW mid \in 0..sent[d]["page"], Rest(d, mid)
      PROVE  Rest(d, mid)'
  <2>1. CASE c = d
    <3>1. fromPage'[d] = Tail(fromPage[d])
      BY <1>8, <2>1 DEF PopPage, TypeOK
    <3> QED
      BY <1>4, <1>8, <2>1, <3>1
  <2>2. CASE c # d
    BY <1>1, <1>8, <2>2 DEF PopPage, TypeOK
  <2> QED
    BY <2>1, <2>2
<1>9. ASSUME NEW c \in Channels, rejectCiphertext(c)
      PROVE  \E mid \in 0..sent[d]["page"]' : Way(d, mid)'
  <2>1. fromPage[c] # <<>> /\ ~IsData(Head(fromPage[c]), c) /\ PopPage(c)
    BY <1>9 DEF rejectCiphertext, FromPage, IsData
  <2>2. UNCHANGED <<link, daemon, sent, got, page, toConn, cstate>>
    BY <1>9 DEF rejectCiphertext
  <2>3. \A mid \in 0..sent[d]["page"] : Rest(d, mid) => Rest(d, mid)'
    BY <1>8, <2>1, <2>2
  <2>4. Open(link)' => Open(link)
    BY <2>2 DEF Open
  <2> QED
    BY <1>3, <1>b, <2>2, <2>3, <2>4
<1>10. ASSUME NEW c \in Channels, browserEnd(c)
      PROVE  \E mid \in 0..sent[d]["page"]' : Way(d, mid)'
  <2>1. fromPage[c] # <<>> /\ ~IsData(Head(fromPage[c]), c) /\ PopPage(c)
    BY <1>10 DEF browserEnd, FromPage, IsData
  <2>2. UNCHANGED <<link, daemon, sent, got, page, cstate>>
    BY <1>10 DEF browserEnd
  <2>3. \A mid \in 0..sent[d]["page"] : Rest(d, mid) => Rest(d, mid)'
    BY <1>8, <2>1, <2>2
  <2>4. Open(link)' => Open(link)
    BY <2>2 DEF Open
  <2>5. toConn' = toConn \/ (link # None /\ toConn'[link] = Append(toConn[link], ChannelClose(c)))
    BY <1>10, <1>b, SentEffect DEF browserEnd
  <2> QED
    BY <1>3, <1>b, <2>2, <2>3, <2>4, <2>5
<1>11. ASSUME NEW k \in Connectors, rejectConnector(k)
      PROVE  \E mid \in 0..sent[d]["page"]' : Way(d, mid)'
  <2>1. UNCHANGED <<link, daemon, sent, got, page, fromPage>>
    BY <1>11 DEF rejectConnector
  <2>2. toConn' = toConn \/ toConn' = [toConn EXCEPT ![k] = ToConn(k, End)]
    BY <1>11 DEF rejectConnector, TypeOK
  <2>3. toConn' = toConn \/ (link # None /\ toConn'[link] = Append(toConn[link], End))
    BY <1>a, <1>b, <2>2, SentToConn, RelayAssumption
  <2>4. Open(link)' => Open(link)
    BY <1>11, <2>1, RelayAssumption DEF rejectConnector, Open, TypeOK
  <2> QED
    BY <1>1, <1>3, <1>b, <2>1, <2>3, <2>4
<1>12. ASSUME NEW k \in Connectors, toBrowser(k) \/ closeFromConnector(k) \/ connectorEnd(k)
       PROVE  \E mid \in 0..sent[d]["page"]' : Way(d, mid)'
  <2>1. UNCHANGED <<link, daemon, toConn, sent, got, page, fromPage>>
    BY <1>12 DEF toBrowser, closeFromConnector, connectorEnd
  <2>2. cstate' = cstate \/ cstate' = [cstate EXCEPT ![k] = "closed"]
    BY <1>12 DEF toBrowser, closeFromConnector, connectorEnd, relayVars
  <2>3. Open(link)' => Open(link)
    BY <1>a, <2>1, <2>2, <1>0 DEF Live, Open, TypeOK
  <2> QED
    BY <1>2, <2>1, <2>3
<1>13. CASE readRelay
  <2> DEFINE m == Head(toConn[link])
             Q == toConn[link]
  <2>1. UNCHANGED <<cstate, sent, page, fromPage>>
    BY <1>13 DEF readRelay, relayVars
  <2>2. link \in Connectors /\ link # None /\ Q # <<>> /\ m \in Message
    BY <1>13, ReadEffect
  <2>3. /\ About(m, d) => ~In(ChannelOpen(d), Tail(Q))
        /\ In(ChannelOpen(d), Q) <=> In(ChannelOpen(d), Tail(Q)) \/ ChannelOpen(d) = m
    BY <1>a, <2>2, OpenFirstTail, InTail
  <2>4. CASE ReadsEnd(m)
    BY <1>0, <2>4 DEF ReadsEnd, LinkLost, Live
  <2>5. ASSUME Pops(m), ~IsData(m, d), got'[d]["daemon"] = got[d]["daemon"],
               daemon'[d] = "open" => daemon[d] = "open" \/ m = ChannelOpen(d)
        PROVE  \E mid \in 0..sent[d]["page"]' : Way(d, mid)'
    <3>1. Live(d)
      BY <1>0, <2>2, <2>3, <2>5 DEF Live, Pops
    <3>2. PICK mid \in 0..sent[d]["page"] : Way(d, mid)
      BY <1>a, <3>1
    <3>3. Carries(Tail(Q), d, Len(got[d]["daemon"]), mid)
      BY <1>a, <2>2, <2>5, <3>2, CarriesTail
    <3>4. Open(link)' => Open(link)
      BY <2>1, <2>5 DEF Pops, Open
    <3> QED
      BY <1>1, <2>1, <2>5, <3>2, <3>3, <3>4 DEF Pops
  <2>6. CASE ReadsOpen(m)
    <3>1. ~IsData(m, d) /\ got' = got /\ Pops(m)
      BY <2>6 DEF ReadsOpen, ChannelOpen, IsData
    <3>2. daemon'[d] = "open" => daemon[d] = "open" \/ m = ChannelOpen(d)
      BY <2>6 DEF ReadsOpen, TypeOK
    <3> QED
      BY <2>5, <3>1, <3>2
  <2>7. CASE ReadsPacket(m)
    <3>1. CASE m.id # d
      <4>1. ~IsData(m, d) /\ daemon' = daemon /\ Pops(m)
        BY <2>7, <3>1 DEF ReadsPacket, IsData
      <4>2. got'[d] = got[d]
        BY <2>7, <3>1 DEF ReadsPacket, TypeOK
      <4> QED
        BY <2>5, <4>1, <4>2
    <3>2. CASE m.id = d
      <4>1. Live(d) /\ IsData(m, d) /\ link' = link /\ toConn'[link] = Tail(Q)
        BY <2>2, <2>7, <3>2 DEF ReadsPacket, Pops, Live, IsData, Data
      <4>2. PICK mid \in 0..sent[d]["page"] : Way(d, mid)
        BY <1>a, <4>1
      <4>3. Carries(Tail(Q), d, Len(got[d]["daemon"]) + 1, mid)
        <5>1. Carries(Q, d, Len(got[d]["daemon"]), mid) /\ mid \in Nat /\ Q \in Seq(Message)
          BY <1>a, <2>2, <4>2
        <5> QED
          BY <1>a, <2>2, <4>1, <5>1, CarriesTail
      <4>4. got'[d]["daemon"] = Append(got[d]["daemon"], m.n) /\ m.n \in Nat
        BY <2>7, <3>2 DEF ReadsPacket, TypeOK
      <4>5. Len(got'[d]["daemon"]) = Len(got[d]["daemon"]) + 1
        BY <1>a, <4>4
      <4>6. Open(link)' => Open(link)
        BY <2>1, <4>1 DEF Open
      <4> QED
        BY <1>1, <2>1, <4>1, <4>2, <4>3, <4>5, <4>6
    <3> QED
      BY <3>1, <3>2
  <2>8. CASE ReadsStray(m)
    <3>1. m.id # d
      BY <1>0, <2>2, <2>3, <2>8 DEF ReadsStray, Pops, Live, About, Data
    <3>2. ~IsData(m, d) /\ daemon' = daemon /\ got' = got /\ Pops(m)
      BY <2>8, <3>1 DEF ReadsStray, IsData
    <3> QED
      BY <2>5, <3>2
  <2>9. CASE ReadsClose(m)
    <3>1. ~IsData(m, d) /\ got' = got /\ Pops(m)
      BY <2>9 DEF ReadsClose, ChannelClose, IsData
    <3>2. daemon'[d] = "open" => daemon[d] = "open"
      BY <2>9 DEF ReadsClose, closeChannel, TypeOK
    <3> QED
      BY <2>5, <3>1, <3>2
  <2> QED
    BY <1>13, <2>4, <2>6, <2>7, <2>8, <2>9, ReadEffect
<1>14. CASE DaemonDrops
  BY <1>0, <1>14 DEF DaemonDrops, LinkLost, Live
<1>15. ASSUME NEW c \in Channels, DaemonSend(c)
      PROVE  \E mid \in 0..sent[d]["page"]' : Way(d, mid)'
  <2>1. sent'[d]["page"] = sent[d]["page"]
    BY <1>15 DEF DaemonSend, TypeOK
  <2> QED
    BY <1>2, <1>15, <2>1 DEF DaemonSend, relayVars, Open
<1>16. ASSUME NEW c \in Channels, DaemonCloses(c)
      PROVE  \E mid \in 0..sent[d]["page"]' : Way(d, mid)'
  <2>1. daemon'[d] = "open" => daemon[d] = "open"
    BY <1>16 DEF DaemonCloses, TypeOK
  <2> QED
    BY <1>2, <1>16, <2>1 DEF DaemonCloses, relayVars, Open
<1>17. CASE DaemonGarbles
  BY <1>2, <1>17 DEF DaemonGarbles, relayVars, Open
\* The page's own steps change only what it has sent.
<1>18. ASSUME UNCHANGED <<cstate, link, toConn, daemon, got[d]["daemon"]>>,
              sent'[d]["page"] \in Nat, sent'[d]["page"] >= sent[d]["page"],
              \A mid \in 0..sent[d]["page"] : Rest(d, mid) => Rest(d, mid)'
       PROVE  \E mid \in 0..sent[d]["page"]' : Way(d, mid)'
  <2>1. PICK mid \in 0..sent[d]["page"] : Way(d, mid)
    BY <1>0, <1>a, <1>18 DEF Live
  <2>2. mid \in 0..sent'[d]["page"]
    BY <1>18, <1>a, <2>1
  <2> QED
    BY <1>18, <2>1, <2>2 DEF Open
<1>19. ASSUME NEW c \in Channels, PageSend(c)
      PROVE  \E mid \in 0..sent[d]["page"]' : Way(d, mid)'
  <2>1. UNCHANGED <<cstate, link, toConn, daemon, got, page>>
    BY <1>19 DEF PageSend, relayVars
  <2>2. CASE c # d
    BY <1>1, <1>18, <1>19, <1>a, <2>1, <2>2 DEF PageSend, TypeOK
  <2>3. CASE c = d
    <3>1. sent'[d]["page"] = sent[d]["page"] + 1 /\ page[d] = "open"
          /\ fromPage'[d] = Append(fromPage[d], Data(d, sent[d]["page"] + 1))
      BY <1>19, <2>3 DEF PageSend, TypeOK
    <3>2. ASSUME NEW mid \in 0..sent[d]["page"], Rest(d, mid) PROVE Rest(d, mid)'
      <4>1. Carries(fromPage[d], d, mid, sent[d]["page"]) /\ mid \in Nat
        BY <1>a, <3>1, <3>2 DEF Rest
      <4>2. Carries(fromPage'[d], d, mid, sent[d]["page"] + 1)
        BY <1>a, <3>1, <4>1, CarriesNext
      <4>3. sent[d]["page"] + 1 \in mid..sent'[d]["page"]
        BY <1>a, <3>1, <3>2
      <4> QED
        BY <3>1, <4>2, <4>3 DEF Rest
    <3> QED
      BY <1>18, <1>a, <2>1, <3>1, <3>2
  <2> QED
    BY <2>2, <2>3
<1>20. ASSUME NEW c \in Channels, PageGarbles(c)
      PROVE  \E mid \in 0..sent[d]["page"]' : Way(d, mid)'
  <2>1. UNCHANGED <<cstate, link, toConn, daemon, got, page, sent>>
    BY <1>20 DEF PageGarbles, relayVars
  <2>2. CASE c # d
    BY <1>1, <1>18, <1>20, <1>a, <2>1, <2>2 DEF PageGarbles, TypeOK
  <2>3. CASE c = d
    <3>1. sent[d]["page"] = 0 /\ fromPage'[d] = <<Bad>>
      BY <1>20, <2>3 DEF PageGarbles, TypeOK
    <3>2. Carries(<<Bad>>, d, 0, 0)
      BY <1>b, NoDataStep, InEmpty, CarriesNone
    <3>3. \A mid \in 0..sent[d]["page"] : Rest(d, mid)'
      BY <2>1, <3>1, <3>2 DEF Rest
    <3> QED
      BY <1>18, <1>a, <2>1, <3>3
  <2> QED
    BY <2>2, <2>3
<1>21. ASSUME NEW c \in Channels, PageLeaves(c), sent' = sent, NEW mid \in 0..sent[d]["page"], Rest(d, mid)
       PROVE  Rest(d, mid)'
  <2>1. CASE c # d
    BY <1>1, <1>21, <2>1 DEF PageLeaves, TypeOK
  <2>2. CASE c = d
    <3>1. PICK e \in mid..sent[d]["page"] : Carries(fromPage[d], d, mid, e)
      BY <1>21 DEF Rest
    <3>2. mid \in Nat /\ e \in Nat /\ mid \in mid..sent[d]["page"]
      BY <1>a, <3>1
    <3>3. page'[d] = "closed" /\ fromPage'[d] \in {Append(fromPage[d], End), <<End>>}
      BY <1>21, <2>2 DEF PageLeaves, TypeOK
    <3>4. Carries(Append(fromPage[d], End), d, mid, e)
      BY <1>a, <1>b, <3>1, <3>2, CarriesOther
    <3>5. Carries(<<End>>, d, mid, mid)
      BY <1>b, <3>2, NoDataStep, InEmpty, CarriesNone
    <3> QED
      BY <1>21, <3>1, <3>2, <3>3, <3>4, <3>5 DEF Rest
  <2> QED
    BY <2>1, <2>2
<1>22. ASSUME NEW c \in Channels, PageDrops(c)
      PROVE  \E mid \in 0..sent[d]["page"]' : Way(d, mid)'
  BY <1>18, <1>21, <1>22, <1>a DEF PageDrops, relayVars
<1>23. ASSUME NEW c \in Channels, PageRead(c)
      PROVE  \E mid \in 0..sent[d]["page"]' : Way(d, mid)'
  <2>1. UNCHANGED <<cstate, link, toConn, daemon, sent>>
    BY <1>23 DEF PageRead, relayVars
  <2>2. CASE PageLeaves(c) /\ got' = got
    BY <1>18, <1>21, <1>a, <2>1, <2>2
  <2>3. CASE got' = [got EXCEPT ![c]["page"] = Append(@, Head(toPage[c]).n)] /\ UNCHANGED <<page, fromPage>>
    <3>1. ASSUME NEW v, got' = [got EXCEPT ![c]["page"] = v] PROVE got'[d]["daemon"] = got[d]["daemon"]
      BY <3>1 DEF TypeOK
    <3>2. got'[d]["daemon"] = got[d]["daemon"]
      BY <2>3, <3>1
    <3> QED
      BY <1>1, <1>18, <1>a, <2>1, <2>3, <3>2
  <2> QED
    BY <1>23, <2>2, <2>3 DEF PageRead
<1>24. CASE UNCHANGED vars
  BY <1>2, <1>24 DEF vars, relayVars, queues, Open
<1> QED
  BY <1>5, <1>6, <1>7, <1>9, <1>10, <1>11, <1>12, <1>13, <1>14, <1>15, <1>16, <1>17, <1>19,
     <1>20, <1>22, <1>23, <1>24
  DEF Next, webSocketMessage, webSocketClose, Environment

\* The packets the daemon sent are on their way to the page, in order.
LEMMA FromDaemonStep ==
  ASSUME TypeOK, Links, OneOpen, PageQueues, Fresh, Announced, FromDaemon, [Next]_vars
  PROVE  FromDaemon'
<1> DEFINE Rest(d, mid) ==
             \E e \in mid..sent[d]["daemon"] :
               /\ Carries(fromConn[owner[d]], d, mid, e)
               /\ daemon[d] # "closed" => e = sent[d]["daemon"]
           Way(d, mid) ==
             /\ Carries(toPage[d], d, Len(got[d]["page"]), mid)
             /\ bstate[d] = "open" => Rest(d, mid)
           Goal(d) == page[d] = "open" => \E mid \in 0..sent[d]["daemon"] : Way(d, mid)
<1>0. SUFFICES ASSUME NEW d \in Channels, page'[d] = "open"
               PROVE \E mid \in 0..sent[d]["daemon"]' : Way(d, mid)'
  BY DEF FromDaemon
<1>a. /\ Goal(d)
      /\ sent[d]["daemon"] \in Nat /\ got[d]["page"] \in Seq(Nat) /\ Len(got[d]["page"]) \in Nat
      /\ toPage[d] \in Seq(Message)
      /\ \A k \in Connectors : fromConn[k] \in Seq(Message)
      /\ bstate[d] = "open" => owner[d] \in Connectors
  BY DEF FromDaemon, TypeOK
<1>b. /\ End \in Message /\ ~IsData(End, d)
      /\ Bad \in Message /\ ~IsData(Bad, d)
      /\ \A c \in Channels : ChannelClose(c) \in Message /\ ~IsData(ChannelClose(c), d)
  BY DEF Message, End, Bad, ChannelClose, IsData
<1> HIDE DEF Rest
\* The end of a step that keeps the page open and the queue behind it.
<1>1. ASSUME page[d] = "open", UNCHANGED <<sent[d]["daemon"], got[d]["page"]>>,
             bstate'[d] = "open" => bstate[d] = "open",
             toPage'[d] = toPage[d] \/ toPage'[d] = Append(toPage[d], End),
             \A mid \in 0..sent[d]["daemon"] : bstate'[d] = "open" /\ Rest(d, mid) => Rest(d, mid)'
      PROVE  \E mid \in 0..sent[d]["daemon"]' : Way(d, mid)'
  <2>1. PICK mid \in 0..sent[d]["daemon"] : Way(d, mid)
    BY <1>a, <1>1
  <2>2. Carries(Append(toPage[d], End), d, Len(got[d]["page"]), mid)
    BY <1>a, <1>b, <2>1, CarriesOther
  <2> QED
    BY <1>1, <2>1, <2>2
<1>2. ASSUME UNCHANGED <<fromConn, owner[d], sent[d]["daemon"]>>,
             daemon'[d] # "closed" => daemon[d] # "closed"
      PROVE  \A mid : Rest(d, mid) => Rest(d, mid)'
  BY <1>2 DEF Rest
\* The relay takes something else than a packet of the channel from a connector.
<1>3. ASSUME NEW k \in Connectors, fromConn[k] # <<>>, PopConn(k), ~IsData(Head(fromConn[k]), d),
             UNCHANGED <<owner, sent, daemon>>, owner[d] \in Connectors,
             NEW mid \in 0..sent[d]["daemon"], Rest(d, mid)
      PROVE  Rest(d, mid)'
  <2>1. PICK e \in mid..sent[d]["daemon"] :
               Carries(fromConn[owner[d]], d, mid, e) /\ (daemon[d] # "closed" => e = sent[d]["daemon"])
    BY <1>3 DEF Rest
  <2>2. mid \in Nat /\ e \in Nat
    BY <1>a, <2>1
  <2>3. k = owner[d] => Carries(Tail(fromConn[k]), d, mid, e)
    BY <1>3, <1>a, <2>1, <2>2, CarriesTail
  <2>4. fromConn'[owner[d]] = IF k = owner[d] THEN Tail(fromConn[k]) ELSE fromConn[owner[d]]
    BY <1>3 DEF PopConn, TypeOK
  <2> QED
    BY <1>3, <2>1, <2>3, <2>4 DEF Rest
\* The daemon adds something else than a packet of the channel.
<1>4. ASSUME NEW x \in Message, link \in Connectors, ~IsData(x, d), owner[d] \in Connectors,
             fromConn' = [fromConn EXCEPT ![link] = Append(@, x)],
             UNCHANGED <<owner, sent[d]["daemon"]>>, daemon'[d] # "closed" => daemon[d] # "closed",
             NEW mid \in 0..sent[d]["daemon"], Rest(d, mid)
      PROVE  Rest(d, mid)'
  <2>1. PICK e \in mid..sent[d]["daemon"] :
               Carries(fromConn[owner[d]], d, mid, e) /\ (daemon[d] # "closed" => e = sent[d]["daemon"])
    BY <1>4 DEF Rest
  <2>2. mid \in Nat /\ e \in Nat
    BY <1>a, <2>1
  <2>3. Carries(Append(fromConn[owner[d]], x), d, mid, e)
    BY <1>4, <1>a, <2>1, <2>2, CarriesOther
  <2>4. fromConn'[owner[d]] \in {Append(fromConn[owner[d]], x), fromConn[owner[d]]}
    BY <1>4 DEF TypeOK
  <2> QED
    BY <1>4, <2>1, <2>3, <2>4 DEF Rest
\* The daemon leaves; what it had sent may be lost.
<1>5. ASSUME link \in Connectors, LinkLost(link), owner[d] \in Connectors, UNCHANGED <<owner, sent>>,
             NEW mid \in 0..sent[d]["daemon"], Rest(d, mid)
      PROVE  Rest(d, mid)'
  <2>1. daemon'[d] # "closed" => daemon[d] = "idle"
    BY <1>5 DEF LinkLost, Mine, TypeOK, EndState
  <2>2. CASE fromConn' = [fromConn EXCEPT ![link] = Append(@, End)]
    BY <1>4, <1>5, <1>b, <2>1, <2>2
  <2>3. CASE fromConn' = [fromConn EXCEPT ![link] = <<End>>]
    <3>1. CASE owner[d] # link
      <4>1. fromConn'[owner[d]] = fromConn[owner[d]]
        BY <1>5, <2>3, <3>1 DEF TypeOK
      <4> QED
        BY <1>5, <2>1, <4>1 DEF Rest
    <3>2. CASE owner[d] = link
      <4>1. fromConn'[owner[d]] = <<End>>
        BY <1>5, <2>3, <3>2 DEF TypeOK
      <4>2. mid \in Nat /\ mid \in mid..sent[d]["daemon"]
        BY <1>a
      <4>3. Carries(<<End>>, d, mid, mid)
        BY <1>b, <4>2, NoDataStep, InEmpty, CarriesNone
      <4>4. daemon'[d] # "closed" => sent[d]["daemon"] = 0
        BY <2>1 DEF Announced
      <4>5. daemon'[d] # "closed" => mid = sent[d]["daemon"]
        BY <1>a, <4>4
      <4> QED
        BY <1>5, <4>1, <4>2, <4>3, <4>5 DEF Rest
    <3> QED
      BY <3>1, <3>2
  <2> QED
    BY <1>5, <2>2, <2>3 DEF LinkLost
<1>6. ASSUME page[d] = "open"
      PROVE  \A C : CloseBrowsers(C) =>
               /\ bstate'[d] = "open" => bstate[d] = "open"
               /\ toPage'[d] = toPage[d] \/ toPage'[d] = Append(toPage[d], End)
  BY <1>6, Closes DEF ToPage
<1>7. ASSUME NEW k \in Connectors, acceptConnector(k)
      PROVE  \E mid \in 0..sent[d]["daemon"]' : Way(d, mid)'
  BY <1>0, <1>1, <1>2, <1>6, <1>7 DEF acceptConnector, disconnectBrowsers
<1>8. ASSUME NEW c \in Channels, acceptBrowser(c)
      PROVE  \E mid \in 0..sent[d]["daemon"]' : Way(d, mid)'
  <2>1. CASE c # d
    <3>1. /\ UNCHANGED <<page[d], sent, got, bstate[d], owner[d], toPage[d], fromConn, daemon>>
      BY <1>8, <2>1 DEF acceptBrowser, TypeOK
    <3> QED
      BY <1>0, <1>1, <1>2, <3>1
  <2>2. CASE c = d
    <3>1. bstate[d] = "none" /\ UNCHANGED <<sent, got, daemon, fromConn>> /\ connector # None
      BY <1>8, <2>2 DEF acceptBrowser, BrowserAllowed
    <3>2. owner'[d] = connector /\ connector \in Connectors
      BY <1>8, <2>2, <3>1, ConnectorIs DEF acceptBrowser, TypeOK
    <3>3. daemon[d] = "idle" /\ owner[d] = None /\ got[d]["page"] = <<>> /\ toPage[d] = <<>>
      BY <3>1 DEF Fresh
    <3>4. sent[d]["daemon"] = 0 /\ NoData(fromConn[connector], d)
      BY <3>2, <3>3, RelayAssumption DEF Announced
    <3>5. Carries(fromConn[connector], d, 0, 0) /\ Carries(<<>>, d, 0, 0) /\ Carries(<<End>>, d, 0, 0)
      BY <1>a, <1>b, <3>2, <3>4, NoDataStep, InEmpty, CarriesNone
    <3>6. toPage'[d] = <<>> \/ toPage'[d] = <<End>>
      BY <1>8, <2>2, <3>3 DEF acceptBrowser, TypeOK
    <3>7. Rest(d, 0)'
      BY <3>1, <3>2, <3>4, <3>5 DEF Rest
    <3> QED
      BY <3>1, <3>3, <3>4, <3>5, <3>6, <3>7
  <2> QED
    BY <2>1, <2>2
<1>9. ASSUME NEW c \in Channels, forwardCiphertext(c) \/ rejectCiphertext(c)
      PROVE  \E mid \in 0..sent[d]["daemon"]' : Way(d, mid)'
  <2>1. UNCHANGED <<page, sent, got, owner, fromConn, daemon>>
    BY <1>9 DEF forwardCiphertext, rejectCiphertext
  <2>2. CloseBrowsers({c}) \/ UNCHANGED <<bstate, toPage>>
    BY <1>9 DEF forwardCiphertext, rejectCiphertext
  <2> QED
    BY <1>0, <1>1, <1>2, <1>6, <2>1, <2>2
<1>10. ASSUME NEW c \in Channels, browserEnd(c)
      PROVE  \E mid \in 0..sent[d]["daemon"]' : Way(d, mid)'
  <2>1. UNCHANGED <<page, sent, got, owner, fromConn, daemon, toPage>>
    BY <1>10 DEF browserEnd
  <2>2. bstate'[d] = "open" => bstate[d] = "open"
    BY <1>10 DEF browserEnd, TypeOK
  <2> QED
    BY <1>0, <1>1, <1>2, <2>1, <2>2
<1>11. ASSUME NEW k \in Connectors, fromConn[k] # <<>>, PopConn(k), ~IsData(Head(fromConn[k]), d),
              UNCHANGED <<page, sent, got, owner, daemon>>,
              bstate'[d] = "open" => bstate[d] = "open",
              toPage'[d] = toPage[d] \/ toPage'[d] = Append(toPage[d], End)
       PROVE  \E mid \in 0..sent[d]["daemon"]' : Way(d, mid)'
  <2>1. \A mid \in 0..sent[d]["daemon"] : bstate'[d] = "open" /\ Rest(d, mid) => Rest(d, mid)'
    BY <1>3, <1>11, <1>a
  <2> QED
    BY <1>0, <1>1, <1>11, <2>1
<1>12. ASSUME NEW k \in Connectors, connectorEnd(k) \/ closeFromConnector(k) \/ rejectConnector(k)
       PROVE  \E mid \in 0..sent[d]["daemon"]' : Way(d, mid)'
  <2>1. fromConn[k] # <<>> /\ ~IsData(Head(fromConn[k]), d) /\ PopConn(k)
        /\ UNCHANGED <<page, sent, got, owner, daemon>>
    BY <1>12 DEF connectorEnd, closeFromConnector, rejectConnector, FromConn, IsData
  <2>2. (\E C : CloseBrowsers(C)) \/ UNCHANGED <<bstate, toPage>>
    BY <1>12 DEF connectorEnd, closeFromConnector, rejectConnector, disconnectBrowsers
  <2> QED
    BY <1>0, <1>6, <1>11, <2>1, <2>2
<1>13. ASSUME NEW k \in Connectors, toBrowser(k)
       PROVE  \E mid \in 0..sent[d]["daemon"]' : Way(d, mid)'
  <2> DEFINE m == Head(fromConn[k])
  <2>1. fromConn[k] # <<>> /\ PopConn(k) /\ UNCHANGED <<page, sent, got, owner, daemon, bstate>>
    BY <1>13 DEF toBrowser, FromConn, relayVars
  <2>2. m \in Message /\ m.id \in Channels /\ m.type = "data"
    BY <1>13, HeadIs, Shapes DEF toBrowser, FromConn
  <2>3. CASE m.id # d
    <3>1. ~IsData(m, d) /\ toPage'[d] = toPage[d]
      BY <1>13, <2>2, <2>3 DEF toBrowser, IsData, TypeOK
    <3> QED
      BY <1>11, <2>1, <3>1
  <2>4. CASE m.id = d /\ bstate[d] # "open"
    <3>1. toPage'[d] = toPage[d]
      BY <1>13, <2>4 DEF toBrowser
    <3> QED
      BY <1>0, <1>1, <2>1, <2>4, <3>1
  <2>5. CASE m.id = d /\ bstate[d] = "open"
    <3>1. toPage'[d] = Append(toPage[d], m) /\ page[d] = "open"
      BY <1>0, <1>13, <2>1, <2>5 DEF toBrowser, ToPage, TypeOK
    <3>2. IsData(m, d) /\ m = fromConn[k][1] /\ 1 \in 1..Len(fromConn[k])
      BY <1>a, <2>1, <2>2, <2>5 DEF IsData
    <3>3. k = owner[d]
      BY <3>2 DEF Announced, NoData
    <3>4. PICK mid \in 0..sent[d]["daemon"] : Way(d, mid)
      BY <1>a, <3>1
    <3>5. PICK e \in mid..sent[d]["daemon"] :
               Carries(fromConn[k], d, mid, e) /\ (daemon[d] # "closed" => e = sent[d]["daemon"])
      BY <2>5, <3>3, <3>4 DEF Rest
    <3>6. mid \in Nat /\ e \in Nat
      BY <1>a, <3>4, <3>5
    <3>7. m = Data(d, mid + 1) /\ mid + 1 <= e /\ Carries(Tail(fromConn[k]), d, mid + 1, e)
      BY <1>a, <2>1, <3>2, <3>5, <3>6, CarriesTail
    <3>8. Carries(toPage'[d], d, Len(got[d]["page"]), mid + 1)
      BY <1>a, <3>1, <3>4, <3>6, <3>7, CarriesNext
    <3>9. mid + 1 \in 0..sent[d]["daemon"] /\ e \in (mid + 1)..sent[d]["daemon"]
      BY <1>a, <3>5, <3>6, <3>7
    <3>10. fromConn'[owner[d]] = Tail(fromConn[k])
      BY <2>1, <3>3 DEF PopConn, TypeOK
    <3>11. Rest(d, mid + 1)'
      BY <2>1, <3>5, <3>7, <3>9, <3>10 DEF Rest
    <3> QED
      BY <2>1, <3>8, <3>9, <3>11
  <2> QED
    BY <2>3, <2>4, <2>5
<1>14. ASSUME UNCHANGED <<page, bstate, owner, sent, got[d]["page"], toPage>>,
              \A mid \in 0..sent[d]["daemon"] : owner[d] \in Connectors /\ Rest(d, mid) => Rest(d, mid)'
       PROVE  \E mid \in 0..sent[d]["daemon"]' : Way(d, mid)'
  BY <1>0, <1>1, <1>14, <1>a
<1>15. CASE readRelay
  <2> DEFINE m == Head(toConn[link])
  <2>1. UNCHANGED <<page, bstate, owner, sent, toPage>>
    BY <1>15 DEF readRelay, relayVars
  <2>2. link \in Connectors /\ link # None /\ toConn[link] # <<>> /\ m \in Message
    BY <1>15, ReadEffect
  <2>3. CASE ReadsEnd(m)
    BY <1>5, <1>14, <2>1, <2>2, <2>3 DEF ReadsEnd
  <2>4. CASE ReadsOpen(m)
    <3>1. In(m, toConn[link])
      BY <2>2, InTail DEF TypeOK
    <3>2. daemon[m.id] = "idle" /\ fromConn' = fromConn /\ got' = got
      BY <2>2, <2>4, <3>1 DEF Announced, ReadsOpen
    <3>3. daemon'[d] # "closed" => daemon[d] # "closed"
      BY <2>4, <3>2 DEF ReadsOpen, TypeOK
    <3> QED
      BY <1>2, <1>14, <2>1, <3>2, <3>3
  <2>5. CASE ReadsPacket(m)
    <3>1. ASSUME NEW c \in Channels, NEW v, got' = [got EXCEPT ![c]["daemon"] = v]
          PROVE  got'[d]["page"] = got[d]["page"]
      BY <3>1 DEF TypeOK
    <3>2. got'[d]["page"] = got[d]["page"] /\ fromConn' = fromConn /\ daemon' = daemon
      BY <2>5, <3>1 DEF ReadsPacket
    <3> QED
      BY <1>2, <1>14, <2>1, <3>2
  <2>6. CASE ReadsStray(m)
    <3>1. ChannelClose(m.id) \in Message /\ ~IsData(ChannelClose(m.id), d)
      BY <1>b, <2>6 DEF ReadsStray
    <3> QED
      BY <1>4, <1>14, <2>1, <2>2, <2>6, <3>1 DEF ReadsStray
  <2>7. CASE ReadsClose(m)
    <3>1. daemon'[d] # "closed" => daemon[d] # "closed"
      BY <2>7 DEF ReadsClose, closeChannel, TypeOK
    <3> QED
      BY <1>2, <1>14, <2>1, <2>7, <3>1 DEF ReadsClose
  <2> QED
    BY <1>15, <2>3, <2>4, <2>5, <2>6, <2>7, ReadEffect
<1>16. CASE DaemonDrops
  <2>1. link \in Connectors /\ LinkLost(link) /\ UNCHANGED <<page, bstate, owner, sent, got, toPage>>
    BY <1>16 DEF DaemonDrops, relayVars, TypeOK
  <2> QED
    BY <1>5, <1>14, <2>1
<1>17. CASE DaemonGarbles
  <2>1. link \in Connectors /\ UNCHANGED <<page, bstate, owner, sent, got, toPage, daemon>>
    BY <1>17 DEF DaemonGarbles, relayVars, TypeOK
  <2> QED
    BY <1>4, <1>14, <1>17, <1>b, <2>1 DEF DaemonGarbles
<1>18. ASSUME NEW c \in Channels, DaemonCloses(c)
       PROVE  \E mid \in 0..sent[d]["daemon"]' : Way(d, mid)'
  <2>1. link \in Connectors /\ UNCHANGED <<page, bstate, owner, sent, got, toPage>>
    BY <1>18 DEF DaemonCloses, relayVars, TypeOK
  <2>2. daemon'[d] # "closed" => daemon[d] # "closed"
    BY <1>18 DEF DaemonCloses, TypeOK
  <2> QED
    BY <1>4, <1>14, <1>18, <1>b, <2>1, <2>2 DEF DaemonCloses
<1>19. ASSUME NEW c \in Channels, DaemonSend(c)
       PROVE  \E mid \in 0..sent[d]["daemon"]' : Way(d, mid)'
  <2> DEFINE x == Data(c, sent[c]["daemon"] + 1)
  <2>1. link \in Connectors /\ link # None /\ UNCHANGED <<page, bstate, owner, got, toPage, daemon>>
        /\ daemon[c] = "open"
    BY <1>19 DEF DaemonSend, relayVars, TypeOK, Mine
  <2>2. x \in Message /\ (c # d => ~IsData(x, d))
    BY Made DEF TypeOK, Data, IsData
  <2>3. CASE c # d
    <3>1. sent'[d] = sent[d]
      BY <1>19, <2>3 DEF DaemonSend, TypeOK
    <3>2. \A mid \in 0..sent[d]["daemon"] : owner[d] \in Connectors /\ Rest(d, mid) => Rest(d, mid)'
      BY <1>4, <1>19, <2>1, <2>2, <2>3, <3>1 DEF DaemonSend
    <3> QED
      BY <1>0, <1>1, <1>a, <2>1, <3>1, <3>2
  <2>4. CASE c = d
    <3>1. sent'[d]["daemon"] = sent[d]["daemon"] + 1
      BY <1>19, <2>4 DEF DaemonSend, TypeOK
    <3>2. owner[d] = link
      BY <2>1, <2>4 DEF Announced, Live
    <3>3. fromConn'[owner[d]] = Append(fromConn[owner[d]], Data(d, sent[d]["daemon"] + 1))
      BY <1>19, <2>1, <2>4, <3>2 DEF DaemonSend, TypeOK
    <3>4. PICK mid \in 0..sent[d]["daemon"] : Way(d, mid)
      BY <1>0, <1>a, <2>1
    <3>5. mid \in Nat /\ mid \in 0..sent'[d]["daemon"]
          /\ sent[d]["daemon"] + 1 \in mid..sent'[d]["daemon"]
      BY <1>a, <3>1, <3>4
    <3>6. ASSUME bstate[d] = "open" PROVE Rest(d, mid)'
      <4>1. Carries(fromConn[owner[d]], d, mid, sent[d]["daemon"])
        BY <2>1, <2>4, <3>4, <3>6 DEF Rest
      <4>2. Carries(fromConn'[owner[d]], d, mid, sent[d]["daemon"] + 1)
        BY <1>a, <2>1, <3>2, <3>3, <3>5, <4>1, CarriesNext
      <4> QED
        BY <2>1, <3>1, <3>5, <4>2 DEF Rest
    <3> QED
      BY <2>1, <3>4, <3>5, <3>6
  <2> QED
    BY <2>3, <2>4
<1>20. ASSUME NEW c \in Channels, PageSend(c)
       PROVE  \E mid \in 0..sent[d]["daemon"]' : Way(d, mid)'
  <2>1. UNCHANGED <<page, bstate, owner, got, toPage, daemon, fromConn>>
    BY <1>20 DEF PageSend, relayVars
  <2>2. sent'[d]["daemon"] = sent[d]["daemon"]
    BY <1>20 DEF PageSend, TypeOK
  <2> QED
    BY <1>0, <1>1, <1>2, <2>1, <2>2
<1>21. ASSUME NEW c \in Channels, PageLeaves(c), UNCHANGED <<bstate, owner, sent, got, daemon, fromConn>>
       PROVE  \E mid \in 0..sent[d]["daemon"]' : Way(d, mid)'
  <2>1. c # d
    BY <1>0, <1>21 DEF PageLeaves, TypeOK
  <2>2. UNCHANGED <<page[d], toPage[d]>>
    BY <1>21, <2>1 DEF PageLeaves, TypeOK
  <2> QED
    BY <1>0, <1>1, <1>2, <1>21, <2>2
<1>22. ASSUME NEW c \in Channels, PageDrops(c)
       PROVE  \E mid \in 0..sent[d]["daemon"]' : Way(d, mid)'
  BY <1>21, <1>22 DEF PageDrops, relayVars
<1>23. ASSUME NEW c \in Channels, PageRead(c)
       PROVE  \E mid \in 0..sent[d]["daemon"]' : Way(d, mid)'
  <2>1. UNCHANGED <<bstate, owner, sent, daemon, fromConn>> /\ page[c] = "open" /\ toPage[c] # <<>>
    BY <1>23 DEF PageRead, relayVars
  <2>2. CASE PageLeaves(c) /\ got' = got
    BY <1>21, <2>1, <2>2
  <2>3. CASE /\ Head(toPage[c]) # End
             /\ got' = [got EXCEPT ![c]["page"] = Append(@, Head(toPage[c]).n)]
             /\ toPage' = [toPage EXCEPT ![c] = Tail(@)]
             /\ page' = page
    <3>1. CASE c # d
      <4>1. got'[d] = got[d] /\ toPage'[d] = toPage[d]
        BY <2>3, <3>1 DEF TypeOK
      <4> QED
        BY <1>0, <1>1, <1>2, <2>1, <2>3, <4>1
    <3>2. CASE c = d
      <4>1. toPage[d] \in Seq({End} \cup Packets(d))
        BY DEF PageQueues
      <4>2. Head(toPage[d]) \in {End} \cup Packets(d)
        BY <2>1, <3>2, <4>1, SeqStep
      <4>3. IsData(Head(toPage[d]), d) /\ Head(toPage[d]).n \in Nat
        BY <2>3, <3>2, <4>2 DEF Packets, IsData
      <4>4. PICK mid \in 0..sent[d]["daemon"] : Way(d, mid)
        BY <1>a, <2>1, <3>2
      <4>5. Carries(Tail(toPage[d]), d, Len(got[d]["page"]) + 1, mid)
        <5>1. Carries(toPage[d], d, Len(got[d]["page"]), mid) /\ mid \in Nat
          BY <1>a, <4>4
        <5> QED
          BY <1>a, <2>1, <3>2, <4>3, <5>1, CarriesTail
      <4>6. got'[d]["page"] = Append(got[d]["page"], Head(toPage[d]).n) /\ toPage'[d] = Tail(toPage[d])
        BY <2>3, <3>2 DEF TypeOK
      <4>7. Len(got'[d]["page"]) = Len(got[d]["page"]) + 1
        BY <1>a, <4>3, <4>6
      <4> QED
        BY <1>2, <2>1, <4>4, <4>5, <4>6, <4>7
    <3> QED
      BY <3>1, <3>2
  <2> QED
    BY <1>23, <2>2, <2>3 DEF PageRead
<1>24. CASE UNCHANGED <<page, bstate, owner, sent, got, toPage, daemon, fromConn>>
  BY <1>0, <1>1, <1>2, <1>24
<1> QED
  BY <1>7, <1>8, <1>9, <1>10, <1>12, <1>13, <1>15, <1>16, <1>17, <1>18, <1>19, <1>20, <1>22,
     <1>23, <1>24
  DEF Next, webSocketMessage, webSocketClose, Environment, vars, relayVars, queues, PageGarbles

--------------------------------------------------------------------------------
(* Theorems *)

LEMMA RelayInit ==
  ASSUME Init
  PROVE  RelayInv
<1> USE DEF Init
<1>1. TypeOK
  BY InEmpty DEF TypeOK, SocketState, EndState
<1>2. OneOpen /\ Links /\ BridgesBelong
  BY RelayAssumption DEF OneOpen, Links, BridgesBelong, Open
<1>3. PageQueues /\ Fresh
  BY DEF PageQueues, Fresh
<1>4. \A c \in Channels : ~Live(c)
  BY DEF Live
<1>5. Announced /\ Freed /\ ToDaemon /\ FromDaemon
  BY <1>4 DEF Announced, Freed, ToDaemon, FromDaemon, NoData
<1> QED
  BY <1>1, <1>2, <1>3, <1>5 DEF RelayInv

LEMMA RelayStep ==
  ASSUME RelayInv, [Next]_vars
  PROVE  RelayInv'
<1> USE DEF RelayInv
<1>1. TypeOK'
  <2>1. CASE UNCHANGED vars
    BY <2>1 DEF TypeOK, vars, relayVars, queues
  <2> QED
    BY <2>1, RelayTypes, PeerTypes DEF Next
<1> QED
  BY <1>1, OneOpenStep, LinksStep, BridgesBelongStep, PageQueuesStep, FreshStep, AnnouncedStep,
     FreedStep, ToDaemonStep, FromDaemonStep

\* The inductive invariant holds in every reachable state of the relay and its
\* peers, for any number of pages, reconnections and packets.
THEOREM RelayInvariant == Spec => []RelayInv
<1>1. Init => RelayInv
  BY RelayInit
<1>2. RelayInv /\ [Next]_vars => RelayInv'
  BY RelayStep
<1> QED
  BY <1>1, <1>2, PTL DEF Spec

\* After a reconnect no page keeps talking to a daemon that does not know its
\* channel (acceptConnector and connectorEnd disconnect the pages).
THEOREM RelayBridgesBelong == Spec => []BridgesBelong
<1>1. RelayInv => BridgesBelong
  BY DEF RelayInv
<1> QED
  BY <1>1, RelayInvariant, PTL

\* A page that goes away never leaves terminals, captures and uploads behind
\* (webSocketClose sends channel_close, or the daemon's own connection is ending).
THEOREM RelayChannelsFreed == Spec => []ChannelsFreed
<1>1. RelayInv => ChannelsFreed
  <2>1. SUFFICES ASSUME RelayInv, NEW c \in Mine
                 PROVE  \/ bstate[c] \in {"open", "closing"}
                        \/ \E i \in 1..Len(toConn[link]) : toConn[link][i] \in {ChannelClose(c), End}
    BY DEF ChannelsFreed
  <2>2. c \in Channels /\ Live(c)
    BY <2>1 DEF RelayInv, Mine, Live, Announced
  <2> QED
    BY <2>1, <2>2 DEF RelayInv, Freed, In
<1> QED
  BY <1>1, RelayInvariant, PTL

\* The end of a replaced connector's socket never disconnects a page
\* (`current && current !== socket` in webSocketClose).
THEOREM RelayStaleEndHarmless == Spec => StaleEndHarmless
<1> DEFINE A == \A k \in Connectors :
                  connectorEnd(k) /\ (\E j \in Connectors \ {k} : Open(j)) => UNCHANGED bstate
<1>1. RelayInv => A
  <2>1. SUFFICES ASSUME RelayInv, NEW k \in Connectors, connectorEnd(k),
                        NEW j \in Connectors \ {k}, Open(j)
                 PROVE  UNCHANGED bstate
    OBVIOUS
  <2>2. connector = j /\ j # None
    BY <2>1, ConnectorIs, RelayAssumption DEF RelayInv
  <2> QED
    BY <2>1, <2>2 DEF connectorEnd, StaleEnd
<1> QED
  BY <1>1, RelayInvariant, PTL DEF StaleEndHarmless

\* A step of the relay or of a peer is a step of the tunnel, or none.
LEMMA TunnelStep ==
  ASSUME RelayInv, [Next]_vars
  PROVE  [T!Next]_(T!vars)
<1> USE DEF RelayInv
<1>0. TypeOK'
  BY RelayStep
<1>1. ASSUME \A c \in Channels : page'[c] = page[c] \/ <<page[c], page'[c]>> \in
               {<<"idle", "open">>, <<"open", "closed">>, <<"idle", "closed">>},
             \A c \in Channels : daemon'[c] = daemon[c] \/ <<daemon[c], daemon'[c]>> \in
               {<<"idle", "open">>, <<"open", "closed">>, <<"idle", "closed">>},
             UNCHANGED <<sent, got>>
      PROVE  T!Next
  BY <1>0, <1>1 DEF T!Next, T!Change, T!Moves, TypeOK, EndState
<1>2. ASSUME UNCHANGED <<page, daemon, sent, got>> PROVE UNCHANGED T!vars
  BY <1>2 DEF T!vars
<1>3. ASSUME link # None, LinkLost(link), UNCHANGED <<page, sent, got>> PROVE T!Next
  <2>1. \A c \in Channels : daemon'[c] = daemon[c] \/ <<daemon[c], daemon'[c]>> = <<"open", "closed">>
    BY <1>3 DEF LinkLost, Mine, TypeOK
  <2> QED
    BY <1>1, <1>3, <2>1
<1>4. ASSUME NEW c \in Channels, acceptBrowser(c) PROVE T!Next
  <2>1. page[c] = "idle"
    BY <1>4 DEF acceptBrowser, Fresh
  <2>2. \A d \in Channels : page'[d] = page[d] \/ <<page[d], page'[d]>> = <<"idle", "open">>
    BY <1>4, <2>1 DEF acceptBrowser, TypeOK
  <2> QED
    BY <1>1, <1>4, <2>2 DEF acceptBrowser
<1>5. ASSUME NEW c \in Channels, page[c] = "open", PageLeaves(c), UNCHANGED <<daemon, sent, got>>
      PROVE  T!Next
  <2>1. \A d \in Channels : page'[d] = page[d] \/ <<page[d], page'[d]>> = <<"open", "closed">>
    BY <1>5 DEF PageLeaves, TypeOK
  <2> QED
    BY <1>1, <1>5, <2>1
<1>6. CASE readRelay
  <2> DEFINE m == Head(toConn[link])
  <2>1. UNCHANGED <<page, sent>>
    BY <1>6 DEF readRelay
  <2>2. link \in Connectors /\ link # None /\ toConn[link] # <<>> /\ m \in Message
    BY <1>6, ReadEffect
  <2>3. CASE ReadsEnd(m)
    BY <1>3, <2>1, <2>2, <2>3 DEF ReadsEnd
  <2>4. CASE ReadsOpen(m)
    <3>1. In(m, toConn[link])
      BY <2>2, InTail DEF TypeOK
    <3>2. daemon[m.id] = "idle" /\ m.id \in Channels /\ got' = got
      BY <2>2, <2>4, <3>1 DEF Announced, ReadsOpen
    <3>3. \A d \in Channels : daemon'[d] = daemon[d] \/ <<daemon[d], daemon'[d]>> = <<"idle", "open">>
      BY <2>4, <3>2 DEF ReadsOpen, TypeOK
    <3> QED
      BY <1>1, <2>1, <3>2, <3>3
  <2>5. CASE ReadsPacket(m)
    <3> DEFINE c == m.id
               L == Len(got[c]["daemon"])
    <3>1. c \in Channels /\ daemon[c] = "open" /\ daemon' = daemon /\ IsData(m, c)
          /\ got' = [got EXCEPT ![c]["daemon"] = Append(@, m.n)]
      BY <2>5 DEF ReadsPacket, IsData, Data
    <3>2. Live(c) /\ toConn[link] \in Seq(Message) /\ L \in Nat /\ sent[c]["page"] \in Nat
      BY <2>2, <3>1 DEF Live, TypeOK
    <3>3. PICK mid \in 0..sent[c]["page"] : Carries(toConn[link], c, L, mid)
      BY <3>1, <3>2 DEF ToDaemon
    <3>4. m = Data(c, L + 1) /\ L + 1 <= mid
      <4>1. mid \in Nat
        BY <3>2, <3>3
      <4>2. \A b \in Nat : Carries(toConn[link], c, b, mid) => m = Data(c, b + 1) /\ b + 1 <= mid
        BY <2>2, <3>1, <3>2, <4>1, CarriesTail
      <4> QED
        BY <3>2, <3>3, <4>2
    <3>5. m.n = L + 1 /\ L < sent[c]["page"]
      BY <3>1, <3>2, <3>3, <3>4, Made
    <3>6. got' = [got EXCEPT ![c]["daemon"] = Append(@, Len(@) + 1)]
      BY <3>1, <3>5
    <3>7. T!Take(c, "daemon")
      BY <2>1, <3>1, <3>5, <3>6 DEF T!Take, T!EndOf, T!Other
    <3> QED
      BY <3>1, <3>7 DEF T!Next, T!Ends
  <2>6. CASE ReadsStray(m)
    BY <1>2, <2>1, <2>6 DEF ReadsStray
  <2>7. CASE ReadsClose(m)
    <3>1. \A d \in Channels : daemon'[d] = daemon[d] \/ <<daemon[d], daemon'[d]>> = <<"open", "closed">>
      BY <2>7 DEF ReadsClose, closeChannel, TypeOK
    <3> QED
      BY <1>1, <2>1, <2>7, <3>1 DEF ReadsClose
  <2> QED
    BY <1>6, <2>3, <2>4, <2>5, <2>6, <2>7, ReadEffect
<1>7. CASE DaemonDrops
  BY <1>3, <1>7 DEF DaemonDrops
<1>8. ASSUME NEW c \in Channels, DaemonSend(c) PROVE T!Next
  <2>1. T!Send(c, "daemon")
    BY <1>8 DEF DaemonSend, Mine, T!Send, T!EndOf
  <2> QED
    BY <2>1 DEF T!Next, T!Ends
<1>9. ASSUME NEW c \in Channels, PageSend(c) PROVE T!Next
  <2>1. T!Send(c, "page")
    BY <1>9 DEF PageSend, T!Send, T!EndOf
  <2> QED
    BY <2>1 DEF T!Next, T!Ends
<1>10. ASSUME NEW c \in Channels, DaemonCloses(c) PROVE T!Next
  <2>1. \A d \in Channels : daemon'[d] = daemon[d] \/ <<daemon[d], daemon'[d]>> = <<"open", "closed">>
    BY <1>10 DEF DaemonCloses, Mine, TypeOK
  <2> QED
    BY <1>1, <1>10, <2>1 DEF DaemonCloses
<1>11. ASSUME NEW c \in Channels, PageDrops(c) PROVE T!Next
  BY <1>5, <1>11 DEF PageDrops
<1>12. ASSUME NEW c \in Channels, PageRead(c) PROVE T!Next
  <2>1. UNCHANGED <<daemon, sent>> /\ page[c] = "open" /\ toPage[c] # <<>>
    BY <1>12 DEF PageRead
  <2>2. CASE PageLeaves(c) /\ got' = got
    BY <1>5, <2>1, <2>2
  <2>3. CASE /\ Head(toPage[c]) # End
             /\ got' = [got EXCEPT ![c]["page"] = Append(@, Head(toPage[c]).n)]
             /\ page' = page
    <3> DEFINE L == Len(got[c]["page"])
    <3>1. toPage[c] \in Seq({End} \cup Packets(c))
      BY DEF PageQueues
    <3>2. Head(toPage[c]) \in {End} \cup Packets(c)
      BY <2>1, <3>1, SeqStep
    <3>3. IsData(Head(toPage[c]), c)
      BY <2>3, <3>2 DEF Packets, IsData
    <3>4. PICK mid \in 0..sent[c]["daemon"] : Carries(toPage[c], c, L, mid)
      BY <2>1 DEF FromDaemon
    <3>5. toPage[c] \in Seq(Message) /\ L \in Nat /\ sent[c]["daemon"] \in Nat
      BY DEF TypeOK
    <3>6. Head(toPage[c]) = Data(c, L + 1) /\ L + 1 <= mid
      BY <2>1, <3>3, <3>4, <3>5, CarriesTail
    <3>7. Head(toPage[c]).n = L + 1 /\ L < sent[c]["daemon"]
      BY <3>4, <3>5, <3>6, Made
    <3>8. got' = [got EXCEPT ![c]["page"] = Append(@, Len(@) + 1)]
      BY <2>3, <3>7
    <3>9. T!Take(c, "page")
      BY <2>1, <2>3, <3>7, <3>8 DEF T!Take, T!EndOf, T!Other
    <3> QED
      BY <3>9 DEF T!Next, T!Ends
  <2> QED
    BY <1>12, <2>2, <2>3 DEF PageRead
<1>13. CASE UNCHANGED <<page, daemon, sent, got>>
  BY <1>2, <1>13
<1> QED
  BY <1>4, <1>6, <1>7, <1>8, <1>9, <1>10, <1>11, <1>12, <1>13
  DEF Next, webSocketMessage, webSocketClose, Environment, vars,
      acceptConnector, forwardCiphertext, rejectCiphertext, browserEnd, connectorEnd,
      toBrowser, closeFromConnector, rejectConnector, DaemonGarbles, PageGarbles

\* The relay implements the tunnel: whatever connects, leaves, breaks or is lost,
\* each end takes the other's packets one by one, in order, none skipped, none
\* repeated, none of another channel; no end opens twice.
THEOREM RelayTunnel == Spec => TunnelSpec
<1>1. Init => T!Init
  BY DEF Init, T!Init, T!Ends
<1>2. RelayInv /\ [Next]_vars => [T!Next]_(T!vars)
  BY TunnelStep
<1> QED
  BY <1>1, <1>2, RelayInvariant, PTL DEF Spec, TunnelSpec, T!Spec
================================================================================
