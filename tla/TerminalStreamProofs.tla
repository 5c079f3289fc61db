-------------------------- MODULE TerminalStreamProofs -------------------------
(***************************************************************************)
(* Proofs about the terminal stream: what is on the screen, what xterm has *)
(* not parsed, what is on the wire and what the daemon has queued are one  *)
(* stream of chunks, with gaps only where publish dropped one.             *)
(***************************************************************************)
EXTENDS TerminalStream, TLAPS

--------------------------------------------------------------------------------
(* Streams *)

Chunks == 1..MaxOut

\* s holds the chunks after a up to b, in order, except some of those in D.
Covers(s, a, b, D) ==
  /\ a <= b
  /\ \A i \in 1..Len(s) : s[i] \in (a + 1)..b
  /\ \A i, j \in 1..Len(s) : i < j => s[i] < s[j]
  /\ \A n \in (a + 1)..b : n \in D \/ \E i \in 1..Len(s) : s[i] = n

\* The chunks a message, or a write, carries.
Payload(x) == IF "data" \in DOMAIN x THEN x.data ELSE <<>>

\* x carries the chunks after a up to b.
Carries(x, a, b, D) ==
  /\ Covers(Payload(x), a, b, D)
  /\ Payload(x) = <<>> => a = b

\* The entries of Q carry the chunks after a up to b, one entry after the other;
\* f tells how far each of them gets.
Chain(Q, a, b, D) ==
  \E f \in [0..Len(Q) -> Nat] :
    /\ f[0] = a /\ f[Len(Q)] = b
    /\ \A i \in 1..Len(Q) : Carries(Q[i], f[i - 1], f[i], D)

Message == {Start, Finish, Status} \cup [type : {"bytes"}, data : Seq(Chunks)]
Write == [data : Seq(Chunks), snapshotOf : Nat]

--------------------------------------------------------------------------------
(* The inductive invariant *)

\* What the sequences hold; a new connection has a new reconciler.
StreamTypes ==
  /\ produced \in 0..MaxOut /\ cur \in 0..MaxConns
  /\ sub \in Seq(Chunks) /\ frame \in Seq(Chunks) /\ screen \in Seq(Chunks)
  /\ wire \in Seq(Message)
  /\ writes \in Seq(Write)
  /\ conn = "connecting" => phase = "awaiting"

\* What the page will be sent on this connection continues after p.
Incoming(p) ==
  \E q \in Nat :
    /\ Chain(wire, p, q, dropped)
    /\ serving => Covers(sub, q, produced, dropped)

\* The screen, what xterm has still to parse and, once the snapshot of this
\* connection is applied, what is still to come are one stream; before that, what
\* is to come, behind the part of the snapshot in the frame, is another one.
OneStream ==
  \E a, b, c \in Nat :
    /\ Covers(screen, a, b, dropped)
    /\ Chain(writes, b, c, dropped)
    /\ phase = "live" => Incoming(c)
    /\ phase = "snapshot" =>
         \E o, p \in Nat : Covers(frame, o, p, dropped) /\ Incoming(p)
    /\ phase = "awaiting" => \E p \in Nat : Incoming(p)

StreamInv == StreamTypes /\ OneStream

--------------------------------------------------------------------------------
(* Facts about streams *)

LEMMA Bounds == MaxOut \in Nat /\ MaxConns \in Nat \ {0} /\ MaxDrops \in Nat
                /\ Scrollback \in Nat \ {0} /\ QueueMax \in Nat \ {0}
BY StreamAssumption

LEMMA WiderSeq ==
  ASSUME NEW S, NEW T, S \subseteq T, NEW s \in Seq(S)
  PROVE  s \in Seq(T)
<1>1. Len(s) \in Nat /\ s \in [1..Len(s) -> S]
  OBVIOUS
<1>2. s \in [1..Len(s) -> T]
  BY <1>1
<1> QED
  BY <1>1, <1>2

LEMMA CoversEmpty ==
  ASSUME NEW a \in Nat, NEW D
  PROVE  Covers(<<>>, a, a, D)
BY DEF Covers

\* A stream and its continuation.
LEMMA CoversConcat ==
  ASSUME NEW s \in Seq(Nat), NEW t \in Seq(Nat), NEW a \in Nat, NEW b \in Nat, NEW c \in Nat,
         NEW D, Covers(s, a, b, D), Covers(t, b, c, D)
  PROVE  Covers(s \o t, a, c, D)
<1> DEFINE r == s \o t
<1>1. Len(r) = Len(s) + Len(t) /\ Len(s) \in Nat /\ Len(t) \in Nat
  OBVIOUS
<1>2. \A i \in 1..Len(s) : r[i] = s[i] /\ i \in 1..Len(r)
  BY <1>1
<1>3. \A i \in 1..Len(t) : r[Len(s) + i] = t[i] /\ Len(s) + i \in 1..Len(r)
  BY <1>1
<1>4. \A i \in 1..Len(r) : i \in 1..Len(s) \/ (i - Len(s) \in 1..Len(t) /\ i = Len(s) + (i - Len(s)))
  BY <1>1
<1> HIDE DEF r
<1>5. \A i \in 1..Len(s) : s[i] \in (a + 1)..b
  BY DEF Covers
<1>6. \A i \in 1..Len(t) : t[i] \in (b + 1)..c
  BY DEF Covers
<1>7. \A i \in 1..Len(r) : r[i] \in (a + 1)..c
  <2>1. TAKE i \in 1..Len(r)
  <2>2. CASE i \in 1..Len(s)
    BY <1>2, <1>5, <2>2 DEF Covers
  <2>3. CASE i - Len(s) \in 1..Len(t) /\ i = Len(s) + (i - Len(s))
    <3>1. r[i] = t[i - Len(s)]
      BY <1>3, <2>3
    <3> QED
      BY <1>6, <2>3, <3>1 DEF Covers
  <2> QED
    BY <1>4, <2>2, <2>3
<1>8. \A i, j \in 1..Len(r) : i < j => r[i] < r[j]
  <2>1. SUFFICES ASSUME NEW i \in 1..Len(r), NEW j \in 1..Len(r), i < j PROVE r[i] < r[j]
    OBVIOUS
  <2>2. CASE j \in 1..Len(s)
    <3>1. i \in 1..Len(s)
      BY <2>1, <2>2
    <3> QED
      BY <1>2, <2>1, <2>2, <3>1 DEF Covers
  <2>3. CASE i \in 1..Len(s) /\ j - Len(s) \in 1..Len(t)
    <3>1. r[i] = s[i] /\ r[j] = t[j - Len(s)]
      BY <1>2, <1>3, <1>4, <2>3
    <3>2. s[i] \in (a + 1)..b /\ t[j - Len(s)] \in (b + 1)..c
      BY <1>5, <1>6, <2>3
    <3> QED
      BY <3>1, <3>2
  <2>4. CASE i - Len(s) \in 1..Len(t) /\ j - Len(s) \in 1..Len(t)
    <3>1. i = Len(s) + (i - Len(s)) /\ j = Len(s) + (j - Len(s)) /\ i - Len(s) < j - Len(s)
      BY <1>1, <2>1
    <3>2. r[i] = t[i - Len(s)] /\ r[j] = t[j - Len(s)]
      BY <1>3, <2>4, <3>1
    <3> QED
      BY <2>4, <3>1, <3>2 DEF Covers
  <2> QED
    BY <1>1, <1>4, <2>1, <2>2, <2>3, <2>4
<1>9. \A n \in (a + 1)..c : n \in D \/ \E i \in 1..Len(r) : r[i] = n
  <2>1. TAKE n \in (a + 1)..c
  <2>2. CASE n \in (a + 1)..b
    BY <1>2, <2>2 DEF Covers
  <2>3. CASE n \in (b + 1)..c
    BY <1>3, <2>3 DEF Covers
  <2> QED
    BY <2>1, <2>2, <2>3
<1>10. a <= c
  BY DEF Covers
<1> QED
  BY <1>7, <1>8, <1>9, <1>10 DEF Covers, r

LEMMA CoversMore ==
  ASSUME NEW s, NEW a, NEW b, NEW D, NEW E, D \subseteq E, Covers(s, a, b, D)
  PROVE  Covers(s, a, b, E)
BY DEF Covers

\* The next chunk alone.
LEMMA CoversOne ==
  ASSUME NEW a \in Nat, NEW b \in Nat, NEW D, a < b, \A n \in (a + 1)..(b - 1) : n \in D
  PROVE  Covers(<<b>>, a, b, D)
BY DEF Covers

\* The next chunk is queued, or dropped.
LEMMA CoversNext ==
  ASSUME NEW s \in Seq(Nat), NEW a \in Nat, NEW b \in Nat, NEW D, Covers(s, a, b, D)
  PROVE  /\ Covers(Append(s, b + 1), a, b + 1, D)
         /\ Covers(s, a, b + 1, D \cup {b + 1})
<1>1. Covers(<<b + 1>>, b, b + 1, D)
  BY CoversOne
<1>2. Covers(s \o <<b + 1>>, a, b + 1, D)
  <2>1. <<b + 1>> \in Seq(Nat) /\ b + 1 \in Nat
    OBVIOUS
  <2> QED
    BY <1>1, <2>1, CoversConcat
<1>3. s \o <<b + 1>> = Append(s, b + 1)
  OBVIOUS
<1>4. Covers(s, a, b + 1, D \cup {b + 1})
  BY DEF Covers
<1> QED
  BY <1>2, <1>3, <1>4

\* The first chunk is taken.
LEMMA CoversHead ==
  ASSUME NEW s \in Seq(Nat), s # <<>>, NEW a \in Nat, NEW b \in Nat, NEW D, Covers(s, a, b, D)
  PROVE  /\ Head(s) \in Nat
         /\ Covers(<<Head(s)>>, a, Head(s), D)
         /\ Covers(Tail(s), Head(s), b, D)
<1> DEFINE h == Head(s)
           r == Tail(s)
<1>1. h = s[1] /\ Len(s) \in Nat \ {0} /\ Len(r) = Len(s) - 1 /\ h \in Nat
  OBVIOUS
<1>2. \A i \in 1..Len(r) : r[i] = s[i + 1] /\ i + 1 \in 1..Len(s) /\ 1 < i + 1
  BY <1>1
<1>3. h \in (a + 1)..b /\ a < h /\ h <= b
  BY <1>1 DEF Covers
<1>4. \A i \in 2..Len(s) : s[i] > h
  BY <1>1 DEF Covers
<1>5. \A n \in (a + 1)..(h - 1) : n \in D
  <2>1. TAKE n \in (a + 1)..(h - 1)
  <2>2. n \in (a + 1)..b /\ n < h
    BY <1>3
  <2>3. \A i \in 1..Len(s) : s[i] # n
    <3>1. TAKE i \in 1..Len(s)
    <3>2. CASE i = 1
      BY <1>1, <2>2, <3>2
    <3>3. CASE i # 1
      BY <1>4, <1>1, <1>3, <2>2, <3>3 DEF Covers
    <3> QED
      BY <3>2, <3>3
  <2> QED
    BY <2>2, <2>3 DEF Covers
<1>6. Covers(<<h>>, a, h, D)
  BY <1>1, <1>3, <1>5, CoversOne
<1> HIDE DEF h, r
<1>7. \A i \in 1..Len(r) : r[i] \in (h + 1)..b
  <2>1. TAKE i \in 1..Len(r)
  <2>2. s[i + 1] \in (a + 1)..b /\ s[i + 1] > h
    BY <1>1, <1>2, <1>4 DEF Covers
  <2> QED
    BY <1>1, <1>2, <2>2
<1>8. \A i, j \in 1..Len(r) : i < j => r[i] < r[j]
  <2>1. SUFFICES ASSUME NEW i \in 1..Len(r), NEW j \in 1..Len(r), i < j PROVE r[i] < r[j]
    OBVIOUS
  <2>2. r[i] = s[i + 1] /\ r[j] = s[j + 1] /\ i + 1 \in 1..Len(s) /\ j + 1 \in 1..Len(s) /\ i + 1 < j + 1
    BY <1>1, <1>2, <2>1
  <2> QED
    BY <2>2 DEF Covers
<1>9. \A n \in (h + 1)..b : n \in D \/ \E i \in 1..Len(r) : r[i] = n
  <2>1. SUFFICES ASSUME NEW n \in (h + 1)..b, n \notin D PROVE \E i \in 1..Len(r) : r[i] = n
    OBVIOUS
  <2>2. PICK i \in 1..Len(s) : s[i] = n
    BY <1>1, <1>3, <2>1 DEF Covers
  <2>3. i # 1
    BY <1>1, <2>1, <2>2
  <2>4. i - 1 \in 1..Len(r) /\ r[i - 1] = s[i]
    <3> DEFINE k == i - 1
    <3>1. k \in 1..Len(r) /\ k + 1 = i
      BY <1>1, <2>3
    <3> HIDE DEF k
    <3>2. r[k] = s[k + 1]
      BY <1>2, <3>1
    <3> QED
      BY <3>1, <3>2 DEF k
  <2> QED
    BY <2>2, <2>4
<1> QED
  BY <1>1, <1>3, <1>6, <1>7, <1>8, <1>9 DEF Covers, h, r

\* The chunks from i to j.
LEMMA CoversRun ==
  ASSUME NEW i \in Nat \ {0}, NEW j \in Nat, i <= j + 1, NEW D
  PROVE  Covers(Run(i, j), i - 1, j, D) /\ Run(i, j) \in Seq(i..j)
<1> DEFINE m == IF j >= i THEN j - i + 1 ELSE 0
           r == Run(i, j)
<1>1. m \in Nat /\ m = j - i + 1
  OBVIOUS
<1>2. r = [k \in 1..m |-> i + k - 1]
  BY DEF Run
<1> HIDE DEF m, r
<1>3. \A k \in 1..m : i + k - 1 \in i..j
  BY <1>1
<1>4. r \in Seq(i..j) /\ Len(r) = m /\ \A k \in 1..m : r[k] = i + k - 1
  BY <1>1, <1>2, <1>3
<1>5. \A n \in ((i - 1) + 1)..j : \E k \in 1..m : r[k] = n
  <2>1. TAKE n \in ((i - 1) + 1)..j
  <2>2. n - i + 1 \in 1..m /\ r[n - i + 1] = n
    BY <1>1, <1>4
  <2> QED
    BY <2>2
<1>6. \A k \in 1..m : r[k] \in ((i - 1) + 1)..j
  BY <1>3, <1>4
<1>7. \A k, l \in 1..m : k < l => r[k] < r[l]
  BY <1>4
<1> QED
  BY <1>4, <1>5, <1>6, <1>7 DEF Covers, r

\* What messages and writes carry.
LEMMA Payloads ==
  /\ Payload(Start) = <<>> /\ Payload(Finish) = <<>> /\ Payload(Status) = <<>>
  /\ \A s : Payload(Bytes(s)) = s
  /\ \A w \in Write : Payload(w) = w.data
  /\ \A m \in Message : m.type = "bytes" => Payload(m) = m.data /\ m.data \in Seq(Chunks)
  /\ \A m \in Message : m.type # "bytes" => Payload(m) = <<>>
<1>1. /\ DOMAIN Start = {"type"} /\ DOMAIN Finish = {"type"} /\ DOMAIN Status = {"type"}
      /\ \A s : DOMAIN Bytes(s) = {"type", "data"} /\ Bytes(s).data = s
  BY DEF Bytes, Start, Finish, Status
<1>2. \A w \in Write : DOMAIN w = {"data", "snapshotOf"}
  BY DEF Write
<1>3. \A m \in Message : m.type = "bytes" => DOMAIN m = {"type", "data"} /\ m.data \in Seq(Chunks)
  BY DEF Message, Start, Finish, Status
<1>4. \A m \in Message : m.type # "bytes" => m \in {Start, Finish, Status}
  BY DEF Message
<1> QED
  BY <1>1, <1>2, <1>3, <1>4 DEF Payload

LEMMA ChainEmpty ==
  ASSUME NEW a \in Nat, NEW D
  PROVE  Chain(<<>>, a, a, D)
<1> DEFINE f == [i \in 0..Len(<<>>) |-> a]
<1>1. f \in [0..Len(<<>>) -> Nat] /\ f[0] = a /\ f[Len(<<>>)] = a
  OBVIOUS
<1>2. \A i \in 1..Len(<<>>) : Carries(<<>>[i], f[i - 1], f[i], D)
  OBVIOUS
<1> QED
  BY <1>1, <1>2 DEF Chain

\* One more entry at the end.
LEMMA ChainAppend ==
  ASSUME NEW S, NEW Q \in Seq(S), NEW x \in S, NEW a \in Nat, NEW b \in Nat, NEW c \in Nat, NEW D,
         Chain(Q, a, b, D), Carries(x, b, c, D)
  PROVE  Chain(Append(Q, x), a, c, D)
<1> DEFINE R == Append(Q, x)
           n == Len(Q)
<1>1. PICK f \in [0..n -> Nat] :
        /\ f[0] = a /\ f[n] = b
        /\ \A i \in 1..n : Carries(Q[i], f[i - 1], f[i], D)
  BY DEF Chain
<1> DEFINE g == [i \in 0..Len(R) |-> IF i <= n THEN f[i] ELSE c]
<1>2. n \in Nat /\ Len(R) = n + 1 /\ R[n + 1] = x /\ \A i \in 1..n : R[i] = Q[i]
  OBVIOUS
<1> HIDE DEF R, n
<1>3. /\ g \in [0..Len(R) -> Nat]
      /\ g[0] = a /\ g[Len(R)] = c /\ g[n] = b
      /\ \A i \in 1..n : g[i] = f[i] /\ g[i - 1] = f[i - 1]
  BY <1>1, <1>2
<1> HIDE DEF g
<1>4. \A i \in 1..Len(R) : Carries(R[i], g[i - 1], g[i], D)
  <2>1. TAKE i \in 1..Len(R)
  <2>2. CASE i \in 1..n
    BY <1>1, <1>2, <1>3, <2>2
  <2>3. CASE i = n + 1
    <3>1. i - 1 = n
      BY <1>2, <2>3
    <3> QED
      BY <1>2, <1>3, <2>3, <3>1
  <2> QED
    BY <1>2, <2>2, <2>3
<1>5. Chain(R, a, c, D)
  BY <1>3, <1>4 DEF Chain
<1> QED
  BY <1>5 DEF R

\* The first entry is taken.
LEMMA ChainTail ==
  ASSUME NEW S, NEW Q \in Seq(S), Q # <<>>, NEW a \in Nat, NEW c \in Nat, NEW D, Chain(Q, a, c, D)
  PROVE  \E b \in Nat : Carries(Head(Q), a, b, D) /\ Chain(Tail(Q), b, c, D)
<1> DEFINE R == Tail(Q)
           n == Len(Q)
<1>1. PICK f \in [0..n -> Nat] :
        /\ f[0] = a /\ f[n] = c
        /\ \A i \in 1..n : Carries(Q[i], f[i - 1], f[i], D)
  BY DEF Chain
<1> DEFINE g == [i \in 0..Len(R) |-> f[i + 1]]
<1>2. n \in Nat \ {0} /\ Len(R) = n - 1 /\ Head(Q) = Q[1] /\ \A i \in 1..Len(R) : R[i] = Q[i + 1]
  OBVIOUS
<1> HIDE DEF R, n
<1>3. /\ g \in [0..Len(R) -> Nat]
      /\ g[0] = f[1] /\ g[Len(R)] = c /\ f[1] \in Nat
      /\ \A i \in 1..Len(R) : g[i] = f[i + 1] /\ g[i - 1] = f[i] /\ i + 1 \in 1..n /\ (i + 1) - 1 = i
  BY <1>1, <1>2
<1> HIDE DEF g
<1>4. \A i \in 1..Len(R) : Carries(R[i], g[i - 1], g[i], D)
  <2>1. TAKE i \in 1..Len(R)
  <2>2. Carries(Q[i + 1], f[(i + 1) - 1], f[i + 1], D)
    BY <1>1, <1>3
  <2> QED
    BY <1>2, <1>3, <2>2
<1>5. Chain(R, f[1], c, D)
  BY <1>3, <1>4 DEF Chain
<1>6. Carries(Head(Q), a, f[1], D)
  <2>1. 1 \in 1..n /\ 1 - 1 = 0
    BY <1>2
  <2>2. Carries(Q[1], f[1 - 1], f[1], D)
    BY <1>1, <2>1
  <2> QED
    BY <1>1, <1>2, <2>1, <2>2
<1> QED
  BY <1>3, <1>5, <1>6 DEF R

LEMMA ChainMore ==
  ASSUME NEW Q, NEW a, NEW b, NEW D, NEW E, D \subseteq E, Chain(Q, a, b, D)
  PROVE  Chain(Q, a, b, E)
<1>1. \A x, i, j : Carries(x, i, j, D) => Carries(x, i, j, E)
  BY CoversMore DEF Carries
<1> QED
  BY <1>1 DEF Chain

\* A message or a write that says nothing, and one that carries a stream.
LEMMA CarriesNothing ==
  ASSUME NEW x, NEW a \in Nat, NEW D, Payload(x) = <<>>
  PROVE  Carries(x, a, a, D)
BY CoversEmpty DEF Carries

LEMMA ChainOne ==
  ASSUME NEW S, NEW x \in S, NEW a \in Nat, NEW b \in Nat, NEW D, Carries(x, a, b, D)
  PROVE  Chain(<<x>>, a, b, D)
<1>1. Chain(Append(<<>>, x), a, b, D)
  <2>1. <<>> \in Seq(S)
    OBVIOUS
  <2> QED
    BY <2>1, ChainEmpty, ChainAppend
<1>2. Append(<<>>, x) = <<x>>
  OBVIOUS
<1> QED
  BY <1>1, <1>2

--------------------------------------------------------------------------------
(* Types *)

\* The shapes of the daemon's messages.
LEMMA MessageShapes ==
  /\ Start \in Message /\ Finish \in Message /\ Status \in Message
  /\ \A s \in Seq(Chunks) : Bytes(s) \in Message
BY DEF Message, Bytes

\* What the daemon retains.
LEMMA RetainedRun ==
  ASSUME produced \in 0..MaxOut, NEW D
  PROVE  /\ Retained \in Seq(Chunks)
         /\ \E o \in Nat : Covers(Retained, o, produced, D)
         /\ produced > 0 => Retained # <<>>
<1> DEFINE i == IF produced > Scrollback THEN produced - Scrollback + 1 ELSE 1
<1>1. i \in Nat \ {0} /\ i <= produced + 1 /\ i - 1 \in Nat /\ produced \in Nat
      /\ (produced > 0 => i <= produced)
  BY Bounds
<1>2. Retained = Run(i, produced)
  BY DEF Retained
<1> HIDE DEF i
<1>3. Covers(Run(i, produced), i - 1, produced, D) /\ Run(i, produced) \in Seq(i..produced)
  BY <1>1, CoversRun
<1>4. i..produced \subseteq Chunks
  BY <1>1, Bounds DEF Chunks
<1>5. Retained \in Seq(Chunks)
  BY <1>2, <1>3, <1>4, WiderSeq
<1>6. ASSUME produced > 0 PROVE Retained # <<>>
  <2>1. Len(Run(i, produced)) = produced - i + 1
    BY <1>1, <1>6 DEF Run
  <2>2. Len(Run(i, produced)) # 0
    BY <1>1, <1>6, <2>1
  <2> QED
    BY <1>2, <2>2
<1> QED
  BY <1>1, <1>2, <1>3, <1>5, <1>6

\* Every step keeps the types.
LEMMA TypesKept == StreamTypes /\ [Next]_vars => StreamTypes'
<1> SUFFICES ASSUME StreamTypes, [Next]_vars PROVE StreamTypes'
  OBVIOUS
<1> USE Bounds DEF StreamTypes
<1>1. CASE publish
  <2>1. produced + 1 \in Chunks /\ produced + 1 \in 0..MaxOut
    BY <1>1 DEF publish, Chunks
  <2>2. sub' \in Seq(Chunks)
    <3>1. CASE sub' = sub
      BY <3>1
    <3>2. CASE sub' = Append(sub, produced + 1)
      BY <2>1, <3>2
    <3> QED
      BY <1>1, <3>1, <3>2 DEF publish
  <2> QED
    BY <1>1, <2>1, <2>2 DEF publish, connVars, xtermVars
<1>2. CASE Exit
  BY <1>2 DEF Exit, connVars, xtermVars
<1>3. CASE Forward
  <2>1. wire' \in Seq(Message)
    <3>1. CASE sub # <<>> /\ wire' = Append(wire, Bytes(<<Head(sub)>>))
      <4>1. <<Head(sub)>> \in Seq(Chunks)
        BY <3>1
      <4>2. Bytes(<<Head(sub)>>) \in Message
        BY <4>1, MessageShapes
      <4> QED
        BY <3>1, <4>2
    <3>2. CASE wire' = Append(wire, Status)
      BY <3>2, MessageShapes
    <3> QED
      BY <1>3, <3>1, <3>2 DEF Forward
  <2>2. sub' \in Seq(Chunks)
    <3>1. CASE sub # <<>> /\ sub' = Tail(sub)
      BY <3>1
    <3>2. CASE sub' = <<>>
      BY <3>2
    <3> QED
      BY <1>3, <3>1, <3>2 DEF Forward
  <2>3. UNCHANGED <<produced, cur, conn, phase, frame, screen, writes>>
    BY <1>3 DEF Forward, connVars, xtermVars
  <2> QED
    BY <2>1, <2>2, <2>3
<1>4. ASSUME NEW o, connectTerminal(o) PROVE StreamTypes'
  <2>1. CASE bridge
    BY <1>4, <2>1 DEF connectTerminal, xtermVars
  <2>2. CASE ~bridge
    BY <1>4, <2>2 DEF connectTerminal, xtermVars
  <2> QED
    BY <2>1, <2>2
<1>5. CASE Reconnect
  BY <1>4, <1>5 DEF Reconnect
<1>6. CASE Accept
  <2>1. Retained \in Seq(Chunks)
    BY RetainedRun
  <2>2. Bytes(Retained) \in Message
    BY <2>1, MessageShapes
  <2>3. wire' \in Seq(Message)
    <3> HIDE DEF StreamTypes
    <3> DEFINE A == IF framed THEN <<Start>> ELSE <<>>
               B == IF produced > 0 THEN <<Bytes(Retained)>> ELSE <<>>
               C == IF framed THEN <<Finish>> ELSE <<>>
               E == IF alive THEN <<>> ELSE <<Status>>
    <3>1. A \in Seq(Message) /\ B \in Seq(Message) /\ C \in Seq(Message) /\ E \in Seq(Message)
      BY <2>2, MessageShapes
    <3>2. wire' = A \o B \o C \o E
      BY <1>6 DEF Accept
    <3> HIDE DEF A, B, C, E
    <3> QED
      BY <3>1, <3>2
  <2> QED
    BY <1>6, <2>3 DEF Accept, xtermVars
<1>7. CASE LinkLost
  BY <1>7 DEF LinkLost, LinkClosed, xtermVars
<1>8. CASE HandlerDone
  BY <1>8 DEF HandlerDone, LinkClosed, xtermVars
<1>9. CASE BridgeLost
  <2>1. CASE conn \in {"connecting", "open"}
    BY <1>9, <2>1 DEF BridgeLost, LinkClosed, xtermVars
  <2>2. CASE conn \notin {"connecting", "open"}
    BY <1>9, <2>2 DEF BridgeLost, xtermVars
  <2> QED
    BY <2>1, <2>2
<1>10. CASE BridgeBack
  BY <1>10 DEF BridgeBack, daemonVars, connVars, xtermVars
<1>11. CASE RetryFires
  <2>1. CASE connectTerminal(retry)
    BY <1>4, <2>1
  <2>2. CASE ~connectTerminal(retry)
    BY <1>11, <2>2 DEF RetryFires, daemonVars, connVars, xtermVars
  <2> QED
    BY <2>1, <2>2
<1>12. ASSUME PageClosed PROVE StreamTypes'
  BY <1>12 DEF PageClosed
<1>12a. CASE closeConnection
  BY <1>12, <1>12a DEF closeConnection
<1>12b. CASE Resumed
  <2>1. CASE connectTerminal(objects')
    BY <1>4, <2>1
  <2>2. CASE PageClosed
    BY <1>12, <2>2
  <2>3. CASE UNCHANGED <<daemonVars, wire, connVars, xtermVars>>
    BY <2>3 DEF daemonVars, connVars, xtermVars
  <2> QED
    BY <1>12b, <2>1, <2>2, <2>3 DEF Resumed
<1>12c. CASE Submit
  BY <1>12c DEF Submit, daemonVars, connVars, xtermVars
<1>13. CASE received
  <2>1. Head(wire) \in Message /\ wire' \in Seq(Message)
    BY <1>13 DEF received
  <2>2. ASSUME Head(wire).type = "bytes" PROVE Head(wire).data \in Seq(Chunks)
    BY <2>1, <2>2, Payloads
  <2>3. \A d \in Seq(Chunks) : [data |-> d, snapshotOf |-> cur] \in Write /\ [data |-> d, snapshotOf |-> 0] \in Write
    BY DEF Write
  <2>4. \A d \in Seq(Chunks) : applySnapshot(d) =>
          writes' \in Seq(Write) /\ screen' \in Seq(Chunks)
    <3>1. SUFFICES ASSUME NEW d \in Seq(Chunks), applySnapshot(d)
                   PROVE  writes' \in Seq(Write) /\ screen' \in Seq(Chunks)
      OBVIOUS
    <3>2. screen' = <<>> /\ (writes' = <<>> \/ writes' = <<[data |-> d, snapshotOf |-> cur]>>)
      BY <3>1 DEF applySnapshot, reset
    <3>3. \A w \in Write : <<w>> \in Seq(Write)
      OBVIOUS
    <3>4. <<[data |-> d, snapshotOf |-> cur]>> \in Seq(Write)
      BY <2>3, <3>3
    <3>5. screen' \in Seq(Chunks) /\ <<>> \in Seq(Write)
      BY <3>2
    <3>6. CASE writes' = <<>>
      BY <3>5, <3>6
    <3>7. CASE writes' = <<[data |-> d, snapshotOf |-> cur]>>
      BY <3>4, <3>5, <3>7
    <3> QED
      BY <3>2, <3>6, <3>7
  <2>5. writes' \in Seq(Write) /\ screen' \in Seq(Chunks)
    <3> DEFINE m == Head(wire)
    <3>1. CASE UNCHANGED xtermVars
      BY <3>1 DEF xtermVars
    <3>2. CASE applySnapshot(frame)
      BY <2>4, <3>2
    <3>3. CASE m.type = "bytes" /\ applySnapshot(m.data)
      BY <2>2, <2>4, <3>3
    <3>4. CASE /\ m.type = "bytes" /\ UNCHANGED screen
               /\ writes' = Append(writes, [data |-> m.data, snapshotOf |-> 0])
      <4>1. [data |-> m.data, snapshotOf |-> 0] \in Write
        BY <2>2, <2>3, <3>4
      <4>2. \A w \in Write : Append(writes, w) \in Seq(Write)
        OBVIOUS
      <4> QED
        BY <3>4, <4>1, <4>2
    <3> QED
      BY <1>13, <3>1, <3>2, <3>3, <3>4 DEF received, NoSnapshot
  <2>6. frame' \in Seq(Chunks)
    <3> DEFINE m == Head(wire)
    <3>1. CASE m.type = "bytes" /\ frame' = frame \o m.data
      BY <2>2, <3>1
    <3>2. CASE frame' = <<>>
      BY <3>2
    <3>3. CASE frame' = frame
      BY <3>3
    <3> QED
      BY <1>13, <3>1, <3>2, <3>3 DEF received
  <2>7. UNCHANGED <<produced, sub, cur, conn>> /\ conn = "open"
    BY <1>13 DEF received, daemonVars
  <2> QED
    BY <2>1, <2>5, <2>6, <2>7
<1>14. CASE Parsed
  <2>1. UNCHANGED <<daemonVars, wire, connVars>>
    BY <1>14 DEF Parsed
  <2>2. CASE UNCHANGED <<writes, screen>>
    BY <2>1, <2>2 DEF daemonVars, connVars
  <2>3. CASE writes # <<>> /\ screen' = screen \o Head(writes).data /\ writes' = Tail(writes)
    <3>1. Head(writes) \in Write /\ writes' \in Seq(Write)
      BY <2>3
    <3>2. Head(writes).data \in Seq(Chunks)
      BY <3>1 DEF Write
    <3> QED
      BY <2>1, <2>3, <3>1, <3>2 DEF daemonVars, connVars
  <2> QED
    BY <1>14, <2>2, <2>3 DEF Parsed
<1>15. CASE Reply
  BY <1>15 DEF Reply, daemonVars, connVars, xtermVars
<1>16. CASE ReadyFires
  BY <1>16 DEF ReadyFires, daemonVars, connVars, xtermVars
<1>17. CASE UNCHANGED vars
  BY <1>17 DEF vars, daemonVars, connVars, xtermVars
<1> QED
  BY <1>1, <1>2, <1>3, <1>5, <1>6, <1>7, <1>8, <1>9, <1>10, <1>11, <1>12a, <1>12b, <1>12c,
     <1>13, <1>14, <1>15, <1>16, <1>17 DEF Next

--------------------------------------------------------------------------------
(* The one stream *)

\* A chunk sequence is a sequence of numbers, and so are the two that meet here.
LEMMA ChunkSeq == \A s \in Seq(Chunks) : s \in Seq(Nat)
<1>1. Chunks \subseteq Nat
  BY Bounds DEF Chunks
<1> QED
  BY <1>1, WiderSeq

\* A connection that is cut, or not yet accepted, sends nothing.
LEMMA Silence ==
  ASSUME serving' = FALSE, wire' = <<>>
  PROVE  \A p \in Nat : Incoming(p)'
<1>1. TAKE p \in Nat
<1>2. Chain(wire', p, p, dropped')
  BY ChainEmpty
<1> QED
  BY <1>2 DEF Incoming

\* Nothing of the stream changes.
LEMMA StreamSame ==
  ASSUME OneStream, UNCHANGED <<produced, sub, dropped, serving, wire, phase, frame, writes, screen>>
  PROVE  OneStream'
<1>1. \A p : Incoming(p)' <=> Incoming(p)
  BY DEF Incoming
<1> QED
  BY <1>1 DEF OneStream

\* The connection is cut, or replaced.
LEMMA StreamCut ==
  ASSUME OneStream, UNCHANGED <<dropped, writes, screen>>, serving' = FALSE, wire' = <<>>,
         UNCHANGED <<phase, frame>> \/ phase' = "awaiting"
  PROVE  OneStream'
<1>1. \A p \in Nat : Incoming(p)'
  BY Silence
<1>2. PICK a \in Nat, b \in Nat, c \in Nat :
        /\ Covers(screen, a, b, dropped)
        /\ Chain(writes, b, c, dropped)
        /\ phase = "snapshot" => \E o, p \in Nat : Covers(frame, o, p, dropped)
  BY DEF OneStream
<1>3. Covers(screen, a, b, dropped)' /\ Chain(writes, b, c, dropped)'
  BY <1>2
<1>4. phase' = "snapshot" => \E o, p \in Nat : Covers(frame', o, p, dropped') /\ Incoming(p)'
  <2>1. SUFFICES ASSUME phase' = "snapshot"
                 PROVE  \E o, p \in Nat : Covers(frame', o, p, dropped') /\ Incoming(p)'
    OBVIOUS
  <2>2. phase = "snapshot" /\ frame' = frame
    BY <2>1
  <2> QED
    BY <1>1, <1>2, <2>2
<1> QED
  BY <1>1, <1>3, <1>4 DEF OneStream

\* What comes next is taken off the wire.
LEMMA IncomingTail ==
  ASSUME StreamTypes, wire # <<>>, wire' = Tail(wire), UNCHANGED <<produced, sub, dropped, serving>>,
         NEW p \in Nat, Incoming(p)
  PROVE  \E q \in Nat : Carries(Head(wire), p, q, dropped) /\ Incoming(q)'
<1>1. PICK e \in Nat : Chain(wire, p, e, dropped) /\ (serving => Covers(sub, e, produced, dropped))
  BY DEF Incoming
<1>2. wire \in Seq(Message)
  BY DEF StreamTypes
<1>3. PICK q \in Nat : Carries(Head(wire), p, q, dropped) /\ Chain(Tail(wire), q, e, dropped)
  BY <1>1, <1>2, ChainTail
<1> QED
  BY <1>1, <1>3 DEF Incoming

\* A snapshot d that ends at q is swapped in.
LEMMA SnapshotIn ==
  ASSUME StreamTypes, NEW d \in Seq(Chunks), NEW o \in Nat, NEW q \in Nat,
         Covers(d, o, q, dropped), applySnapshot(d), UNCHANGED dropped,
         phase' = "live", Incoming(q)'
  PROVE  OneStream'
<1>1. CASE d = <<>>
  <2>1. screen' = <<>> /\ writes' = <<>>
    BY <1>1 DEF applySnapshot, reset
  <2>2. Covers(screen', q, q, dropped') /\ Chain(writes', q, q, dropped')
    BY <2>1, CoversEmpty, ChainEmpty
  <2> QED
    BY <2>2 DEF OneStream
<1>2. CASE d # <<>>
  <2> DEFINE w == [data |-> d, snapshotOf |-> cur]
  <2>1. screen' = <<>> /\ writes' = <<w>>
    BY <1>2 DEF applySnapshot, reset
  <2>2. w \in Write
    BY Bounds DEF Write, StreamTypes
  <2>3. Payload(w) = d
    BY <2>2, Payloads
  <2> HIDE DEF w
  <2>4. Carries(w, o, q, dropped')
    BY <1>2, <2>3 DEF Carries
  <2>5. Chain(writes', o, q, dropped')
    BY <2>1, <2>2, <2>4, ChainOne
  <2>6. Covers(screen', o, o, dropped')
    BY <2>1, CoversEmpty
  <2> QED
    BY <2>5, <2>6 DEF OneStream
<1> QED
  BY <1>1, <1>2

\* Output is printed.
LEMMA PublishStep ==
  ASSUME StreamTypes, OneStream, publish
  PROVE  OneStream'
<1>1. dropped \subseteq dropped' /\ UNCHANGED <<serving, wire, phase, frame, writes, screen>>
  BY DEF publish, connVars, xtermVars
<1>2. ASSUME NEW p \in Nat, Incoming(p) PROVE Incoming(p)'
  <2>1. PICK e \in Nat : Chain(wire, p, e, dropped) /\ (serving => Covers(sub, e, produced, dropped))
    BY <1>2 DEF Incoming
  <2>2. Chain(wire, p, e, dropped')
    BY <1>1, <2>1, ChainMore
  <2>3. ASSUME serving PROVE Covers(sub', e, produced', dropped')
    <3>1. sub \in Seq(Nat) /\ produced \in Nat
      BY ChunkSeq, Bounds DEF StreamTypes
    <3>2. Covers(Append(sub, produced + 1), e, produced + 1, dropped)
          /\ Covers(sub, e, produced + 1, dropped \cup {produced + 1})
      BY <2>1, <2>3, <3>1, CoversNext
    <3>3. CASE sub' = Append(sub, produced + 1) /\ UNCHANGED dropped
      BY <3>2, <3>3 DEF publish
    <3>4. CASE dropped' = dropped \cup {produced + 1} /\ UNCHANGED sub
      BY <3>2, <3>4 DEF publish
    <3> QED
      BY <2>3, <3>3, <3>4 DEF publish
  <2> QED
    BY <1>1, <2>2, <2>3 DEF Incoming
<1>3. PICK a \in Nat, b \in Nat, c \in Nat :
        /\ Covers(screen, a, b, dropped)
        /\ Chain(writes, b, c, dropped)
        /\ phase = "live" => Incoming(c)
        /\ phase = "snapshot" =>
             \E o, p \in Nat : Covers(frame, o, p, dropped) /\ Incoming(p)
        /\ phase = "awaiting" => \E p \in Nat : Incoming(p)
  BY DEF OneStream
<1>4. Covers(screen, a, b, dropped)' /\ Chain(writes, b, c, dropped)'
  BY <1>1, <1>3, CoversMore, ChainMore
<1>5. \A o, p \in Nat : Covers(frame, o, p, dropped) => Covers(frame, o, p, dropped)'
  BY <1>1, CoversMore
<1> QED
  BY <1>1, <1>2, <1>3, <1>4, <1>5 DEF OneStream

\* The next update, or the end, is put on the wire.
LEMMA ForwardStep ==
  ASSUME StreamTypes, OneStream, Forward
  PROVE  OneStream'
<1>1. serving /\ UNCHANGED <<produced, dropped, phase, frame, writes, screen>>
  BY DEF Forward, connVars, xtermVars
<1>2. ASSUME NEW p \in Nat, Incoming(p) PROVE Incoming(p)'
  <2>1. PICK e \in Nat : Chain(wire, p, e, dropped) /\ Covers(sub, e, produced, dropped)
    BY <1>1, <1>2 DEF Incoming
  <2>2. CASE sub # <<>> /\ wire' = Append(wire, Bytes(<<Head(sub)>>)) /\ sub' = Tail(sub)
    <3> DEFINE x == Bytes(<<Head(sub)>>)
    <3>1. sub \in Seq(Nat) /\ produced \in Nat /\ wire \in Seq(Message) /\ sub \in Seq(Chunks)
      BY ChunkSeq, Bounds DEF StreamTypes
    <3>2. /\ Head(sub) \in Nat
          /\ Covers(<<Head(sub)>>, e, Head(sub), dropped)
          /\ Covers(Tail(sub), Head(sub), produced, dropped)
      BY <2>1, <2>2, <3>1, CoversHead
    <3>3. <<Head(sub)>> \in Seq(Chunks) /\ <<Head(sub)>> # <<>>
      BY <2>2, <3>1
    <3>4. x \in Message /\ Payload(x) = <<Head(sub)>>
      BY <3>3, MessageShapes, Payloads
    <3> HIDE DEF x
    <3>5. Carries(x, e, Head(sub), dropped)
      BY <3>2, <3>3, <3>4 DEF Carries
    <3>6. Chain(Append(wire, x), p, Head(sub), dropped)
      BY <2>1, <3>1, <3>2, <3>4, <3>5, ChainAppend
    <3>7. Chain(wire', p, Head(sub), dropped') /\ Covers(sub', Head(sub), produced', dropped')
      BY <1>1, <2>2, <3>2, <3>6 DEF x
    <3> QED
      BY <3>2, <3>7 DEF Incoming
  <2>3. CASE wire' = Append(wire, Status) /\ serving' = FALSE
    <3>1. Status \in Message /\ wire \in Seq(Message)
      BY MessageShapes DEF StreamTypes
    <3>2. Carries(Status, e, e, dropped)
      BY Payloads, CarriesNothing
    <3>3. Chain(wire', p, e, dropped')
      BY <1>1, <2>1, <2>3, <3>1, <3>2, ChainAppend
    <3> QED
      BY <2>3, <3>3 DEF Incoming
  <2> QED
    BY <2>2, <2>3 DEF Forward
<1> QED
  BY <1>1, <1>2 DEF OneStream

\* The daemon accepts: the snapshot it sends ends where the channel begins.
LEMMA AcceptStep ==
  ASSUME StreamTypes, OneStream, Accept
  PROVE  OneStream'
<1>1. /\ UNCHANGED <<produced, dropped, phase, frame, writes, screen>>
      /\ phase = "awaiting" /\ sub' = <<>>
  BY DEF Accept, StreamTypes, xtermVars
<1>2. produced \in Nat
  BY Bounds DEF StreamTypes
<1> DEFINE A == IF framed THEN <<Start>> ELSE <<>>
           B == IF produced > 0 THEN <<Bytes(Retained)>> ELSE <<>>
           C == IF framed THEN <<Finish>> ELSE <<>>
           E == IF alive THEN <<>> ELSE <<Status>>
<1>3. PICK o \in Nat : Covers(Retained, o, produced, dropped)
  BY RetainedRun DEF StreamTypes
<1>4. /\ Retained \in Seq(Chunks)
      /\ produced > 0 => Retained # <<>>
  BY RetainedRun DEF StreamTypes
<1>5. \E p \in Nat : Chain(A, p, p, dropped) /\ Chain(A \o B, p, produced, dropped)
  <2>1. \A p \in Nat : A \in Seq(Message) /\ Chain(A, p, p, dropped)
    <3>1. \A p \in Nat : Chain(<<Start>>, p, p, dropped)
      BY MessageShapes, Payloads, CarriesNothing, ChainOne
    <3>2. \A p \in Nat : Chain(<<>>, p, p, dropped)
      BY ChainEmpty
    <3> QED
      BY <3>1, <3>2, MessageShapes
  <2>2. CASE produced > 0
    <3> DEFINE x == Bytes(Retained)
    <3>1. x \in Message /\ Payload(x) = Retained
      BY <1>4, MessageShapes, Payloads
    <3> HIDE DEF x
    <3>2. Carries(x, o, produced, dropped)
      BY <1>3, <1>4, <2>2, <3>1 DEF Carries
    <3> HIDE DEF A
    <3>3. Chain(Append(A, x), o, produced, dropped)
      BY <1>2, <2>1, <3>1, <3>2, ChainAppend
    <3>4. A \o B = Append(A, x)
      BY <2>1, <2>2 DEF x
    <3> QED
      BY <2>1, <3>3, <3>4
  <2>3. CASE ~(produced > 0)
    <3> HIDE DEF A
    <3>1. A \o B = A
      BY <2>1, <2>3
    <3> QED
      BY <1>2, <2>1, <3>1
  <2> QED
    BY <2>2, <2>3
<1>6. PICK p \in Nat : Chain(A \o B, p, produced, dropped)
  BY <1>5
<1>7. A \o B \in Seq(Message) /\ A \o B \o C \in Seq(Message)
  <2>1. A \in Seq(Message) /\ C \in Seq(Message)
    BY MessageShapes
  <2>2. Bytes(Retained) \in Message
    BY <1>4, MessageShapes
  <2>3. B \in Seq(Message)
    BY <2>2
  <2> HIDE DEF A, B, C
  <2> QED
    BY <2>1, <2>3
<1>8. wire' = A \o B \o C \o E
  BY DEF Accept
<1> DEFINE F == A \o B
           G == F \o C
<1>9. Chain(G, p, produced, dropped)
  <2>0. F \in Seq(Message)
    BY <1>7
  <2> HIDE DEF F
  <2>1. CASE framed
    <3>1. G = Append(F, Finish)
      BY <2>0, <2>1
    <3>2. Carries(Finish, produced, produced, dropped)
      BY <1>2, Payloads, CarriesNothing
    <3> QED
      BY <1>2, <1>6, <1>7, <3>1, <3>2, MessageShapes, ChainAppend DEF F
  <2>2. CASE ~framed
    <3>1. G = F
      BY <2>0, <2>2
    <3> QED
      BY <1>6, <3>1 DEF F
  <2> QED
    BY <2>1, <2>2
<1>10. Chain(G \o E, p, produced, dropped)
  <2>0. G \in Seq(Message)
    BY <1>7
  <2> HIDE DEF G
  <2>1. CASE alive
    <3>1. G \o E = G
      BY <2>0, <2>1
    <3> QED
      BY <1>9, <3>1
  <2>2. CASE ~alive
    <3>1. G \o E = Append(G, Status)
      BY <2>0, <2>2
    <3>2. Carries(Status, produced, produced, dropped)
      BY <1>2, Payloads, CarriesNothing
    <3> QED
      BY <1>2, <1>9, <2>0, <3>1, <3>2, MessageShapes, ChainAppend
  <2> QED
    BY <2>1, <2>2
<1>11. Incoming(p)'
  <2>1. Chain(wire', p, produced, dropped')
    BY <1>1, <1>8, <1>10
  <2>2. Covers(sub', produced, produced', dropped')
    BY <1>1, <1>2, CoversEmpty
  <2> QED
    BY <1>2, <2>1, <2>2 DEF Incoming
<1> QED
  BY <1>1, <1>11 DEF OneStream

\* The next message reaches the reconciler.
LEMMA ReceivedStep ==
  ASSUME StreamTypes, OneStream, received
  PROVE  OneStream'
<1> DEFINE m == Head(wire)
<1>1. /\ wire # <<>> /\ wire' = Tail(wire) /\ wire \in Seq(Message) /\ m \in Message
      /\ UNCHANGED <<produced, sub, dropped, serving>>
  BY DEF received, StreamTypes, daemonVars
<1>2. PICK a \in Nat, b \in Nat, c \in Nat :
        /\ Covers(screen, a, b, dropped)
        /\ Chain(writes, b, c, dropped)
        /\ phase = "live" => Incoming(c)
        /\ phase = "snapshot" =>
             \E o, p \in Nat : Covers(frame, o, p, dropped) /\ Incoming(p)
        /\ phase = "awaiting" => \E p \in Nat : Incoming(p)
  BY DEF OneStream
<1>3. \A p \in Nat : Incoming(p) =>
        \E q \in Nat : Carries(m, p, q, dropped) /\ Incoming(q)'
  BY <1>1, IncomingTail
<1>4. m.type = "bytes" => Payload(m) = m.data /\ m.data \in Seq(Chunks)
  BY <1>1, Payloads
<1>5. m.type # "bytes" => Payload(m) = <<>>
  BY <1>1, Payloads
<1>6. \A p, q : Carries(m, p, q, dropped) /\ m.type # "bytes" => p = q
  BY <1>5 DEF Carries
<1>7. \A p, q : Carries(m, p, q, dropped) /\ m.type = "bytes" => Covers(m.data, p, q, dropped)
  BY <1>4 DEF Carries
<1> HIDE DEF m
<1>8. frame \in Seq(Chunks) /\ writes \in Seq(Write)
  BY DEF StreamTypes
<1>9. ASSUME UNCHANGED xtermVars
      PROVE  Covers(screen, a, b, dropped)' /\ Chain(writes, b, c, dropped)'
  BY <1>1, <1>2, <1>9 DEF xtermVars
<1>10. CASE m.type = "start" /\ phase = "awaiting" /\ phase' = "snapshot" /\ frame' = <<>>
            /\ UNCHANGED xtermVars
  <2>1. PICK q \in Nat : Incoming(q)'
    BY <1>2, <1>3, <1>10
  <2>2. Covers(frame', q, q, dropped')
    BY <1>10, CoversEmpty
  <2> QED
    BY <1>9, <1>10, <2>1, <2>2 DEF OneStream
<1>11. CASE m.type = "bytes" /\ phase = "snapshot" /\ frame' = frame \o m.data
            /\ UNCHANGED <<xtermVars, phase>>
  <2>1. PICK o \in Nat, p \in Nat : Covers(frame, o, p, dropped) /\ Incoming(p)
    BY <1>2, <1>11
  <2>2. PICK q \in Nat : Carries(m, p, q, dropped) /\ Incoming(q)'
    BY <1>3, <2>1
  <2>3. Covers(m.data, p, q, dropped)
    BY <1>7, <1>11, <2>2
  <2>4. frame \in Seq(Nat) /\ m.data \in Seq(Nat)
    BY <1>4, <1>8, <1>11, ChunkSeq
  <2>5. Covers(frame \o m.data, o, q, dropped)
    BY <2>1, <2>3, <2>4, CoversConcat
  <2>6. Covers(frame', o, q, dropped')
    BY <1>1, <1>11, <2>5
  <2> QED
    BY <1>9, <1>11, <2>2, <2>6 DEF OneStream
<1>12. CASE m.type = "end" /\ phase = "snapshot" /\ phase' = "live" /\ applySnapshot(frame)
  <2>1. PICK o \in Nat, p \in Nat : Covers(frame, o, p, dropped) /\ Incoming(p)
    BY <1>2, <1>12
  <2>2. PICK q \in Nat : Carries(m, p, q, dropped) /\ Incoming(q)'
    BY <1>3, <2>1
  <2>3. p = q
    BY <1>6, <1>12, <2>2
  <2> QED
    BY <1>1, <1>8, <1>12, <2>1, <2>2, <2>3, SnapshotIn
<1>13. CASE m.type = "bytes" /\ phase = "awaiting" /\ phase' = "live" /\ applySnapshot(m.data)
  <2>1. PICK p \in Nat, q \in Nat : Carries(m, p, q, dropped) /\ Incoming(q)'
    BY <1>2, <1>3, <1>13
  <2>2. Covers(m.data, p, q, dropped)
    BY <1>7, <1>13, <2>1
  <2> QED
    BY <1>1, <1>4, <1>13, <2>1, <2>2, SnapshotIn
<1>14. CASE m.type = "bytes" /\ phase = "live" /\ UNCHANGED <<screen, phase>>
            /\ writes' = Append(writes, [data |-> m.data, snapshotOf |-> 0])
  <2> DEFINE w == [data |-> m.data, snapshotOf |-> 0]
  <2>1. PICK q \in Nat : Carries(m, c, q, dropped) /\ Incoming(q)'
    BY <1>2, <1>3, <1>14
  <2>2. w \in Write
    BY <1>4, <1>14 DEF Write
  <2>3. Payload(w) = Payload(m)
    <3>1. Payload(w) = w.data
      BY <2>2, Payloads
    <3> QED
      BY <1>4, <1>14, <3>1
  <2>4. writes' = Append(writes, w)
    BY <1>14
  <2> HIDE DEF w
  <2>5. Carries(w, c, q, dropped)
    BY <2>1, <2>3 DEF Carries
  <2>6. Chain(Append(writes, w), b, q, dropped)
    BY <1>2, <1>8, <2>2, <2>5, ChainAppend
  <2>7. Covers(screen', a, b, dropped') /\ Chain(writes', b, q, dropped')
    BY <1>1, <1>2, <1>14, <2>4, <2>6
  <2> QED
    BY <1>14, <2>1, <2>7 DEF OneStream
<1>15. CASE m.type = "status" /\ UNCHANGED <<xtermVars, phase, frame>>
  <2>1. \A p \in Nat : Incoming(p) => Incoming(p)'
    BY <1>3, <1>6, <1>15
  <2> QED
    BY <1>1, <1>2, <1>9, <1>15, <2>1 DEF OneStream
<1> QED
  BY <1>10, <1>11, <1>12, <1>13, <1>14, <1>15 DEF received, NoSnapshot, m

\* xterm parses its next write since the latest snapshot.
LEMMA ParsedStep ==
  ASSUME StreamTypes, OneStream, Parsed, ~UNCHANGED <<writes, screen>>
  PROVE  OneStream'
<1>1. /\ writes # <<>> /\ writes' = Tail(writes) /\ writes \in Seq(Write) /\ Head(writes) \in Write
      /\ screen' = screen \o Head(writes).data
      /\ UNCHANGED <<produced, sub, dropped, serving, wire, phase, frame>>
  <2>1. writes # <<>> /\ writes' = Tail(writes) /\ screen' = screen \o Head(writes).data
    BY DEF Parsed
  <2> QED
    BY <2>1 DEF Parsed, StreamTypes, daemonVars, connVars
<1>2. PICK a \in Nat, b \in Nat, c \in Nat :
        /\ Covers(screen, a, b, dropped)
        /\ Chain(writes, b, c, dropped)
        /\ phase = "live" => Incoming(c)
        /\ phase = "snapshot" =>
             \E o, p \in Nat : Covers(frame, o, p, dropped) /\ Incoming(p)
        /\ phase = "awaiting" => \E p \in Nat : Incoming(p)
  BY DEF OneStream
<1>3. PICK d \in Nat : Carries(Head(writes), b, d, dropped) /\ Chain(Tail(writes), d, c, dropped)
  BY <1>1, <1>2, ChainTail
<1>4. Covers(Head(writes).data, b, d, dropped)
  BY <1>1, <1>3, Payloads DEF Carries
<1>5. screen \in Seq(Nat) /\ Head(writes).data \in Seq(Nat)
  <2>1. screen \in Seq(Chunks) /\ Head(writes).data \in Seq(Chunks)
    BY <1>1 DEF StreamTypes, Write
  <2> QED
    BY <2>1, ChunkSeq
<1>6. Covers(screen \o Head(writes).data, a, d, dropped)
  BY <1>2, <1>4, <1>5, CoversConcat
<1>7. Covers(screen', a, d, dropped') /\ Chain(writes', d, c, dropped')
  BY <1>1, <1>3, <1>6
<1>8. \A p : Incoming(p)' <=> Incoming(p)
  BY <1>1 DEF Incoming
<1> QED
  BY <1>1, <1>2, <1>7, <1>8 DEF OneStream

\* The page is left.
LEMMA CloseStep ==
  ASSUME PageClosed
  PROVE  OneStream'
<1>1. screen' = <<>> /\ writes' = <<>> /\ phase' = "awaiting" /\ wire' = <<>> /\ serving' = FALSE
  BY DEF PageClosed
<1>2. Covers(screen', 0, 0, dropped') /\ Chain(writes', 0, 0, dropped')
  BY <1>1, CoversEmpty, ChainEmpty
<1>3. \A p \in Nat : Incoming(p)'
  BY <1>1, Silence
<1> QED
  BY <1>1, <1>2, <1>3 DEF OneStream

--------------------------------------------------------------------------------
(* Theorems *)

\* The screen, xterm's queue, the wire and the subscriber's channel stay one stream
\* of chunks, whatever connections are lost, replaced or accepted in between.
THEOREM StreamInvariant == Spec => []StreamInv
<1>1. ASSUME Init PROVE StreamInv
  <2>1. StreamTypes
    BY <1>1, Bounds DEF Init, StreamTypes
  <2>2. Covers(screen, 0, 0, dropped) /\ Chain(writes, 0, 0, dropped) /\ Chain(wire, 0, 0, dropped)
    BY <1>1, CoversEmpty, ChainEmpty DEF Init
  <2>3. Incoming(0)
    BY <1>1, <2>2 DEF Init, Incoming
  <2>4. OneStream
    BY <1>1, <2>2, <2>3 DEF Init, OneStream
  <2> QED
    BY <2>1, <2>4 DEF StreamInv
<1>2. StreamInv /\ [Next]_vars => StreamInv'
  <2> SUFFICES ASSUME StreamInv, [Next]_vars PROVE OneStream'
    BY TypesKept DEF StreamInv
  <2> USE DEF StreamInv
  <2>1. ASSUME NEW o, connectTerminal(o) PROVE OneStream'
    <3>1. UNCHANGED <<phase, frame>> \/ phase' = "awaiting"
      BY <2>1 DEF connectTerminal
    <3>2. UNCHANGED <<dropped, writes, screen>> /\ serving' = FALSE /\ wire' = <<>>
      BY <2>1 DEF connectTerminal, xtermVars
    <3> QED
      BY <3>1, <3>2, StreamCut
  <2>2. CASE publish
    BY <2>2, PublishStep
  <2>3. CASE Exit
    BY <2>3, StreamSame DEF Exit, connVars, xtermVars
  <2>4. CASE Forward
    BY <2>4, ForwardStep
  <2>5. CASE Reconnect
    BY <2>1, <2>5 DEF Reconnect
  <2>6. CASE Accept
    BY <2>6, AcceptStep
  <2>7. CASE LinkLost
    BY <2>7, StreamCut DEF LinkLost, LinkClosed, xtermVars
  <2>8. CASE HandlerDone
    BY <2>8, StreamCut DEF HandlerDone, LinkClosed, xtermVars
  <2>9. CASE BridgeLost
    <3>1. UNCHANGED <<produced, dropped, phase, frame, writes, screen>>
      BY <2>9 DEF BridgeLost, xtermVars
    <3>2. (serving' = FALSE /\ wire' = <<>>) \/ UNCHANGED <<serving, sub, wire>>
      BY <2>9 DEF BridgeLost, LinkClosed
    <3> QED
      BY <3>1, <3>2, StreamCut, StreamSame
  <2>10. CASE BridgeBack
    BY <2>10, StreamSame DEF BridgeBack, daemonVars, connVars, xtermVars
  <2>11. CASE Resumed
    <3>1. CASE connectTerminal(objects')
      BY <2>1, <3>1
    <3>2. CASE PageClosed
      BY <3>2, CloseStep
    <3>3. CASE UNCHANGED <<daemonVars, wire, connVars, xtermVars>>
      BY <3>3, StreamSame DEF daemonVars, connVars, xtermVars
    <3> QED
      BY <2>11, <3>1, <3>2, <3>3 DEF Resumed
  <2>12. CASE RetryFires
    <3>1. CASE connectTerminal(retry)
      BY <2>1, <3>1
    <3>2. CASE ~connectTerminal(retry)
      BY <2>12, <3>2, StreamSame DEF RetryFires, daemonVars, connVars, xtermVars
    <3> QED
      BY <3>1, <3>2
  <2>18. CASE Submit
    BY <2>18, StreamSame DEF Submit, daemonVars, connVars, xtermVars
  <2>19. CASE closeConnection
    BY <2>19, CloseStep DEF closeConnection
  <2>13. CASE received
    BY <2>13, ReceivedStep
  <2>14. CASE Parsed
    <3>1. CASE UNCHANGED <<writes, screen>>
      BY <2>14, <3>1, StreamSame DEF Parsed, daemonVars, connVars
    <3>2. CASE ~UNCHANGED <<writes, screen>>
      BY <2>14, <3>2, ParsedStep
    <3> QED
      BY <3>1, <3>2
  <2>15. CASE Reply
    BY <2>15, StreamSame DEF Reply, daemonVars, connVars, xtermVars
  <2>16. CASE ReadyFires
    BY <2>16, StreamSame DEF ReadyFires, daemonVars, connVars, xtermVars
  <2>17. CASE UNCHANGED vars
    BY <2>17, StreamSame DEF vars, daemonVars, connVars, xtermVars
  <2> QED
    BY <2>2, <2>3, <2>4, <2>5, <2>6, <2>7, <2>8, <2>9, <2>10, <2>11, <2>12, <2>13, <2>14,
       <2>15, <2>16, <2>17, <2>18, <2>19 DEF Next
<1> QED
  BY <1>1, <1>2, PTL DEF Spec

\* What the terminal shows is in order, repeats nothing and misses only what
\* publish dropped, for any scrollback, queue length and number of reconnects.
THEOREM StreamScreenFaithful == Spec => []ScreenFaithful
<1>1. StreamInv => ScreenFaithful
  <2> SUFFICES ASSUME StreamInv PROVE ScreenFaithful
    OBVIOUS
  <2>1. PICK a \in Nat, b \in Nat : Covers(screen, a, b, dropped)
    BY DEF StreamInv, OneStream
  <2>2. screen \in Seq(Nat) /\ Len(screen) \in Nat
    BY ChunkSeq DEF StreamInv, StreamTypes
  <2>3. \A i \in 1..(Len(screen) - 1) : screen[i] < screen[i + 1]
    BY <2>1, <2>2 DEF Covers
  <2>4. ASSUME screen # <<>>, NEW n \in screen[1]..Last(screen)
        PROVE  n \in dropped \/ \E i \in 1..Len(screen) : screen[i] = n
    <3>1. 1 \in 1..Len(screen) /\ Len(screen) \in 1..Len(screen)
      BY <2>2, <2>4
    <3>2. screen[1] \in (a + 1)..b /\ screen[Len(screen)] \in (a + 1)..b
      BY <2>1, <3>1 DEF Covers
    <3>3. n \in (a + 1)..b
      BY <2>4, <3>2 DEF Last
    <3> QED
      BY <2>1, <3>3 DEF Covers
  <2> QED
    BY <2>3, <2>4 DEF ScreenFaithful
<1> QED
  BY <1>1, StreamInvariant, PTL

--------------------------------------------------------------------------------
(* The end of the program *)

\* A status is sent when the program has ended.
StatusTrue == \A i \in 1..Len(wire) : wire[i] = Status => ~alive

\* Connections and the timer use the page's own Session object or the latest one. Once
\* one of them was told of the end, what is not told can only be the page's own, and a
\* connection that began with it has its status still to come.
EndInv ==
  /\ objects \in Nat \ {0} /\ session \in {1, objects} /\ retry \in {0, 1, objects}
  /\ told \subseteq {1, objects}
  /\ StatusTrue
  /\ loading => bridge
  /\ conn \in {"connecting", "open"} => retry = 0
  /\ told # {} => ~alive /\ session \in told \cup {1} /\ retry \in told \cup {0, 1}
  /\ label = "online" => session \notin told
  /\ conn = "open" /\ session \notin told => StatusToCome

\* The status is put behind what the daemon sends.
LEMMA StatusAppended ==
  ASSUME NEW Q \in Seq(Message)
  PROVE  \E i \in 1..Len(Q \o <<Status>>) : (Q \o <<Status>>)[i] = Status
<1>1. Len(Q \o <<Status>>) = Len(Q) + 1 /\ Len(Q) \in Nat /\ (Q \o <<Status>>)[Len(Q) + 1] = Status
  OBVIOUS
<1> QED
  BY <1>1

\* A connection is opened with an object that may still be live.
LEMMA EndConnect ==
  ASSUME EndInv, NEW o, connectTerminal(o), UNCHANGED loading,
         \/ UNCHANGED objects /\ o \in {1, objects}
         \/ bridge /\ told = {} /\ objects' = objects + 1 /\ o = objects',
         told # {} => o = 1
  PROVE  EndInv'
<1>0. StatusTrue'
  BY DEF connectTerminal, StatusTrue
<1>1. CASE bridge
  BY <1>0, <1>1 DEF EndInv, connectTerminal
<1>2. CASE ~bridge
  BY <1>0, <1>2 DEF EndInv, connectTerminal
<1> QED
  BY <1>1, <1>2

\* Whoever knows an object sets a timer with it only if it was not told.
LEMMA EndScheduled ==
  ASSUME EndInv, NEW o, session \notin told => o \in {session, objects},
         o = session \/ session \notin told
  PROVE  /\ scheduleTerminalReconnect(o) \in {0, 1, objects}
         /\ told # {} => scheduleTerminalReconnect(o) \in told \cup {0, 1}
<1>1. CASE session \notin told
  BY <1>1 DEF EndInv, scheduleTerminalReconnect
<1>2. CASE session \in told
  BY <1>2 DEF EndInv, scheduleTerminalReconnect
<1> QED
  BY <1>1, <1>2

LEMMA EndClosed ==
  ASSUME EndInv, LinkClosed, UNCHANGED <<alive, bridge, objects, told, session>>,
         loading' => loading, label' = "online" => label = "online"
  PROVE  EndInv'
<1>1. /\ retry' \in {0, 1, objects}
      /\ told # {} => retry' \in told \cup {0, 1}
  BY EndScheduled DEF LinkClosed
<1>2. StatusTrue'
  BY DEF LinkClosed, StatusTrue
<1> QED
  BY <1>1, <1>2 DEF EndInv, LinkClosed

\* Nothing changes that the invariant speaks of, but for the label.
LEMMA EndSame ==
  ASSUME EndInv, UNCHANGED <<alive, bridge, objects, told, session, conn, retry>>,
         loading' => loading \/ bridge,
         label' = "online" => label = "online" \/ session \notin told,
         StatusToCome => StatusToCome', StatusTrue'
  PROVE  EndInv'
BY DEF EndInv

\* Every step keeps the invariant.
LEMMA EndKept == StreamTypes /\ EndInv /\ [Next]_vars => EndInv'
<1> SUFFICES ASSUME StreamTypes, EndInv, [Next]_vars PROVE EndInv'
  OBVIOUS
<1>1. UNCHANGED <<alive, serving, wire>> => (StatusToCome => StatusToCome') /\ StatusTrue'
  BY DEF StatusToCome, StatusTrue, EndInv
<1>2. CASE publish
  BY <1>1, <1>2, EndSame DEF publish, bridgeVars, connVars, objectVars
<1>3. CASE Exit
  BY <1>3 DEF Exit, bridgeVars, connVars, objectVars, EndInv, StatusToCome, StatusTrue
<1>4. CASE Forward
  <2>1. wire \in Seq(Message)
    BY DEF StreamTypes
  <2>2. StatusToCome'
    <3>1. CASE serving'
      BY <3>1 DEF StatusToCome
    <3>2. CASE wire' = Append(wire, Status)
      <4>1. wire' = wire \o <<Status>>
        BY <2>1, <3>2
      <4> QED
        BY <2>1, <4>1, StatusAppended DEF StatusToCome
    <3> QED
      BY <1>4, <3>1, <3>2 DEF Forward
  <2>3. StatusTrue'
    <3>1. CASE wire' = Append(wire, Bytes(<<Head(sub)>>)) /\ UNCHANGED alive
      <4>1. Bytes(<<Head(sub)>>) # Status
        BY DEF Bytes, Status
      <4>2. \A i \in 1..Len(wire') : wire'[i] = Status => i \in 1..Len(wire) /\ wire[i] = Status
        BY <2>1, <3>1, <4>1
      <4> QED
        BY <3>1, <4>2 DEF StatusTrue, EndInv
    <3>2. CASE ~alive /\ UNCHANGED alive
      BY <3>2 DEF StatusTrue
    <3> QED
      BY <1>4, <3>1, <3>2 DEF Forward
  <2> QED
    BY <1>4, <2>2, <2>3, EndSame DEF Forward, bridgeVars, connVars, objectVars
<1>5. CASE Reconnect
  BY <1>5, EndConnect DEF Reconnect
<1>6. CASE Accept
  <2>1. StatusToCome'
    <3>1. CASE alive
      BY <1>6, <3>1 DEF Accept, StatusToCome
    <3>2. CASE ~alive
      <4> DEFINE A == IF framed THEN <<Start>> ELSE <<>>
                 B == IF produced > 0 THEN <<Bytes(Retained)>> ELSE <<>>
                 C == IF framed THEN <<Finish>> ELSE <<>>
      <4>1. A \in Seq(Message) /\ B \in Seq(Message) /\ C \in Seq(Message)
        <5>1. Bytes(Retained) \in Message
          BY RetainedRun, MessageShapes DEF StreamTypes
        <5> QED
          BY <5>1, MessageShapes
      <4>2. wire' = A \o B \o C \o <<Status>>
        BY <1>6, <3>2 DEF Accept
      <4> HIDE DEF A, B, C
      <4>3. A \o B \o C \in Seq(Message)
        BY <4>1
      <4> QED
        BY <4>2, <4>3, StatusAppended DEF StatusToCome
    <3> QED
      BY <3>1, <3>2
  <2>2. StatusTrue'
    <3>1. CASE ~alive
      BY <1>6, <3>1 DEF Accept, StatusTrue
    <3>2. CASE alive
      <4> DEFINE A == IF framed THEN <<Start>> ELSE <<>>
                 B == IF produced > 0 THEN <<Bytes(Retained)>> ELSE <<>>
                 C == IF framed THEN <<Finish>> ELSE <<>>
      <4>1. Start # Status /\ Finish # Status /\ Bytes(Retained) # Status
        BY DEF Start, Finish, Bytes, Status
      <4>2. wire' = A \o B \o C \o <<>>
        BY <1>6, <3>2 DEF Accept
      <4> DEFINE S == {Start, Finish, Bytes(Retained)}
      <4>3. A \in Seq(S) /\ B \in Seq(S) /\ C \in Seq(S) /\ <<>> \in Seq(S) /\ Status \notin S
        <5>1. Start \in S /\ Finish \in S /\ Bytes(Retained) \in S /\ Status \notin S
          BY <4>1
        <5> HIDE DEF S
        <5>2. <<>> \in Seq(S) /\ \A x \in S : <<x>> \in Seq(S)
          OBVIOUS
        <5> QED
          BY <5>1, <5>2
      <4> HIDE DEF A, B, C, S
      <4>4. wire' \in Seq(S)
        BY <4>2, <4>3
      <4>5. \A i \in 1..Len(wire') : wire'[i] # Status
        BY <4>3, <4>4
      <4> QED
        BY <4>5 DEF StatusTrue
    <3> QED
      BY <3>1, <3>2
  <2> QED
    BY <1>6, <2>1, <2>2 DEF Accept, bridgeVars, objectVars, EndInv
<1>7. CASE LinkLost
  BY <1>7, EndClosed DEF LinkLost, Scheduled, bridgeVars, objectVars
<1>8. CASE HandlerDone
  BY <1>8, EndClosed DEF HandlerDone, Scheduled, bridgeVars, objectVars
<1>9. CASE BridgeLost
  <2>1. UNCHANGED <<alive, objects, told, session>> /\ ~loading' /\ label' # "online"
    BY <1>9 DEF BridgeLost, objectVars
  <2>2. CASE LinkClosed
    <3>1. /\ retry' \in {0, 1, objects}
          /\ told # {} => retry' \in told \cup {0, 1}
      BY <2>2, EndScheduled DEF LinkClosed
    <3>2. StatusTrue'
      BY <2>2 DEF LinkClosed, StatusTrue
    <3> QED
      BY <2>1, <2>2, <3>1, <3>2 DEF EndInv, LinkClosed
  <2>3. CASE UNCHANGED <<conn, serving, wire, retry>>
    BY <1>1, <2>1, <2>3 DEF EndInv
  <2> QED
    BY <1>9, <2>2, <2>3 DEF BridgeLost
<1>10. CASE BridgeBack
  BY <1>1, <1>10 DEF BridgeBack, EndInv, daemonVars, connVars, objectVars
<1>11. ASSUME PageClosed, UNCHANGED objects, loading' => loading PROVE EndInv'
  BY <1>11 DEF PageClosed, EndInv, StatusTrue
<1>12. CASE closeConnection
  BY <1>11, <1>12 DEF closeConnection
<1>13. CASE Resumed
  <2>1. CASE onPage /\ alive /\ objects' = objects + 1 /\ connectTerminal(objects')
    <3>1. told = {} /\ bridge
      BY <1>13, <2>1 DEF Resumed, EndInv
    <3> QED
      BY <1>13, <2>1, <3>1 DEF EndInv, Resumed, connectTerminal, StatusTrue
  <2>2. CASE PageClosed /\ UNCHANGED objects
    BY <1>11, <1>13, <2>2 DEF Resumed
  <2>3. CASE UNCHANGED <<daemonVars, wire, bridge, connVars, objectVars, label, retry>>
    BY <1>1, <1>13, <2>3, EndSame DEF Resumed, daemonVars, connVars, objectVars
  <2> QED
    BY <1>13, <2>1, <2>2, <2>3 DEF Resumed
<1>14. CASE RetryFires
  <2>1. CASE retry \notin told /\ connectTerminal(retry) /\ UNCHANGED <<loading, objects>>
    <3>1. retry \in {1, objects} /\ (told # {} => retry = 1)
      BY <1>14, <2>1 DEF RetryFires, EndInv
    <3> QED
      BY <2>1, <3>1, EndConnect
  <2>2. CASE /\ retry' \in {retry, 0}
             /\ label' \in {"connecting", label}
             /\ UNCHANGED <<daemonVars, wire, bridgeVars, connVars, objectVars>>
    <3>1. UNCHANGED <<alive, bridge, loading, conn, session, objects, told, serving, wire>>
      BY <2>2 DEF daemonVars, bridgeVars, connVars, objectVars
    <3> QED
      BY <1>1, <2>2, <3>1 DEF EndInv
  <2> QED
    BY <1>14, <2>1, <2>2 DEF RetryFires
<1>15. CASE Submit
  <2>1. session \notin told /\ conn = "closed"
    BY <1>15 DEF Submit, EndInv
  <2>2. /\ retry' \in {0, 1, objects}
        /\ told # {} => retry' \in told \cup {0, 1}
    BY <1>15, <2>1, EndScheduled DEF Submit
  <2>3. UNCHANGED <<alive, bridge, loading, conn, session, objects, told, serving, wire>>
    BY <1>15 DEF Submit, daemonVars, bridgeVars, connVars, objectVars
  <2>4. StatusToCome' <=> StatusToCome
    BY <2>3 DEF StatusToCome
  <2> QED
    BY <1>1, <2>1, <2>2, <2>3, <2>4 DEF EndInv
<1>16. CASE received
  <2> DEFINE m == Head(wire)
  <2>1. /\ wire # <<>> /\ wire' = Tail(wire) /\ wire \in Seq(Message)
        /\ UNCHANGED <<alive, serving, bridge, loading, conn, session, objects, retry>>
        /\ conn = "open" /\ m \in Message
    BY <1>16 DEF received, StreamTypes, daemonVars, bridgeVars
  <2>0. StatusTrue'
    <3>1. \A i \in 1..Len(wire') : i + 1 \in 1..Len(wire) /\ wire'[i] = wire[i + 1]
      BY <2>1
    <3> QED
      BY <2>1, <3>1 DEF StatusTrue, EndInv
  <2>2. CASE m.type = "status" /\ told' = told \cup {session} /\ label' = "offline"
    <3>1. m = Status
      BY <2>1, <2>2 DEF Message, Start, Finish
    <3>2. 1 \in 1..Len(wire) /\ wire[1] = m
      BY <2>1
    <3>3. ~alive
      BY <3>1, <3>2 DEF EndInv, StatusTrue
    <3> QED
      BY <2>0, <2>1, <2>2, <3>3 DEF EndInv
  <2>3. CASE /\ m.type # "status" /\ UNCHANGED told
             /\ label' = label \/ label' = markReady
    <3>1. m # Status
      BY <2>3 DEF Status
    <3>2. ASSUME NEW i \in 1..Len(wire), wire[i] = Status
          PROVE  \E j \in 1..Len(wire') : wire'[j] = Status
      <4>1. i # 1
        BY <2>1, <3>1, <3>2
      <4>2. i - 1 \in 1..Len(Tail(wire)) /\ Tail(wire)[i - 1] = wire[i]
        BY <2>1, <4>1
      <4> QED
        BY <2>1, <3>2, <4>2
    <3>3. StatusToCome => StatusToCome'
      BY <2>1, <3>2 DEF StatusToCome
    <3>4. label' = "online" => label = "online" \/ session \notin told
      BY <2>3 DEF markReady
    <3> QED
      BY <2>0, <2>1, <2>3, <3>3, <3>4, EndSame
  <2> QED
    BY <1>16, <2>2, <2>3 DEF received, applySnapshot, NoSnapshot
<1>17. CASE Parsed
  BY <1>1, <1>17, EndSame DEF Parsed, markReady, daemonVars, bridgeVars, connVars, objectVars
<1>18. CASE Reply
  BY <1>1, <1>18, EndSame DEF Reply, daemonVars, bridgeVars, connVars, objectVars
<1>19. CASE ReadyFires
  BY <1>1, <1>19, EndSame DEF ReadyFires, markReady, daemonVars, bridgeVars, connVars, objectVars
<1>20. CASE UNCHANGED vars
  BY <1>1, <1>20, EndSame DEF vars, daemonVars, bridgeVars, connVars, objectVars
<1> QED
  BY <1>2, <1>3, <1>4, <1>5, <1>6, <1>7, <1>8, <1>9, <1>10, <1>12, <1>13, <1>14, <1>15, <1>16,
     <1>17, <1>18, <1>19, <1>20 DEF Next

\* A program whose end the page was told is never shown live again by a callback, a
\* timer or a bridge that came back; the Reconnect entry with the page's own Session
\* object does until the connection has its status.
THEOREM StreamEndedStaysOff == Spec => []EndedStaysOff
<1>1. Init => EndInv
  BY DEF Init, EndInv, StatusTrue
<1>2. EndInv => EndedStaysOff
  BY DEF EndInv, EndedStaysOff
<1>3. StreamInv => StreamTypes
  BY DEF StreamInv
<1> QED
  BY <1>1, <1>2, <1>3, EndKept, StreamInvariant, PTL DEF Spec
================================================================================
