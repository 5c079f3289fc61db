------------------------------ MODULE BridgeProofs -----------------------------
(***************************************************************************)
(* Proofs about the encrypted bridge: a link that is closed never calls    *)
(* back, and an upload is reported as done only for a whole, stored file.  *)
(***************************************************************************)
EXTENDS Bridge, TLAPS

--------------------------------------------------------------------------------
(* Links *)

\* Whoever was told that a link is closed, or closed it, has a closed link; so no
\* later packet finds it connecting or open.
ToldClosed ==
  /\ lnk \in [Links -> {"idle", "connecting", "open", "closed"}]
  /\ told \in [Links -> {"nothing", "open", "closed", "left"}]
  /\ linkMap \subseteq Links
  /\ \A l \in Links : told[l] \in {"closed", "left"} => lnk[l] = "closed"

LEMMA RemoteCloseKeeps ==
  ASSUME ToldClosed, NEW C, remoteClose(C)
  PROVE  /\ lnk' \in [Links -> {"idle", "connecting", "open", "closed"}]
         /\ told' \in [Links -> {"nothing", "open", "closed", "left"}]
         /\ \A l \in Links : told'[l] \in {"closed", "left"} => lnk'[l] = "closed"
<1> USE DEF ToldClosed, remoteClose, RemoteClosed, Tell
<1>1. lnk' \in [Links -> {"idle", "connecting", "open", "closed"}]
  OBVIOUS
<1>2. ASSUME NEW l \in Links
      PROVE  /\ told'[l] \in {"nothing", "open", "closed", "left"}
             /\ told'[l] \in {"closed", "left"} => lnk'[l] = "closed"
  <2>1. CASE l \in C /\ lnk[l] # "closed"
    BY <2>1
  <2>2. CASE ~(l \in C /\ lnk[l] # "closed")
    BY <2>2
  <2> QED
    BY <2>1, <2>2
<1>3. told' \in [Links -> {"nothing", "open", "closed", "left"}]
  BY <1>2
<1> QED
  BY <1>1, <1>2, <1>3

LEMMA DispatchKeeps ==
  ASSUME ToldClosed, NEW m, Dispatch(m)
  PROVE  ToldClosed'
<1>1. CASE UNCHANGED <<lnk, told, linkMap>>
  BY <1>1 DEF ToldClosed
<1>2. CASE m.id \in linkMap /\ m.type = "link_opened" /\ lnk[m.id] = "connecting"
  <2>1. /\ m.id \in Links /\ told[m.id] \notin {"closed", "left"}
        /\ lnk' = [lnk EXCEPT ![m.id] = "open"]
        /\ told' = [told EXCEPT ![m.id] = Tell(m.id, "open")]
        /\ UNCHANGED linkMap
    BY <1>2 DEF Dispatch, ToldClosed
  <2> QED
    BY <2>1 DEF ToldClosed, Tell
<1>3. CASE m.id \in linkMap /\ m.type = "link_data" /\ lnk[m.id] = "open"
  <2>1. /\ m.id \in Links /\ told[m.id] \notin {"closed", "left"}
        /\ told' = [told EXCEPT ![m.id] = Tell(m.id, "open")]
        /\ UNCHANGED <<lnk, linkMap>>
    BY <1>3 DEF Dispatch, ToldClosed
  <2> QED
    BY <2>1 DEF ToldClosed, Tell
<1>4. CASE m.type = "link_closed" /\ m.id \in linkMap
  <2>1. remoteClose({m.id}) /\ linkMap' = linkMap \ {m.id}
    BY <1>4 DEF Dispatch
  <2>2. linkMap' \subseteq Links
    BY <2>1 DEF ToldClosed
  <2> QED
    BY <2>1, <2>2, RemoteCloseKeeps DEF ToldClosed
<1> QED
  BY <1>1, <1>2, <1>3, <1>4 DEF Dispatch

LEMMA FailKeeps ==
  ASSUME ToldClosed, fail
  PROVE  ToldClosed'
<1>1. CASE failed
  BY <1>1 DEF fail, ToldClosed
<1>2. CASE ~failed
  <2>1. remoteClose(linkMap) /\ linkMap' = {}
    BY <1>2 DEF fail
  <2> QED
    BY <2>1, RemoteCloseKeeps DEF ToldClosed
<1> QED
  BY <1>1, <1>2

\* A link is told of its end at most once and never calls back after it, whichever
\* side closed it and whatever packets were still on their way.
THEOREM BridgeLinkQuiet == Spec => []LinkQuiet
<1>1. Init => ToldClosed
  BY DEF Init, ToldClosed, Links
<1>2. ToldClosed /\ [Next]_vars => ToldClosed'
  <2> SUFFICES ASSUME ToldClosed, [Next]_vars PROVE ToldClosed'
    OBVIOUS
  <2>1. ASSUME UNCHANGED <<lnk, told, linkMap>> PROVE ToldClosed'
    BY <2>1 DEF ToldClosed
  <2>2. CASE Greet \/ GreetFails \/ AuthTimeout \/ uploadFile \/ UploadTimeout
    BY <2>1, <2>2 DEF Greet, GreetFails, AuthTimeout, uploadFile, UploadTimeout, pageVars
  <2>3. CASE Disconnect
    BY <2>3, FailKeeps DEF Disconnect
  <2>4. ASSUME NEW r \in Requests, request(r) \/ RequestTimeout(r) PROVE ToldClosed'
    BY <2>1, <2>4 DEF request, RequestTimeout
  <2>5. ASSUME NEW l \in Links, openLink(l) PROVE ToldClosed'
    BY <2>5 DEF openLink, ToldClosed
  <2>6. ASSUME NEW l \in Links, linkSend(l) PROVE ToldClosed'
    BY <2>1, <2>6 DEF linkSend, pageVars
  <2>7. ASSUME NEW l \in Links, closeLink(l) PROVE ToldClosed'
    BY <2>7 DEF closeLink, ToldClosed
  <2>8. CASE Send
    BY <2>1, <2>8 DEF Send, pageVars
  <2>9. CASE SendRejected
    <3>1. CASE UNCHANGED <<lnk, told, linkMap>>
      BY <2>1, <3>1
    <3>2. CASE remoteClose({Head(sends).id}) /\ UNCHANGED linkMap
      BY <3>2, RemoteCloseKeeps DEF ToldClosed
    <3> QED
      BY <2>9, <3>1, <3>2 DEF SendRejected
  <2>10. CASE receive
    BY <2>10, FailKeeps, DispatchKeeps DEF receive
  <2>11. CASE Reader
    BY <2>1, <2>11 DEF Reader, pageVars, authenticateChannel, ReadRequest, ReadTerminalOpen, openLocalSocket,
       ReadWindowOpen, ReadLinkClose, ReadLinkData, ReadUploadStart, startFileUpload,
       writeFileUpload, finishFileUpload, cancelFileUpload, ReadEnd, ReadClosed
  <2>12. CASE Daemon
    BY <2>1, <2>12 DEF Daemon, pageVars, AuthDeadline, DaemonLost, handleHTTPRequest, openWindow,
       Output, SourceEnds
  <2>13. CASE UNCHANGED vars
    BY <2>1, <2>13 DEF vars, pageVars
  <2> QED
    BY <2>2, <2>3, <2>4, <2>5, <2>6, <2>7, <2>8, <2>9, <2>10, <2>11, <2>12, <2>13
       DEF Next, Page, Chain
<1>3. ToldClosed => LinkQuiet
  BY DEF ToldClosed, LinkQuiet
<1> QED
  BY <1>1, <1>2, <1>3, PTL DEF Spec

--------------------------------------------------------------------------------
(* Uploads: the inductive invariant *)

Kinds ==
  {"authenticate", "authenticated", "http_request", "http_response", "link_open", "link_opened",
   "link_data", "link_close", "link_closed", "file_upload_start", "file_upload_ready",
   "file_upload_chunk", "file_upload_progress", "file_upload_finish", "file_upload_complete",
   "file_upload_cancel", "file_upload_error", "end", "wrong"}
Ids == Requests \cup Links \cup Nat \cup {None}
Packet == [type : Kinds, id : Ids]

Has(s, t) == \E i \in 1..Len(s) : s[i].type = t
Single(s, t) == \A i, j \in 1..Len(s) : s[i].type = t /\ s[j].type = t => i = j

QueueTypes ==
  /\ sends \in Seq(Packet) /\ toDaemon \in Seq(Packet) /\ toPage \in Seq(Packet)
  /\ sentChunks \in Nat /\ received \in Nat

\* The page announces one upload. Until the daemon reads that there is no file.
StartOnce ==
  /\ upload = "idle" =>
       file = "none" /\ ~Has(sends, "file_upload_start") /\ ~Has(toDaemon, "file_upload_start")
  /\ Single(sends, "file_upload_start") /\ Single(toDaemon, "file_upload_start")
  /\ ~(Has(sends, "file_upload_start") /\ Has(toDaemon, "file_upload_start"))
  /\ Has(sends, "file_upload_start") \/ Has(toDaemon, "file_upload_start") => file = "none"

\* The answer that ends an upload is on its way only once the file is stored.
CompleteStored == Has(toPage, "file_upload_complete") => file = "stored"

UploadInv == QueueTypes /\ StartOnce /\ CompleteStored /\ UploadExact

--------------------------------------------------------------------------------
(* Uploads: facts about the queues *)

\* r has no packet of type t that s has not.
NoNew(s, r, t) == r \in Seq(Packet) /\ (Has(r, t) => Has(s, t)) /\ (Single(s, t) => Single(r, t))

LEMMA NoNewAppend ==
  ASSUME NEW s \in Seq(Packet), NEW x \in Packet, NEW t, x.type # t
  PROVE  NoNew(s, Append(s, x), t)
<1> DEFINE r == Append(s, x)
<1>1. r \in Seq(Packet) /\ Len(s) \in Nat /\ Len(r) = Len(s) + 1 /\ r[Len(s) + 1] = x
      /\ \A i \in 1..Len(s) : r[i] = s[i]
  OBVIOUS
<1> HIDE DEF r
<1>2. \A i \in 1..Len(r) : r[i].type = t => i \in 1..Len(s) /\ r[i] = s[i]
  <2>1. TAKE i \in 1..Len(r)
  <2>2. i \in 1..Len(s) \/ i = Len(s) + 1
    BY <1>1
  <2> QED
    BY <1>1, <2>2
<1>3. NoNew(s, r, t)
  BY <1>1, <1>2 DEF NoNew, Has, Single
<1> QED
  BY <1>3 DEF r

LEMMA NoNewTail ==
  ASSUME NEW s \in Seq(Packet), s # <<>>, NEW t
  PROVE  /\ NoNew(s, Tail(s), t)
         /\ Head(s) \in Packet
         /\ Head(s).type = t => Has(s, t)
         /\ Single(s, t) /\ Head(s).type = t => ~Has(Tail(s), t)
<1> DEFINE r == Tail(s)
<1>1. /\ r \in Seq(Packet) /\ Len(s) \in Nat \ {0} /\ Len(r) = Len(s) - 1 /\ Head(s) = s[1]
      /\ \A i \in 1..Len(r) : r[i] = s[i + 1]
  OBVIOUS
<1>2. Head(s) \in Packet
  OBVIOUS
<1> HIDE DEF r
<1>3. \A i \in 1..Len(r) : i + 1 \in 1..Len(s) /\ r[i] = s[i + 1] /\ i + 1 # 1
  BY <1>1
<1>4. 1 \in 1..Len(s)
  BY <1>1
<1>5. NoNew(s, r, t)
  <2>1. Has(r, t) => Has(s, t)
    BY <1>3 DEF Has
  <2>2. ASSUME Single(s, t), NEW i \in 1..Len(r), NEW j \in 1..Len(r), r[i].type = t, r[j].type = t
        PROVE  i = j
    <3>1. i + 1 = j + 1
      BY <1>3, <2>2 DEF Single
    <3> QED
      BY <3>1
  <2> QED
    BY <1>1, <2>1, <2>2 DEF NoNew, Single
<1>6. Head(s).type = t => Has(s, t)
  BY <1>1, <1>4 DEF Has
<1>7. Single(s, t) /\ Head(s).type = t => ~Has(r, t)
  BY <1>1, <1>3, <1>4 DEF Single, Has
<1> QED
  BY <1>2, <1>5, <1>6, <1>7 DEF r

LEMMA FirstAppend ==
  ASSUME NEW s \in Seq(Packet), NEW x \in Packet, NEW t, ~Has(s, t)
  PROVE  Append(s, x) \in Seq(Packet) /\ Single(Append(s, x), t)
<1> DEFINE r == Append(s, x)
<1>1. r \in Seq(Packet) /\ Len(s) \in Nat /\ Len(r) = Len(s) + 1
      /\ \A i \in 1..Len(s) : r[i] = s[i]
  OBVIOUS
<1> HIDE DEF r
<1>2. \A i \in 1..Len(r) : r[i].type = t => i = Len(s) + 1
  <2>1. TAKE i \in 1..Len(r)
  <2>2. i \in 1..Len(s) \/ i = Len(s) + 1
    BY <1>1
  <2> QED
    BY <1>1, <2>2 DEF Has
<1>3. Single(r, t)
  BY <1>2 DEF Single
<1> QED
  BY <1>1, <1>3 DEF r

LEMMA NoNewSame ==
  ASSUME NEW s \in Seq(Packet), NEW t
  PROVE  NoNew(s, s, t)
BY DEF NoNew

LEMMA Packets ==
  /\ \A t \in Kinds, x \in Ids : Msg(t, x) \in Packet /\ Msg(t, x).type = t
  /\ End \in Packet /\ End.type = "end"
  /\ Wrong \in Packet /\ Wrong.type = "wrong"
<1>1. \A t \in Kinds, x \in Ids : Msg(t, x) \in Packet /\ Msg(t, x).type = t
  BY DEF Msg, Packet
<1>2. None \in Ids /\ "end" \in Kinds /\ "wrong" \in Kinds
  BY DEF Ids, Kinds
<1> QED
  BY <1>1, <1>2 DEF End, Wrong

LEMMA IdsHave ==
  /\ None \in Ids /\ \A n \in Nat : n \in Ids
  /\ \A r \in Requests : r \in Ids
  /\ \A l \in Links : l \in Ids
BY DEF Ids

--------------------------------------------------------------------------------
(* Uploads: what a step does to them *)

\* A step that announces nothing and makes no file.
LEMMA StartKept ==
  ASSUME StartOnce, NoNew(sends, sends', "file_upload_start"),
         NoNew(toDaemon, toDaemon', "file_upload_start"),
         upload' = "idle" => upload = "idle", file = "none" => file' = "none"
  PROVE  StartOnce'
BY DEF StartOnce, NoNew

\* A step that neither stores a file nor touches a stored one.
LEMMA ExactKept ==
  ASSUME UploadExact, CompleteStored, NoNew(toPage, toPage', "file_upload_complete"),
         upload' = "done" => upload = "done" \/ Has(toPage, "file_upload_complete"),
         file' = "stored" <=> file = "stored", file = "stored" => UNCHANGED received
  PROVE  (UploadExact /\ CompleteStored)'
BY DEF UploadExact, CompleteStored, NoNew

\* What the daemon answers, other than the end of an upload.
LEMMA ReplyNoNew ==
  ASSUME QueueTypes, NEW t \in Kinds, NEW x \in Ids,
         t # "file_upload_complete", Reply(Msg(t, x))
  PROVE  NoNew(toPage, toPage', "file_upload_complete")
<1>1. toPage \in Seq(Packet)
  BY DEF QueueTypes
<1>2. Msg(t, x) \in Packet /\ Msg(t, x).type = t /\ Wrong \in Packet /\ Wrong.type = "wrong"
  BY Packets
<1>3. toPage' = toPage \/ toPage' = Append(toPage, Wrong) \/ toPage' = Append(toPage, Msg(t, x))
  BY DEF Reply
<1> QED
  BY <1>1, <1>2, <1>3, NoNewSame, NoNewAppend

LEMMA EndNoNew ==
  ASSUME QueueTypes
  PROVE  /\ NoNew(toPage, Append(toPage, End), "file_upload_complete")
         /\ NoNew(toDaemon, Append(toDaemon, End), "file_upload_start")
BY Packets, NoNewAppend DEF QueueTypes

\* What an action does: the queues and the two ends of the upload keep their
\* relation, and nothing is announced or stored.
LEMMA UploadKept ==
  ASSUME UploadInv,
         NoNew(sends, sends', "file_upload_start"), NoNew(toDaemon, toDaemon', "file_upload_start"),
         NoNew(toPage, toPage', "file_upload_complete"),
         sentChunks' \in Nat, received' \in Nat,
         upload' = "idle" => upload = "idle",
         upload' = "done" => upload = "done" \/ Has(toPage, "file_upload_complete"),
         file = "none" => file' = "none",
         file' = "stored" <=> file = "stored", file = "stored" => UNCHANGED received
  PROVE  UploadInv'
<1>1. QueueTypes'
  BY DEF QueueTypes, NoNew
<1>2. StartOnce'
  BY StartKept DEF UploadInv
<1>3. (UploadExact /\ CompleteStored)'
  BY ExactKept DEF UploadInv
<1> QED
  BY <1>1, <1>2, <1>3 DEF UploadInv

\* The page's messages, other than the announcement.
LEMMA EnqueueNoNew ==
  ASSUME QueueTypes, NEW t \in Kinds, NEW x \in Ids,
         t # "file_upload_start", Enqueue(Msg(t, x))
  PROVE  NoNew(sends, sends', "file_upload_start")
BY Packets, NoNewAppend DEF QueueTypes, Enqueue

\* The queues nobody touches.
LEMMA Untouched ==
  ASSUME QueueTypes
  PROVE  /\ UNCHANGED sends => NoNew(sends, sends', "file_upload_start")
         /\ UNCHANGED toDaemon => NoNew(toDaemon, toDaemon', "file_upload_start")
         /\ UNCHANGED toPage => NoNew(toPage, toPage', "file_upload_complete")
BY NoNewSame DEF QueueTypes

\* The daemon's reader takes a packet off.
LEMMA PopNoNew ==
  ASSUME QueueTypes, Pop
  PROVE  /\ NoNew(toDaemon, toDaemon', "file_upload_start")
         /\ Head(toDaemon).id \in Ids
         /\ Head(toDaemon).type = "file_upload_start" => Has(toDaemon, "file_upload_start")
<1>1. toDaemon \in Seq(Packet) /\ toDaemon # <<>> /\ toDaemon' = Tail(toDaemon)
  BY DEF QueueTypes, Pop
<1>2. /\ NoNew(toDaemon, Tail(toDaemon), "file_upload_start") /\ Head(toDaemon) \in Packet
      /\ Head(toDaemon).type = "file_upload_start" => Has(toDaemon, "file_upload_start")
  BY <1>1, NoNewTail
<1> QED
  BY <1>1, <1>2 DEF Packet

LEMMA UploadPage ==
  ASSUME UploadInv, Page \/ \E r \in Requests : RequestTimeout(r)
  PROVE  UploadInv'
<1> USE IdsHave DEF daemonVars, pageVars, uploadVars, Kinds
<1>0. QueueTypes /\ sentChunks \in Nat /\ received \in Nat
  BY DEF UploadInv, QueueTypes
<1>1. ASSUME NoNew(sends, sends', "file_upload_start"), UNCHANGED <<toDaemon, toPage, sentChunks, received, file>>,
             upload' = "idle" => upload = "idle", upload' = "done" => upload = "done"
      PROVE  UploadInv'
  BY <1>0, <1>1, Untouched, UploadKept
<1>2. CASE Greet
  BY <1>0, <1>1, <1>2, EnqueueNoNew DEF Greet
<1>3. CASE GreetFails \/ AuthTimeout
  BY <1>0, <1>1, <1>3, Untouched DEF GreetFails, AuthTimeout
<1>4. CASE Disconnect
  <2>1. CASE UNCHANGED toDaemon
    BY <1>0, <1>1, <1>4, <2>1, Untouched DEF Disconnect, fail
  <2>2. CASE toDaemon' = Append(toDaemon, End)
    <3>1. NoNew(toDaemon, toDaemon', "file_upload_start")
      BY <1>0, <2>2, EndNoNew
    <3>2. /\ UNCHANGED <<sends, toPage, sentChunks, received, file>>
          /\ upload' = "idle" => upload = "idle"
          /\ upload' = "done" => upload = "done"
      BY <1>4 DEF Disconnect, fail
    <3> QED
      BY <1>0, <3>1, <3>2, Untouched, UploadKept
  <2> QED
    BY <1>4, <2>1, <2>2 DEF Disconnect, fail
<1>5. CASE uploadFile
  <2> DEFINE x == Msg("file_upload_start", None)
  <2>1. /\ sends' = Append(sends, x) /\ upload = "idle" /\ upload' = "start"
        /\ UNCHANGED <<toDaemon, toPage, sentChunks, received, file>>
    BY <1>5 DEF uploadFile, Enqueue
  <2>2. x \in Packet
    BY Packets
  <2> HIDE DEF x
  <2>3. /\ file = "none" /\ ~Has(sends, "file_upload_start") /\ ~Has(toDaemon, "file_upload_start")
        /\ Single(toDaemon, "file_upload_start")
    BY <2>1 DEF UploadInv, StartOnce
  <2>4. sends' \in Seq(Packet) /\ Single(sends', "file_upload_start")
    BY <1>0, <2>1, <2>2, <2>3, FirstAppend DEF QueueTypes
  <2>5. StartOnce'
    BY <2>1, <2>3, <2>4 DEF StartOnce
  <2>6. QueueTypes' /\ (UploadExact /\ CompleteStored)'
    BY <1>0, <2>1, <2>4 DEF UploadInv, QueueTypes, UploadExact, CompleteStored
  <2> QED
    BY <2>5, <2>6 DEF UploadInv
<1>6. CASE UploadTimeout
  <2>1. NoNew(sends, sends', "file_upload_start")
    BY <1>0, <1>6, EnqueueNoNew, Untouched DEF UploadTimeout
  <2> QED
    BY <1>1, <1>6, <2>1 DEF UploadTimeout
<1>7. ASSUME NEW r \in Requests, request(r) PROVE UploadInv'
  <2>1. NoNew(sends, sends', "file_upload_start")
    BY <1>0, <1>7, EnqueueNoNew DEF request
  <2> QED
    BY <1>1, <1>7, <2>1 DEF request
<1>8. ASSUME NEW r \in Requests, RequestTimeout(r) PROVE UploadInv'
  BY <1>0, <1>1, <1>8, Untouched DEF RequestTimeout
<1>9. ASSUME NEW l \in Links, openLink(l) \/ linkSend(l) \/ closeLink(l) PROVE UploadInv'
  <2>1. NoNew(sends, sends', "file_upload_start")
    <3>1. CASE openLink(l)
      BY <1>0, <3>1, EnqueueNoNew DEF openLink
    <3>2. CASE linkSend(l)
      BY <1>0, <3>2, EnqueueNoNew DEF linkSend
    <3>3. CASE closeLink(l)
      BY <1>0, <3>3, EnqueueNoNew, Untouched DEF closeLink
    <3> QED
      BY <1>9, <3>1, <3>2, <3>3
  <2>2. UNCHANGED <<toDaemon, toPage, sentChunks, received, file, upload>>
    BY <1>9 DEF openLink, linkSend, closeLink
  <2> QED
    BY <1>1, <2>1, <2>2
<1> QED
  BY <1>2, <1>3, <1>4, <1>5, <1>6, <1>7, <1>8, <1>9 DEF Page

LEMMA UploadChain ==
  ASSUME UploadInv, Chain
  PROVE  UploadInv'
<1> USE IdsHave DEF daemonVars, pageVars, uploadVars, Kinds
<1>0. /\ QueueTypes /\ sentChunks \in Nat /\ received \in Nat
      /\ sends \in Seq(Packet) /\ toDaemon \in Seq(Packet) /\ toPage \in Seq(Packet)
  BY DEF UploadInv, QueueTypes
<1>1. CASE Send
  <2> DEFINE x == Head(sends)
  <2>1. /\ sends # <<>> /\ sends' = Tail(sends) /\ toDaemon' = Append(toDaemon, x)
        /\ UNCHANGED <<toPage, upload, sentChunks, file, received>>
    BY <1>1 DEF Send
  <2>2. /\ NoNew(sends, sends', "file_upload_start") /\ x \in Packet
        /\ x.type = "file_upload_start" => Has(sends, "file_upload_start")
        /\ Single(sends, "file_upload_start") /\ x.type = "file_upload_start" => ~Has(sends', "file_upload_start")
    BY <1>0, <2>1, NoNewTail
  <2> HIDE DEF x
  <2>3. CASE x.type # "file_upload_start"
    <3>1. NoNew(toDaemon, toDaemon', "file_upload_start")
      BY <1>0, <2>1, <2>2, <2>3, NoNewAppend
    <3> QED
      BY <1>0, <2>1, <2>2, <3>1, Untouched, UploadKept
  <2>4. CASE x.type = "file_upload_start"
    <3>1. /\ ~Has(toDaemon, "file_upload_start") /\ file = "none" /\ upload # "idle"
          /\ ~Has(sends', "file_upload_start") /\ Single(sends', "file_upload_start")
      BY <2>2, <2>4 DEF UploadInv, StartOnce, NoNew
    <3>2. toDaemon' \in Seq(Packet) /\ Single(toDaemon', "file_upload_start")
      BY <1>0, <2>1, <2>2, <3>1, FirstAppend
    <3>3. StartOnce'
      BY <2>1, <3>1, <3>2 DEF StartOnce
    <3>4. QueueTypes' /\ (UploadExact /\ CompleteStored)'
      BY <1>0, <2>1, <2>2, <3>2 DEF UploadInv, QueueTypes, UploadExact, CompleteStored, NoNew
    <3> QED
      BY <3>3, <3>4 DEF UploadInv
  <2> QED
    BY <2>3, <2>4
<1>2. CASE SendRejected
  <2>1. NoNew(sends, sends', "file_upload_start")
    BY <1>0, <1>2, NoNewTail DEF SendRejected
  <2>2. /\ UNCHANGED <<toDaemon, toPage, sentChunks, received, file>>
        /\ upload' \in {upload, "failed"}
    BY <1>2 DEF SendRejected
  <2> QED
    BY <1>0, <2>1, <2>2, Untouched, UploadKept
<1>3. CASE receive
  <2> DEFINE m == Head(toPage)
  <2>1. toPage # <<>> /\ toPage' = Tail(toPage) /\ UNCHANGED <<file, received>>
    BY <1>3 DEF receive
  <2>2. /\ NoNew(toPage, toPage', "file_upload_complete")
        /\ m.type = "file_upload_complete" => Has(toPage, "file_upload_complete")
    BY <1>0, <2>1, NoNewTail
  <2>3. CASE fail /\ UNCHANGED sends
    <3>1. toDaemon' = toDaemon \/ toDaemon' = Append(toDaemon, End)
      BY <2>3 DEF fail
    <3>2. NoNew(toDaemon, toDaemon', "file_upload_start")
      BY <1>0, <3>1, EndNoNew, Untouched
    <3>3. UNCHANGED sentChunks /\ upload' \in {upload, "failed"}
      BY <2>3 DEF fail
    <3> QED
      BY <1>0, <2>1, <2>2, <2>3, <3>2, <3>3, Untouched, UploadKept
  <2>4. CASE Dispatch(m) /\ UNCHANGED toDaemon
    <3> HIDE DEF m
    <3>1. CASE UNCHANGED <<uploadVars, sends>>
      BY <1>0, <2>1, <2>2, <2>4, <3>1, Untouched, UploadKept
    <3>2. CASE UploadReply(m.type) /\ expect
      <4>1. CASE m.type = "file_upload_error"
        <5>1. upload' = "failed" /\ UNCHANGED sentChunks /\ Enqueue(Msg("file_upload_cancel", None))
          BY <3>2, <4>1 DEF UploadReply
        <5>2. NoNew(sends, sends', "file_upload_start")
          BY <1>0, <5>1, EnqueueNoNew
        <5> QED
          BY <1>0, <2>1, <2>2, <2>4, <5>1, <5>2, Untouched, UploadKept
      <4>2. CASE m.type = "file_upload_complete"
        <5>1. upload' = "done" /\ UNCHANGED <<sentChunks, sends>>
          BY <3>2, <4>2 DEF UploadReply
        <5> QED
          BY <1>0, <2>1, <2>2, <2>4, <4>2, <5>1, Untouched, UploadKept
      <4>3. CASE m.type \notin {"file_upload_error", "file_upload_complete"}
        <5> DEFINE n == IF upload = "chunk" THEN sentChunks + 1 ELSE 0
        <5>1. n \in Nat
          BY <1>0
        <5>2. /\ sentChunks' = n /\ upload' \in {"chunk", "finish"}
              /\ Enqueue(Msg("file_upload_chunk", n)) \/ Enqueue(Msg("file_upload_finish", None))
          BY <3>2, <4>3 DEF UploadReply
        <5> HIDE DEF n
        <5>3. NoNew(sends, sends', "file_upload_start")
          BY <1>0, <5>1, <5>2, EnqueueNoNew
        <5> QED
          BY <1>0, <2>1, <2>2, <2>4, <5>1, <5>2, <5>3, Untouched, UploadKept
      <4> QED
        BY <4>1, <4>2, <4>3
    <3> QED
      BY <2>4, <3>1, <3>2 DEF Dispatch, UploadReply
  <2> QED
    BY <1>3, <2>3, <2>4 DEF receive
<1> QED
  BY <1>1, <1>2, <1>3 DEF Chain

LEMMA UploadReader ==
  ASSUME UploadInv, Reader
  PROVE  UploadInv'
<1> USE IdsHave DEF daemonVars, pageVars, uploadVars, Kinds
<1>0. /\ QueueTypes /\ sentChunks \in Nat /\ received \in Nat
      /\ sends \in Seq(Packet) /\ toDaemon \in Seq(Packet) /\ toPage \in Seq(Packet)
  BY DEF UploadInv, QueueTypes
\* Neither stores a file nor begins one.
<1>1. ASSUME NoNew(toDaemon, toDaemon', "file_upload_start"),
             NoNew(toPage, toPage', "file_upload_complete"),
             UNCHANGED <<sends, upload, sentChunks>>, received' \in Nat,
             file' = file \/ (file = "temp" /\ file' = "removed"),
             file = "stored" => UNCHANGED received
      PROVE  UploadInv'
  BY <1>0, <1>1, Untouched, UploadKept
<1>2. CASE authenticateChannel
  <2>1. NoNew(toDaemon, toDaemon', "file_upload_start")
    BY <1>0, <1>2, PopNoNew DEF authenticateChannel, Arrives
  <2>2. NoNew(toPage, toPage', "file_upload_complete")
    BY <1>0, <1>2, ReplyNoNew, EndNoNew, Untouched DEF authenticateChannel
  <2>3. UNCHANGED <<sends, upload, sentChunks, received>>
        /\ (file' = file \/ (file = "temp" /\ file' = "removed"))
    BY <1>2 DEF authenticateChannel, closeChannel
  <2> QED
    BY <1>0, <1>1, <2>1, <2>2, <2>3
<1>3. CASE ReadRequest \/ ReadTerminalOpen \/ ReadWindowOpen \/ ReadLinkClose \/ ReadClosed
  <2>1. Pop /\ UNCHANGED <<sends, toPage, upload, sentChunks, received, file>>
    BY <1>3 DEF ReadRequest, ReadTerminalOpen, ReadWindowOpen, ReadLinkClose, ReadClosed, Authed, Arrives
  <2> QED
    BY <1>0, <1>1, <2>1, PopNoNew, Untouched
<1>4. ASSUME NEW t \in Terminals, openLocalSocket(t) PROVE UploadInv'
  <2>1. UNCHANGED <<sends, toDaemon, upload, sentChunks, received, file>>
    BY <1>4 DEF openLocalSocket
  <2>2. t \in Ids
    BY DEF Links
  <2>3. Reply(Msg("link_opened", t)) \/ Reply(Msg("link_closed", t))
    BY <1>4 DEF openLocalSocket
  <2>4. NoNew(toPage, toPage', "file_upload_complete")
    BY <1>0, <2>2, <2>3, ReplyNoNew
  <2> QED
    BY <1>0, <1>1, <2>1, <2>4, Untouched
<1>10. CASE ReadLinkData
  <2>1. Pop /\ UNCHANGED <<sends, upload, sentChunks, received, file>>
    BY <1>10 DEF ReadLinkData, Authed, Arrives
  <2>2. Head(toDaemon).id \in Ids
    BY <1>0, <2>1, PopNoNew
  <2>3. UNCHANGED toPage \/ Reply(Msg("link_closed", Head(toDaemon).id))
    BY <1>10 DEF ReadLinkData
  <2>4. NoNew(toPage, toPage', "file_upload_complete")
    BY <1>0, <2>2, <2>3, ReplyNoNew, Untouched
  <2> QED
    BY <1>0, <1>1, <2>1, <2>4, PopNoNew
<1>5. CASE ReadUploadStart
  <2>1. /\ Pop /\ Head(toDaemon).type = "file_upload_start"
        /\ UNCHANGED <<sends, upload, sentChunks, received>>
    BY <1>5 DEF ReadUploadStart, Authed, Arrives
  <2>2. CASE Reply(Msg("file_upload_error", None)) /\ UNCHANGED file
    <3>1. NoNew(toPage, toPage', "file_upload_complete")
      BY <1>0, <2>2, ReplyNoNew
    <3> QED
      BY <1>0, <1>1, <2>1, <2>2, <3>1, PopNoNew
  <2>3. CASE file' = "creating" /\ UNCHANGED toPage
    <3>1. /\ toDaemon # <<>> /\ toDaemon' = Tail(toDaemon)
          /\ NoNew(toDaemon, toDaemon', "file_upload_start") /\ Has(toDaemon, "file_upload_start")
      BY <1>0, <2>1, PopNoNew DEF Pop
    <3>2. ~Has(toDaemon', "file_upload_start")
      BY <1>0, <2>1, <3>1, NoNewTail DEF UploadInv, StartOnce
    <3>3. file = "none" /\ upload # "idle" /\ ~Has(sends, "file_upload_start")
      BY <3>1 DEF UploadInv, StartOnce
    <3>4. QueueTypes'
      BY <1>0, <2>1, <2>3, <3>1 DEF QueueTypes, NoNew
    <3>5. StartOnce'
      BY <2>1, <3>1, <3>2, <3>3 DEF UploadInv, StartOnce, NoNew
    <3>6. (UploadExact /\ CompleteStored)'
      BY <2>1, <2>3, <3>3 DEF UploadInv, UploadExact, CompleteStored
    <3> QED
      BY <3>4, <3>5, <3>6 DEF UploadInv
  <2> QED
    BY <1>5, <2>2, <2>3 DEF ReadUploadStart
<1>6. CASE startFileUpload
  <2>1. /\ UNCHANGED <<sends, toDaemon, upload, sentChunks, received>> /\ file = "creating" /\ file' = "temp"
        /\ Reply(Msg("file_upload_ready", None))
    BY <1>6 DEF startFileUpload
  <2>2. NoNew(toPage, toPage', "file_upload_complete")
    BY <1>0, <2>1, ReplyNoNew
  <2> QED
    BY <1>0, <2>1, <2>2, Untouched, UploadKept
<1>7. CASE writeFileUpload
  <2>1. Pop /\ UNCHANGED <<sends, upload, sentChunks>>
    BY <1>7 DEF writeFileUpload, Authed, Arrives
  <2>2. CASE file = "temp" /\ received' = received + 1 /\ Reply(Msg("file_upload_progress", None)) /\ UNCHANGED file
    <3>1. NoNew(toPage, toPage', "file_upload_complete") /\ received' \in Nat
      BY <1>0, <2>2, ReplyNoNew
    <3> QED
      BY <1>0, <1>1, <2>1, <2>2, <3>1, PopNoNew
  <2>3. CASE /\ file' = IF file = "temp" THEN "removed" ELSE file
             /\ Reply(Msg("file_upload_error", None)) /\ UNCHANGED received
    <3>1. NoNew(toPage, toPage', "file_upload_complete")
      BY <1>0, <2>3, ReplyNoNew
    <3> QED
      BY <1>0, <1>1, <2>1, <2>3, <3>1, PopNoNew
  <2> QED
    BY <1>7, <2>2, <2>3 DEF writeFileUpload
<1>8. CASE finishFileUpload
  <2>1. Pop /\ UNCHANGED <<sends, upload, sentChunks, received>>
    BY <1>8 DEF finishFileUpload, Authed, Arrives
  <2>2. CASE Complete /\ file' = "stored" /\ Reply(Msg("file_upload_complete", None))
    <3> DEFINE x == Msg("file_upload_complete", None)
    <3>1. file = "temp" /\ received' = Chunks
      BY <2>1, <2>2 DEF Complete
    <3>2. toPage' \in Seq(Packet)
      <4>1. x \in Packet /\ Wrong \in Packet
        BY Packets
      <4>2. toPage' \in {toPage, Append(toPage, Wrong), Append(toPage, x)}
        BY <2>2 DEF Reply
      <4>3. \A y \in Packet : Append(toPage, y) \in Seq(Packet)
        BY <1>0
      <4> HIDE DEF x
      <4> QED
        BY <1>0, <4>1, <4>2, <4>3
    <3>3. NoNew(toDaemon, toDaemon', "file_upload_start")
      BY <1>0, <2>1, PopNoNew
    <3>4. QueueTypes'
      BY <1>0, <2>1, <3>2, <3>3 DEF QueueTypes, NoNew
    <3>5. StartOnce'
      BY <2>1, <3>1, <3>3 DEF UploadInv, StartOnce, NoNew
    <3>6. (UploadExact /\ CompleteStored)'
      BY <2>2, <3>1 DEF UploadExact, CompleteStored
    <3> QED
      BY <3>4, <3>5, <3>6 DEF UploadInv
  <2>3. CASE /\ file' = IF file = "temp" THEN "removed" ELSE file
             /\ Reply(Msg("file_upload_error", None))
    <3>1. NoNew(toPage, toPage', "file_upload_complete")
      BY <1>0, <2>3, ReplyNoNew
    <3> QED
      BY <1>0, <1>1, <2>1, <2>3, <3>1, PopNoNew
  <2> QED
    BY <1>8, <2>2, <2>3 DEF finishFileUpload
<1>9. CASE cancelFileUpload \/ ReadEnd
  <2>1. /\ Pop /\ UNCHANGED <<sends, toPage, upload, sentChunks, received>>
        /\ file' = file \/ (file = "temp" /\ file' = "removed")
    BY <1>9 DEF cancelFileUpload, Cancelled, ReadEnd, closeChannel, Authed, Arrives
  <2> QED
    BY <1>0, <1>1, <2>1, PopNoNew, Untouched
<1> QED
  BY <1>2, <1>3, <1>4, <1>5, <1>6, <1>7, <1>8, <1>9, <1>10 DEF Reader

LEMMA UploadDaemon ==
  ASSUME UploadInv, Daemon
  PROVE  UploadInv'
<1> USE IdsHave DEF daemonVars, pageVars, uploadVars, Kinds
<1>0. QueueTypes /\ sentChunks \in Nat /\ received \in Nat
  BY DEF UploadInv, QueueTypes
<1>1. ASSUME NoNew(toPage, toPage', "file_upload_complete"),
             UNCHANGED <<sends, toDaemon, upload, sentChunks, received>>,
             file' = file \/ (file = "temp" /\ file' = "removed")
      PROVE  UploadInv'
  BY <1>0, <1>1, Untouched, UploadKept
<1>2. CASE AuthDeadline \/ DaemonLost
  <2>1. /\ toPage' = Append(toPage, End)
        /\ UNCHANGED <<sends, toDaemon, upload, sentChunks, received>>
        /\ file' = file \/ (file = "temp" /\ file' = "removed")
    BY <1>2 DEF AuthDeadline, DaemonLost, closeChannel
  <2> QED
    BY <1>0, <1>1, <2>1, EndNoNew
<1>3. ASSUME NEW r \in Requests, handleHTTPRequest(r) PROVE UploadInv'
  <2>1. NoNew(toPage, toPage', "file_upload_complete")
    BY <1>0, <1>3, ReplyNoNew, Untouched DEF handleHTTPRequest
  <2> QED
    BY <1>1, <1>3, <2>1 DEF handleHTTPRequest
<1>4. ASSUME NEW w \in Windows, openWindow(w) PROVE UploadInv'
  <2>1. w \in Links
    BY DEF Links
  <2>2. Reply(Msg("link_opened", w)) \/ Reply(Msg("link_closed", w))
    BY <1>4 DEF openWindow
  <2>3. NoNew(toPage, toPage', "file_upload_complete")
    BY <1>0, <2>1, <2>2, ReplyNoNew
  <2> QED
    BY <1>1, <1>4, <2>3 DEF openWindow
<1>5. ASSUME NEW l \in Links, Output(l) \/ SourceEnds(l) PROVE UploadInv'
  <2>1. UNCHANGED toPage \/ Reply(Msg("link_data", l)) \/ Reply(Msg("link_closed", l))
    BY <1>5 DEF Output, SourceEnds
  <2>2. NoNew(toPage, toPage', "file_upload_complete")
    BY <1>0, <2>1, ReplyNoNew, Untouched
  <2>3. UNCHANGED <<sends, toDaemon, upload, sentChunks, received, file>>
    BY <1>5 DEF Output, SourceEnds
  <2> QED
    BY <1>1, <2>2, <2>3
<1> QED
  BY <1>2, <1>3, <1>4, <1>5 DEF Daemon

\* The page reports an upload as done only when the file is stored, and whole, for
\* files of any number of chunks and whatever is lost, cancelled or late.
THEOREM BridgeUploadExact == Spec => []UploadExact
<1>1. Init => UploadInv
  <2> SUFFICES ASSUME Init PROVE UploadInv
    OBVIOUS
  <2>1. QueueTypes
    BY DEF Init, QueueTypes
  <2>2. \A t : ~Has(<<>>, t) /\ Single(<<>>, t)
    BY DEF Has, Single
  <2>3. StartOnce /\ CompleteStored /\ UploadExact
    BY <2>2 DEF Init, StartOnce, CompleteStored, UploadExact
  <2> QED
    BY <2>1, <2>3 DEF UploadInv
<1>2. UploadInv /\ [Next]_vars => UploadInv'
  <2> SUFFICES ASSUME UploadInv, [Next]_vars PROVE UploadInv'
    OBVIOUS
  <2>1. CASE UNCHANGED vars
    BY <2>1 DEF vars, uploadVars, daemonVars, UploadInv, QueueTypes, StartOnce, CompleteStored, UploadExact
  <2> QED
    BY <2>1, UploadPage, UploadChain, UploadReader, UploadDaemon DEF Next
<1>3. UploadInv => UploadExact
  BY DEF UploadInv
<1> QED
  BY <1>1, <1>2, <1>3, PTL DEF Spec
================================================================================
