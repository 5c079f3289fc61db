--------------------------- MODULE CoordinatorProofs ---------------------------
(***************************************************************************)
(* Proofs about the coordinator, for any number of workflows, runs,        *)
(* agents, directories and stages.                                         *)
(***************************************************************************)
EXTENDS Coordinator, FiniteSetTheorems, TLAPS

\* What an UPDATE of stage rows returns: the same positions and agents, the new
\* status at the chosen positions.
LEMMA MarkRows ==
  ASSUME NEW q \in Seq(Stage), NEW I, NEW s \in StageStatus
  PROVE  /\ Mark(q, I, s) \in Seq(Stage)
         /\ DOMAIN Mark(q, I, s) = DOMAIN q
         /\ \A i \in DOMAIN q : Mark(q, I, s)[i].status = IF i \in I THEN s ELSE q[i].status
<1> DEFINE t == Mark(q, I, s)
<1>1. DOMAIN q = 1..Len(q) /\ Len(q) \in Nat
  OBVIOUS
<1>2. \A i \in 1..Len(q) : q[i] \in Stage
  OBVIOUS
<1>3. \A i \in 1..Len(q) : t[i] \in Stage
  BY <1>1, <1>2 DEF Mark, Stage
<1>4. t = [i \in 1..Len(q) |-> t[i]]
  BY <1>1 DEF Mark
<1>5. t \in Seq(Stage)
  <2> HIDE DEF t
  <2> QED BY <1>1, <1>3, <1>4
<1> QED BY <1>1, <1>2, <1>5 DEF Mark

\* Every step of the coordinator keeps every variable in its type, for any
\* Environment.
THEOREM CoordinatorTypeOK == Spec => []TypeOK
<1>1. Init => TypeOK
  BY DEF Init, TypeOK, WfStatus, StageStatus, Settled, Point, Session, CancelPoint
<1>2. TypeOK /\ [Next]_vars => TypeOK'
  <2> SUFFICES ASSUME TypeOK, [Next]_vars PROVE TypeOK'
    OBVIOUS
  <2> USE CoordinatorAssumption DEF TypeOK, vars, store, maps, local, proc, calls, Goto
  <2>1. ASSUME NEW r \in Runs, Create(r) PROVE TypeOK'
    <3>1. ASSUME NEW w \in Workflows, CreateReserve(r, w) PROVE TypeOK'
      <4> USE <3>1
      <4>1. PICK k \in WorkspaceKeys(w) : NewRun(r, w, k, "reserved")
        BY DEF CreateReserve
      <4>2. k \in Dirs
        BY DEF WorkspaceKeys
      <4> QED BY <4>1, <4>2 DEF CreateReserve, NewRun, Point, Session, StageStatus
    <3>2. ASSUME CreateStore(r) PROVE TypeOK'
      <4> USE <3>2
      <4>1. PICK plan \in Compile : stages' = [stages EXCEPT ![runWf[r]] = plan]
        BY DEF CreateStore
      <4>2. plan \in Seq(Stage)
        <5> DEFINE Plan(n) == [1..n -> [agent : Agents, status : {"queued"}]]
        <5>0. plan \in UNION {Plan(n) : n \in 1..MaxPlanned}
          BY DEF Compile
        <5>1. PICK n \in 1..MaxPlanned : plan \in Plan(n)
          <6> HIDE DEF Plan
          <6> QED BY <5>0
        <5>2. plan \in [1..n -> Stage]
          BY <5>1 DEF Stage, StageStatus
        <5> QED BY <5>2
      <4>3. stages' \in [Workflows -> Seq(Stage)]
        BY <4>1, <4>2
      <4> QED BY <4>3 DEF CreateStore, WfStatus, StageStatus, Point
    <3>3. CASE CreateStoreFails(r)
      BY <3>3 DEF CreateStoreFails, Return, Point, Session, StageStatus
    <3>4. CASE CreateStart(r)
      BY <3>4 DEF CreateStart, Point
    <3> QED BY <2>1, <3>1, <3>2, <3>3, <3>4 DEF Create
  <2>2. ASSUME NEW r \in Runs, run(r) PROVE TypeOK'
    <3>1. CASE RunLoop(r)
      <4>1. runWf[r] \in Workflows
        BY <3>1 DEF RunLoop
      <4>2. Queued(runWf[r]) \subseteq Nat
        BY <4>1 DEF Queued, With
      <4>3. runStage' \in [Runs -> Nat]
        BY <3>1, <4>2 DEF RunLoop
      <4>4. pc' \in [Runs -> Point] /\ (\A s \in Runs : pc'[s] # "done" => pc[s] # "done")
        BY <3>1 DEF RunLoop, Point
      <4> QED BY <3>1, <4>3, <4>4 DEF RunLoop
    <3>2. CASE RunRecheck(r)
      BY <3>2 DEF RunRecheck, Point
    <3>3. CASE RunComplete(r)
      BY <3>3 DEF RunComplete, SetWorkflowStatus, Unregister, Point, WfStatus, StageStatus, Settled
    <3>4. CASE RunStageError(r)
      BY <3>4 DEF RunStageError, Point
    <3>5. CASE RunFail(r)
      BY <3>5 DEF RunFail, SetWorkflowStatus, Point, WfStatus, StageStatus, Settled
    <3>6. CASE RunExit(r)
      BY <3>6 DEF RunExit, Unregister, Return, Point, Session, StageStatus
    <3> QED BY <2>2, <3>1, <3>2, <3>3, <3>4, <3>5, <3>6 DEF run
  <2>3. ASSUME NEW r \in Runs, runStep(r) PROVE TypeOK'
    <3>1. CASE StagePrepare(r)
      <4>1. runWf[r] \in Workflows
        BY <3>1 DEF StagePrepare
      <4>2. pc' \in [Runs -> Point] /\ (\A s \in Runs : pc'[s] # "done" => pc[s] # "done")
        BY <3>1 DEF StagePrepare, Point
      <4>3. unread' \in [Workflows -> SUBSET Agents]
        BY <3>1, <4>1 DEF StagePrepare
      <4>4. outcome' \in [Runs -> StageStatus]
        BY <3>1 DEF StagePrepare, StageStatus, Settled
      <4> QED BY <3>1, <4>2, <4>3, <4>4 DEF StagePrepare
    <3>2. CASE StageSpawn(r)
      BY <3>2 DEF StageSpawn, Point, StageStatus, Settled, Session
    <3>3. CASE StageRecordError(r)
      <4>0. runWf[r] \in Workflows /\ outcome[r] \in StageStatus
        BY <3>3 DEF StageRecordError
      <4>a. Mark(stages[runWf[r]], {runStage[r]}, outcome[r]) \in Seq(Stage)
        BY <4>0, MarkRows
      <4>1. stages' \in [Workflows -> Seq(Stage)]
        BY <3>3, <4>0, <4>a DEF StageRecordError, SetStage, SetStages
      <4> QED BY <3>3, <4>1 DEF StageRecordError, Point
    <3>4. CASE StageAttach(r)
      BY <3>4 DEF StageAttach, Point
    <3>5. CASE StageStart(r)
      <4>0. runWf[r] \in Workflows
        BY <3>5 DEF StageStart
      <4>a. Mark(stages[runWf[r]], {runStage[r]}, "running") \in Seq(Stage)
        BY <4>0, MarkRows DEF StageStatus
      <4>1. stages' \in [Workflows -> Seq(Stage)]
        BY <3>5, <4>0, <4>a DEF StageStart, SetStage, SetStages
      <4>2. wfStatus' \in [Workflows -> WfStatus]
        BY <3>5, <4>0 DEF StageStart, SetWorkflowStatus, WfStatus, StageStatus
      <4>3. session' \in [Runs -> Session]
        BY <3>5 DEF StageStart, StopSessions, Session
      <4>4. pc' \in [Runs -> Point] /\ (\A s \in Runs : pc'[s] # "done" => pc[s] # "done")
        BY <3>5 DEF StageStart, Point
      <4> QED BY <3>5, <4>1, <4>2, <4>3, <4>4 DEF StageStart
    <3>6. CASE StagePrompt(r)
      <4>1. session' \in [Runs -> Session]
        BY <3>6 DEF StagePrompt, StopSessions, Session
      <4>2. outcome' \in [Runs -> StageStatus]
        BY <3>6 DEF StagePrompt, StageStatus, Settled
      <4>3. pc' \in [Runs -> Point] /\ (\A s \in Runs : pc'[s] # "done" => pc[s] # "done")
        BY <3>6 DEF StagePrompt, Point
      <4> QED BY <3>6, <4>1, <4>2, <4>3 DEF StagePrompt
    <3>7. CASE StageStop(r)
      BY <3>7 DEF StageStop, StopSessions, Session
    <3>8. CASE StageCollect(r)
      BY <3>8 DEF StageCollect, Point, StageStatus, Settled
    <3>9. CASE StageRecord(r)
      <4>0. runWf[r] \in Workflows /\ outcome[r] \in StageStatus
        BY <3>9 DEF StageRecord
      <4>a. Mark(stages[runWf[r]], {runStage[r]}, outcome[r]) \in Seq(Stage)
        BY <4>0, MarkRows
      <4>1. stages' \in [Workflows -> Seq(Stage)]
        BY <3>9, <4>0, <4>a DEF StageRecord, SetStage, SetStages
      <4> QED BY <3>9, <4>1 DEF StageRecord, Point
    <3> QED BY <2>3, <3>1, <3>2, <3>3, <3>4, <3>5, <3>6, <3>7, <3>8, <3>9 DEF runStep
  <2>4. ASSUME NEW r \in Runs, SessionExit(r) \/ SessionStopped(r) PROVE TypeOK'
    BY <2>4 DEF SessionExit, SessionStopped, Session
  <2>5. CASE SendMessage
    <3>1. ASSUME NEW w \in Workflows, NEW a \in Agents, SendLock(w, a) PROVE TypeOK'
      BY <3>1 DEF SendLock, WorkspaceKeys, Queued
    <3>2. CASE SendStore
      <4>1. /\ send.wf \in Workflows /\ send.agent \in Agents
            /\ send.key \in Dirs /\ send.start \in BOOLEAN
        BY <3>2 DEF SendStore, Idle
      <4>2. stages' \in [Workflows -> Seq(Stage)]
        <5>1. [agent |-> send.agent, status |-> "queued"] \in Stage
          BY <4>1 DEF Stage, StageStatus
        <5>2. Append(stages[send.wf], [agent |-> send.agent, status |-> "queued"])
                \in Seq(Stage)
          BY <4>1, <5>1
        <5> QED BY <3>2, <4>1, <5>2 DEF SendStore
      <4>3. /\ wfStatus' \in [Workflows -> WfStatus]
            /\ unread' \in [Workflows -> SUBSET Agents]
            /\ send' = Idle /\ UNCHANGED <<canceling, daemon>>
        BY <3>2, <4>1 DEF SendStore, WfStatus, StageStatus
      <4>4. CASE send.start
        <5>1. PICK r \in Runs : NewRun(r, send.wf, send.key, "loop")
          BY <3>2, <4>4 DEF SendStore
        <5>2. /\ running' \in [Workflows -> Runs \cup {None}]
              /\ workspaces' \in [Dirs -> Workflows \cup {None}]
              /\ pc' \in [Runs -> Point]
          BY <4>1, <5>1 DEF NewRun, Point
        <5>3. /\ runWf' \in [Runs -> Workflows \cup {None}]
              /\ runKey' \in [Runs -> Dirs \cup {None}]
              /\ \A s \in Runs : pc'[s] # "done" => runWf'[s] \in Workflows /\ runKey'[s] \in Dirs
          BY <4>1, <5>1 DEF NewRun
        <5>4. /\ runStage' \in [Runs -> Nat] /\ outcome' \in [Runs -> StageStatus]
              /\ ctxDone' \in [Runs -> BOOLEAN] /\ session' \in [Runs -> Session]
              /\ current' \in [Runs -> BOOLEAN]
          BY <5>1 DEF NewRun, StageStatus, Session
        <5> QED BY <4>2, <4>3, <5>2, <5>3, <5>4
      <4>5. CASE ~send.start
        BY <3>2, <4>2, <4>3, <4>5 DEF SendStore
      <4> QED BY <4>4, <4>5
    <3>3. CASE SendFails
      BY <3>3 DEF SendFails
    <3> QED BY <2>5, <3>1, <3>2, <3>3 DEF SendMessage
  <2>6. ASSUME NEW w \in Workflows, Cancel(w) PROVE TypeOK'
    <3>1. CASE CancelSweep(w)
      <4>1. stages' \in [Workflows -> Seq(Stage)]
        BY <3>1, MarkRows DEF CancelSweep, SetStages, StageStatus, Settled
      <4> QED BY <3>1, <4>1 DEF CancelSweep, CancelPoint
    <3>2. CASE CancelCheck(w) \/ CancelStatus(w) \/ CancelFails(w)
      BY <3>2 DEF CancelCheck, CancelStatus, CancelFails, SetWorkflowStatus,
                  CancelPoint, WfStatus, StageStatus, Settled
    <3>3. CASE CancelSignal(w)
      <4>1. session' \in [Runs -> Session]
        BY <3>3 DEF CancelSignal, StopSessions, Session
      <4>2. ctxDone' \in [Runs -> BOOLEAN]
        BY <3>3 DEF CancelSignal
      <4>3. canceling' \in [Workflows -> CancelPoint]
        BY <3>3 DEF CancelSignal, CancelPoint
      <4> QED BY <3>3, <4>1, <4>2, <4>3 DEF CancelSignal
    <3> QED BY <2>6, <3>1, <3>2, <3>3 DEF Cancel
  <2>7. CASE Process
    <3>1. ASSUME markInterrupted
          PROVE  /\ stages' \in [Workflows -> Seq(Stage)]
                 /\ wfStatus' \in [Workflows -> WfStatus]
      BY <3>1, MarkRows DEF markInterrupted, WfStatus, StageStatus, Settled
    <3>2. CASE Close
      BY <3>2 DEF Close, StopSessions, Session
    <3>3. CASE Closed \/ Crash
      <4>1. Forget
        BY <3>3 DEF Closed, Crash
      <4>2. /\ running' \in [Workflows -> Runs \cup {None}]
            /\ workspaces' \in [Dirs -> Workflows \cup {None}]
            /\ pc' \in [Runs -> Point] /\ runWf' \in [Runs -> Workflows \cup {None}]
            /\ runKey' \in [Runs -> Dirs \cup {None}] /\ \A r \in Runs : pc'[r] = "done"
        BY <4>1 DEF Forget, Point
      <4>3. /\ runStage' \in [Runs -> Nat] /\ outcome' \in [Runs -> StageStatus]
            /\ ctxDone' \in [Runs -> BOOLEAN] /\ session' \in [Runs -> Session]
            /\ current' \in [Runs -> BOOLEAN] /\ send' = Idle
            /\ canceling' \in [Workflows -> CancelPoint]
        BY <4>1 DEF Forget, Session, StageStatus, CancelPoint
      <4> QED BY <4>1, <4>2, <4>3 DEF Forget
    <3>4. CASE Restart \/ SecondDaemon
      BY <3>1, <3>4 DEF Restart, SecondDaemon
    <3> QED BY <2>7, <3>2, <3>3, <3>4 DEF Process
  <2>8. CASE UNCHANGED vars
    BY <2>8
  <2> QED BY <2>1, <2>2, <2>3, <2>4, <2>5, <2>6, <2>7, <2>8 DEF Next
<1> QED BY <1>1, <1>2, PTL DEF Spec
--------------------------------------------------------------------------------
(* Slots: the inductive invariant behind the exclusion theorems *)

\* A session that has not been told to stop belongs to a run inside runStage.
LiveOnStage ==
  \A r \in Runs : session[r] = "live" => pc[r] \in {"attach", "start", "prompt", "wait"}

\* A run's key is one workspaceKey can return for its workflow.
KeysHold == \A r \in Runs : pc[r] # "done" => runKey[r] \in WorkspaceKeys(runWf[r])

\* While sendAgentMessage holds mu, what it checked stays true.
SendHolds ==
  send # Idle =>
    /\ \A r \in Runs : pc[r] # "complete"
    /\ send.start => /\ running[send.wf] = None
                     /\ workspaces[send.key] \in {None, send.wf}
                     /\ send.key \in WorkspaceKeys(send.wf)
                     /\ Cardinality(Active) < MaxActive

\* At most MaxActive entries in Manager.running.
Limit == IsFiniteSet(Active) /\ Cardinality(Active) <= MaxActive

SlotInv == TypeOK /\ SlotsAgree /\ LiveOnStage /\ KeysHold /\ SendHolds /\ Limit

\* A step that neither registers, unregisters nor ends a run.
Quiet ==
  /\ UNCHANGED <<running, workspaces, runWf, runKey>>
  /\ \A r \in Runs :
       \/ pc'[r] = pc[r]
       \/ pc[r] \notin {"done", "exit"} /\ pc'[r] # "done"

\* A step that registers run r for workflow w.
Enter(r, w, k) ==
  /\ running[w] = None /\ workspaces[k] \in {None, w} /\ k \in WorkspaceKeys(w)
  /\ Cardinality(Active) < MaxActive
  /\ \E p \in {"reserved", "loop"} : NewRun(r, w, k, p)

\* A step that takes run r out of the maps if it is in them.
Leave(r) ==
  /\ pc[r] # "done" /\ Unregister(r)
  /\ \/ pc' = [pc EXCEPT ![r] = "exit"] /\ UNCHANGED <<runWf, runKey>>
     \/ Return(r)

\* A quiet step keeps maps, keys and limit as they are.
LEMMA QuietKeeps ==
  ASSUME TypeOK, TypeOK', SlotsAgree, KeysHold, Limit, Quiet
  PROVE  SlotsAgree' /\ KeysHold' /\ Limit' /\ Active' = Active
<1>1. Active' = Active
  BY DEF Quiet, Active
<1>2. SlotsAgree'
  <2>1. ASSUME NEW x \in Workflows, running[x] # None
        PROVE  pc'[running[x]] # "done" /\ runWf[running[x]] = x /\ workspaces[runKey[running[x]]] = x
    <3>1. running[x] \in Runs
      BY <2>1 DEF TypeOK
    <3>2. pc[running[x]] # "done" /\ runWf[running[x]] = x /\ workspaces[runKey[running[x]]] = x
      BY <2>1 DEF SlotsAgree
    <3> QED BY <3>1, <3>2 DEF Quiet
  <2>2. ASSUME NEW r \in Runs, pc'[r] \notin {"done", "exit"} PROVE running[runWf[r]] = r
    BY <2>2 DEF SlotsAgree, Quiet
  <2> QED BY <2>1, <2>2 DEF SlotsAgree, Quiet
<1>3. KeysHold'
  BY DEF KeysHold, Quiet, WorkspaceKeys
<1> QED BY <1>1, <1>2, <1>3 DEF Limit

\* Create and sendAgentMessage register a run only where the maps have room.
LEMMA EnterKeeps ==
  ASSUME TypeOK, SlotsAgree, KeysHold, Limit,
         NEW r \in Runs, NEW w \in Workflows, NEW k \in Dirs, Enter(r, w, k)
  PROVE  SlotsAgree' /\ KeysHold' /\ Limit'
<1> USE CoordinatorAssumption
<1>1. /\ running' = [running EXCEPT ![w] = r]
      /\ workspaces' = [workspaces EXCEPT ![k] = w]
      /\ runWf' = [runWf EXCEPT ![r] = w]
      /\ runKey' = [runKey EXCEPT ![r] = k]
      /\ pc[r] = "done" /\ pc'[r] \in {"reserved", "loop"}
      /\ \A s \in Runs \ {r} : pc'[s] = pc[s]
  BY DEF Enter, NewRun, Unused, Goto, TypeOK
<1>2. \A x \in Workflows : running[x] # r
  BY <1>1 DEF SlotsAgree
<1>3. \A x \in Workflows \ {w} : running'[x] # None =>
         /\ pc'[running'[x]] # "done" /\ runWf'[running'[x]] = x
         /\ workspaces'[runKey'[running'[x]]] = x
  <2> TAKE x \in Workflows \ {w}
  <2> HAVE running'[x] # None
  <2>1. running'[x] = running[x] /\ running[x] \in Runs /\ running[x] # r
    BY <1>1, <1>2 DEF TypeOK
  <2>2. /\ pc[running[x]] # "done" /\ runWf[running[x]] = x
        /\ workspaces[runKey[running[x]]] = x /\ runKey[running[x]] \in Dirs
    BY <2>1 DEF SlotsAgree, TypeOK
  <2>3. runKey[running[x]] # k
    BY <2>2 DEF Enter
  <2> QED BY <1>1, <2>1, <2>2, <2>3 DEF TypeOK
<1>4. SlotsAgree'
  <2>1. \A s \in Runs : pc'[s] \notin {"done", "exit"} => running'[runWf'[s]] = s
    <3> TAKE s \in Runs
    <3> HAVE pc'[s] \notin {"done", "exit"}
    <3>1. CASE s = r
      BY <1>1, <3>1 DEF TypeOK
    <3>2. CASE s # r
      <4>1. running[runWf[s]] = s /\ runWf[s] \in Workflows
        BY <1>1, <3>2 DEF SlotsAgree, TypeOK
      <4>2. runWf[s] # w
        BY <4>1 DEF Enter
      <4> QED BY <1>1, <3>2, <4>1, <4>2 DEF TypeOK
    <3> QED BY <3>1, <3>2
  <2>2. /\ pc'[running'[w]] # "done" /\ runWf'[running'[w]] = w
        /\ workspaces'[runKey'[running'[w]]] = w
    BY <1>1 DEF TypeOK
  <2> QED BY <1>3, <2>1, <2>2 DEF SlotsAgree
<1>5. KeysHold'
  BY <1>1 DEF KeysHold, WorkspaceKeys, Enter, TypeOK
<1>6. Limit'
  <2>1. Active' = Active \cup {w} /\ w \notin Active
    BY <1>1 DEF Active, Enter, TypeOK
  <2>2. IsFiniteSet(Active) /\ Cardinality(Active) \in Nat /\ Cardinality(Active) < MaxActive
    BY FS_CardinalityType, CoordinatorAssumption DEF Limit, Enter
  <2>3. IsFiniteSet(Active \cup {w}) /\ Cardinality(Active \cup {w}) = Cardinality(Active) + 1
    BY <2>1, <2>2, FS_AddElement
  <2>4. IsFiniteSet(Active') /\ Cardinality(Active') = Cardinality(Active) + 1
    BY <2>1, <2>3
  <2> HIDE DEF Active
  <2>5. Cardinality(Active') <= MaxActive
    BY <2>2, <2>4, CoordinatorAssumption
  <2> QED BY <2>4, <2>5, CoordinatorAssumption DEF Limit
<1> QED BY <1>4, <1>5, <1>6

\* The owned checks take out the leaving run's entries and nobody else's.
LEMMA LeaveKeeps ==
  ASSUME TypeOK, SlotsAgree, KeysHold, Limit, NEW r \in Runs, Leave(r)
  PROVE  SlotsAgree' /\ KeysHold' /\ Limit'
<1> USE CoordinatorAssumption
<1>w. PICK w \in Workflows : w = runWf[r]
  BY DEF Leave, TypeOK
<1>1. /\ pc'[r] \in {"exit", "done"} /\ \A s \in Runs \ {r} : pc'[s] = pc[s]
      /\ pc'[r] # "done" => runWf'[r] = runWf[r] /\ runKey'[r] = runKey[r]
      /\ \A s \in Runs \ {r} : runWf'[s] = runWf[s] /\ runKey'[s] = runKey[s]
  BY DEF Leave, Return, Goto, TypeOK
<1>2. KeysHold'
  BY <1>1 DEF KeysHold, WorkspaceKeys, Leave
<1>3. CASE running[w] = r
  <2>1. /\ running' = [running EXCEPT ![w] = None]
        /\ workspaces' = [workspaces EXCEPT ![runKey[r]] = None]
    <3>1. workspaces[runKey[r]] = w
      BY <1>w, <1>3 DEF SlotsAgree
    <3> QED BY <1>w, <1>3, <3>1 DEF Leave, Unregister
  <2>2. \A x \in Workflows : running'[x] # None =>
           /\ pc'[running'[x]] # "done" /\ runWf'[running'[x]] = x
           /\ workspaces'[runKey'[running'[x]]] = x
    <3> TAKE x \in Workflows
    <3> HAVE running'[x] # None
    <3>1. x # w /\ running'[x] = running[x] /\ running[x] \in Runs
      BY <2>1 DEF TypeOK
    <3>2. /\ pc[running[x]] # "done" /\ runWf[running[x]] = x
          /\ workspaces[runKey[running[x]]] = x /\ runKey[running[x]] \in Dirs
      BY <3>1 DEF SlotsAgree, TypeOK
    <3>3. running[x] # r
      BY <1>w, <3>1, <3>2
    <3>4. runKey[running[x]] # runKey[r]
      BY <1>w, <1>3, <3>1, <3>2 DEF SlotsAgree
    <3> QED BY <1>1, <2>1, <3>1, <3>2, <3>3, <3>4 DEF TypeOK
  <2>3. \A s \in Runs : pc'[s] \notin {"done", "exit"} => running'[runWf'[s]] = s
    <3> TAKE s \in Runs
    <3> HAVE pc'[s] \notin {"done", "exit"}
    <3>1. s # r /\ pc'[s] = pc[s] /\ runWf'[s] = runWf[s]
      BY <1>1
    <3>2. running[runWf[s]] = s /\ runWf[s] \in Workflows
      BY <3>1 DEF SlotsAgree, TypeOK
    <3>3. runWf[s] # w
      BY <1>3, <3>1, <3>2
    <3> QED BY <2>1, <3>1, <3>2, <3>3 DEF TypeOK
  <2>4. Active' = Active \ {w} /\ w \in Active
    BY <1>3, <2>1 DEF Active, TypeOK
  <2>5. Limit'
    <3>1. IsFiniteSet(Active) /\ Cardinality(Active) \in Nat /\ Cardinality(Active) <= MaxActive
      BY FS_CardinalityType, CoordinatorAssumption DEF Limit
    <3>2. IsFiniteSet(Active \ {w}) /\ Cardinality(Active \ {w}) = Cardinality(Active) - 1
      BY <2>4, <3>1, FS_RemoveElement
    <3>3. IsFiniteSet(Active') /\ Cardinality(Active') = Cardinality(Active) - 1
      BY <2>4, <3>2
    <3>4. Cardinality(Active') <= MaxActive
      BY <3>1, <3>3, CoordinatorAssumption
    <3> QED BY <3>3, <3>4, CoordinatorAssumption DEF Limit
  <2> QED BY <1>2, <2>2, <2>3, <2>5 DEF SlotsAgree
<1>4. CASE running[w] # r
  <2>1. UNCHANGED <<running, workspaces>>
    BY <1>w, <1>4 DEF Leave, Unregister, maps
  <2>2. \A x \in Workflows : running[x] # r
    BY <1>w, <1>4 DEF SlotsAgree
  <2>3. SlotsAgree'
    <3>1. \A x \in Workflows : running'[x] # None =>
             /\ pc'[running'[x]] # "done" /\ runWf'[running'[x]] = x
             /\ workspaces'[runKey'[running'[x]]] = x
      <4> TAKE x \in Workflows
      <4> HAVE running'[x] # None
      <4>1. running'[x] = running[x] /\ running[x] \in Runs \ {r}
        BY <2>1, <2>2 DEF TypeOK
      <4>2. /\ pc[running[x]] # "done" /\ runWf[running[x]] = x
            /\ workspaces[runKey[running[x]]] = x
        BY <4>1 DEF SlotsAgree, TypeOK
      <4> QED BY <1>1, <2>1, <4>1, <4>2
    <3>2. \A s \in Runs : pc'[s] \notin {"done", "exit"} => running'[runWf'[s]] = s
      BY <1>1, <2>1 DEF SlotsAgree
    <3> QED BY <3>1, <3>2 DEF SlotsAgree
  <2>4. Limit'
    BY <2>1 DEF Limit, Active
  <2> QED BY <1>2, <2>3, <2>4
<1> QED BY <1>3, <1>4

\* A quiet step that leaves sendAgentMessage alone, and completes no run while it
\* holds mu.
QuietRun ==
  /\ Quiet /\ send' = send
  /\ \A r \in Runs : pc'[r] = "complete" => pc[r] = "complete" \/ send = Idle

\* What a step may do to sessions: a session is live afterwards only if it was and
\* its run has not moved out of runStage, or its run has just started it.
LiveStep ==
  \A r \in Runs : session'[r] = "live" =>
    \/ session[r] = "live" /\ pc'[r] = pc[r]
    \/ pc'[r] \in {"attach", "start", "prompt", "wait"}

\* Such a step leaves every live session with a run inside runStage.
LEMMA LiveKeeps ==
  ASSUME LiveOnStage, LiveStep
  PROVE  LiveOnStage'
BY DEF LiveOnStage, LiveStep

\* The whole slot invariant survives a quiet step.
LEMMA QuietRunKeeps ==
  ASSUME SlotInv, TypeOK', QuietRun, LiveStep
  PROVE  SlotInv'
<1>1. SlotsAgree' /\ KeysHold' /\ Limit' /\ Active' = Active
  BY QuietKeeps DEF SlotInv, QuietRun
<1>2. SendHolds'
  BY <1>1 DEF SlotInv, SendHolds, QuietRun, Quiet, WorkspaceKeys
<1>3. LiveOnStage'
  BY LiveKeeps DEF SlotInv
<1> QED BY <1>1, <1>2, <1>3 DEF SlotInv

\* A goroutine's steps that stay registered.
RunQuiet(r) ==
  \/ CreateStore(r) \/ CreateStart(r) \/ RunLoop(r) \/ RunRecheck(r)
  \/ RunStageError(r) \/ RunFail(r) \/ runStep(r)

\* The goroutine's steps between registering and leaving are quiet.
LEMMA RunQuietIsQuiet ==
  ASSUME TypeOK, LiveOnStage, NEW r \in Runs, RunQuiet(r)
  PROVE  QuietRun /\ LiveStep
<1>1. UNCHANGED <<running, workspaces, runWf, runKey, send>>
  <2>1. CASE CreateStore(r) \/ CreateStart(r) \/ RunLoop(r) \/ RunRecheck(r)
    BY <2>1 DEF CreateStore, CreateStart, RunLoop, RunRecheck, maps, local, calls
  <2>2. CASE RunStageError(r) \/ RunFail(r)
    BY <2>2 DEF RunStageError, RunFail, maps, local, calls
  <2>3. CASE runStep(r)
    BY <2>3 DEF runStep, StagePrepare, StageSpawn, StageRecordError, StageAttach, StageStart,
                StagePrompt, StageStop, StageCollect, StageRecord, maps, local, calls
  <2> QED BY <2>1, <2>2, <2>3 DEF RunQuiet
<1>2. \E p \in Point \ {"done"} :
         /\ pc' = [pc EXCEPT ![r] = p]
         /\ pc[r] \notin {"done", "exit", "complete"}
         /\ p = "complete" => send = Idle
  <2>1. CASE CreateStore(r) \/ CreateStart(r) \/ RunLoop(r) \/ RunRecheck(r)
    BY <2>1 DEF CreateStore, CreateStart, RunLoop, RunRecheck, Goto, Point, MuFree
  <2>2. CASE RunStageError(r) \/ RunFail(r)
    BY <2>2 DEF RunStageError, RunFail, Goto, Point
  <2>3. CASE StagePrepare(r) \/ StageSpawn(r) \/ StageRecordError(r) \/ StageAttach(r)
    BY <2>3 DEF StagePrepare, StageSpawn, StageRecordError, StageAttach, Goto, Point
  <2>4. CASE StageStart(r) \/ StagePrompt(r) \/ StageCollect(r) \/ StageRecord(r)
    BY <2>4 DEF StageStart, StagePrompt, StageCollect, StageRecord, Goto, Point
  <2>5. CASE StageStop(r)
    <3>1. pc' = pc /\ pc[r] = "wait"
      BY <2>5 DEF StageStop
    <3>2. pc' = [pc EXCEPT ![r] = "wait"]
      BY <3>1 DEF TypeOK
    <3> QED BY <3>1, <3>2 DEF Point
  <2> QED BY <2>1, <2>2, <2>3, <2>4, <2>5 DEF RunQuiet, runStep
<1>3. QuietRun
  <2>1. PICK p \in Point \ {"done"} :
           /\ pc' = [pc EXCEPT ![r] = p]
           /\ pc[r] \notin {"done", "exit", "complete"}
           /\ p = "complete" => send = Idle
    BY <1>2
  <2>2. \A s \in Runs : pc'[s] = IF s = r THEN p ELSE pc[s]
    BY <2>1 DEF TypeOK
  <2>3. Quiet
    BY <1>1, <2>1, <2>2 DEF Quiet
  <2>4. \A s \in Runs : pc'[s] = "complete" => pc[s] = "complete" \/ send = Idle
    BY <2>1, <2>2
  <2> QED BY <1>1, <2>3, <2>4 DEF QuietRun
<1>4. LiveStep
  <2> SUFFICES ASSUME NEW s \in Runs, session'[s] = "live"
               PROVE  \/ session[s] = "live" /\ pc'[s] = pc[s]
                      \/ pc'[s] \in {"attach", "start", "prompt", "wait"}
    BY DEF LiveStep
  <2>1. CASE CreateStore(r) \/ CreateStart(r) \/ RunLoop(r) \/ RunRecheck(r)
    BY <2>1 DEF CreateStore, CreateStart, RunLoop, RunRecheck, Goto, proc, LiveOnStage, TypeOK
  <2>2. CASE RunStageError(r) \/ RunFail(r)
    BY <2>2 DEF RunStageError, RunFail, Goto, proc, LiveOnStage, TypeOK
  <2>3. CASE StagePrepare(r) \/ StageRecordError(r) \/ StageRecord(r)
    BY <2>3 DEF StagePrepare, StageRecordError, StageRecord, Goto, proc, LiveOnStage, TypeOK
  <2>4. CASE StageSpawn(r) \/ StageAttach(r)
    BY <2>4 DEF StageSpawn, StageAttach, Goto, proc, LiveOnStage, TypeOK, StopSessions
  <2>5. CASE StageStart(r) \/ StagePrompt(r) \/ StageStop(r)
    BY <2>5 DEF StageStart, StagePrompt, StageStop, StopSessions, Goto, LiveOnStage, TypeOK
  <2>6. CASE StageCollect(r)
    BY <2>6 DEF StageCollect, Goto, proc, Alive, LiveOnStage, TypeOK
  <2> QED BY <2>1, <2>2, <2>3, <2>4, <2>5, <2>6 DEF RunQuiet, runStep
<1> QED BY <1>3, <1>4

\* A step outside the goroutines that moves no run and starts no session.
Still == /\ UNCHANGED <<running, workspaces, runWf, runKey, pc>>
         /\ \A r \in Runs : session'[r] = "live" => session[r] = "live"

\* Steps that move no run are quiet.
LEMMA StillIsQuiet ==
  ASSUME Still
  PROVE  Quiet /\ LiveStep
<1>1. /\ running' = running /\ workspaces' = workspaces
      /\ runWf' = runWf /\ runKey' = runKey /\ pc' = pc
  BY DEF Still
<1>2. \A r \in Runs : pc'[r] = pc[r]
  BY <1>1
<1>3. Quiet
  BY <1>1, <1>2 DEF Quiet
<1>4. LiveStep
  BY <1>2 DEF Still, LiveStep
<1> QED BY <1>3, <1>4

\* Every step preserves the slot invariant.
LEMMA SlotStep ==
  ASSUME SlotInv, TypeOK', [Next]_vars
  PROVE  SlotInv'
<1> USE CoordinatorAssumption
<1>1. TypeOK /\ SlotsAgree /\ LiveOnStage /\ KeysHold /\ SendHolds /\ Limit
  BY DEF SlotInv
<1>2. ASSUME NEW r \in Runs, NEW w \in Workflows, NEW k \in Dirs, Enter(r, w, k), send' = Idle
      PROVE  SlotInv'
  <2>1. SlotsAgree' /\ KeysHold' /\ Limit'
    BY <1>1, <1>2, EnterKeeps
  <2>2. LiveOnStage'
    BY <1>1, <1>2 DEF Enter, NewRun, Unused, Alive, Goto, LiveOnStage, TypeOK
  <2> QED BY <2>1, <2>2, <1>2 DEF SlotInv, SendHolds
<1>3. ASSUME NEW r \in Runs, Leave(r), send' = Idle, LiveStep
      PROVE  SlotInv'
  <2>1. SlotsAgree' /\ KeysHold' /\ Limit'
    BY <1>1, <1>3, LeaveKeeps
  <2>2. LiveOnStage'
    BY <1>1, <1>3, LiveKeeps
  <2> QED BY <2>1, <2>2, <1>3 DEF SlotInv, SendHolds
<1>4. ASSUME Still, send' = send PROVE SlotInv'
  BY <1>4, StillIsQuiet, QuietRunKeeps DEF QuietRun, Still
<1>5. ASSUME NEW r \in Runs, Return(r), pc[r] \in {"reserved", "exit"} PROVE LiveStep
  BY <1>1, <1>5 DEF Return, Goto, LiveStep, LiveOnStage, Alive, TypeOK
<1>6. ASSUME NEW r \in Runs, RunQuiet(r) PROVE SlotInv'
  BY <1>1, <1>6, RunQuietIsQuiet, QuietRunKeeps
<1>7. ASSUME NEW r \in Runs, NEW w \in Workflows, CreateReserve(r, w) PROVE SlotInv'
  <2>1. PICK k \in WorkspaceKeys(w) : workspaces[k] = None /\ NewRun(r, w, k, "reserved")
    BY <1>7 DEF CreateReserve
  <2>2. k \in Dirs
    BY DEF WorkspaceKeys
  <2>3. Enter(r, w, k) /\ send' = Idle
    BY <1>7, <2>1 DEF CreateReserve, Enter, MuFree, calls
  <2> QED BY <1>2, <2>2, <2>3
<1>8. ASSUME NEW r \in Runs, CreateStoreFails(r) PROVE SlotInv'
  <2>1. pc[r] = "reserved" /\ Return(r) /\ send' = Idle
    BY <1>8 DEF CreateStoreFails, MuFree, calls
  <2>2. running[runWf[r]] = r /\ runWf[r] \in Workflows
    BY <1>1, <2>1 DEF SlotsAgree, TypeOK
  <2>3. workspaces[runKey[r]] = runWf[r]
    BY <1>1, <2>2 DEF SlotsAgree
  <2>4. Unregister(r)
    BY <1>8, <2>2, <2>3 DEF Unregister, CreateStoreFails
  <2> QED BY <1>3, <1>5, <2>1, <2>4 DEF Leave
<1>9. ASSUME NEW r \in Runs, RunComplete(r) PROVE SlotInv'
  <2>1. send' = Idle
    BY <1>1, <1>9 DEF RunComplete, SendHolds, calls
  <2>2. Leave(r)
    BY <1>9 DEF RunComplete, Leave, Goto, local
  <2>3. LiveStep
    BY <1>1, <1>9 DEF RunComplete, LiveStep, LiveOnStage, Goto, proc, TypeOK
  <2> QED BY <1>3, <2>1, <2>2, <2>3
<1>10. ASSUME NEW r \in Runs, RunExit(r) PROVE SlotInv'
  <2>1. Leave(r) /\ send' = Idle
    BY <1>10 DEF RunExit, Leave, MuFree, calls
  <2> QED BY <1>3, <1>5, <1>10, <2>1 DEF RunExit
<1>11. ASSUME NEW r \in Runs, SessionExit(r) \/ SessionStopped(r) PROVE SlotInv'
  <2>1. Still /\ send' = send
    BY <1>1, <1>11 DEF SessionExit, SessionStopped, Still, maps, local, calls, TypeOK
  <2> QED BY <1>4, <2>1
<1>12. ASSUME NEW w \in Workflows, NEW a \in Agents, SendLock(w, a) PROVE SlotInv'
  <2>1. PICK k \in WorkspaceKeys(w) :
           /\ running[w] = None => workspaces[k] \in {None, w} /\ Cardinality(Active) < MaxActive
           /\ send' = [at |-> "locked", wf |-> w, agent |-> a,
                       queued |-> \E i \in Queued(w) : stages[w][i].agent = a,
                       start |-> running[w] = None, key |-> k]
    BY <1>12 DEF SendLock
  <2>2. Still
    BY <1>12 DEF SendLock, Still, maps, local, proc
  <2>3. SlotsAgree' /\ KeysHold' /\ Limit' /\ Active' = Active
    BY <1>1, <2>2, StillIsQuiet, QuietKeeps
  <2>4. LiveOnStage'
    BY <1>1, <2>2, StillIsQuiet, LiveKeeps
  <2>5. /\ send'.wf = w /\ send'.key = k /\ send'.start = (running[w] = None)
    BY <2>1
  <2>6. \A r \in Runs : pc'[r] # "complete"
    BY <1>12, <2>2 DEF SendLock, MuFree, Still
  <2>7. SendHolds'
    BY <2>1, <2>2, <2>3, <2>5, <2>6 DEF SendHolds, Still, WorkspaceKeys
  <2> QED BY <2>3, <2>4, <2>7 DEF SlotInv
<1>13. ASSUME SendStore PROVE SlotInv'
  <2>1. /\ send # Idle /\ send' = Idle
        /\ send.wf \in Workflows /\ send.key \in Dirs /\ send.start \in BOOLEAN
    BY <1>1, <1>13 DEF SendStore, TypeOK
  <2>2. CASE send.start
    <3>1. PICK r \in Runs : NewRun(r, send.wf, send.key, "loop")
      BY <1>13, <2>2 DEF SendStore
    <3>2. Enter(r, send.wf, send.key)
      BY <1>1, <2>1, <2>2, <3>1 DEF SendHolds, Enter
    <3> QED BY <1>2, <2>1, <3>2
  <2>3. CASE ~send.start
    <3>1. Still
      BY <1>13, <2>3 DEF SendStore, Still, maps, local, proc
    <3>2. SlotsAgree' /\ KeysHold' /\ Limit' /\ LiveOnStage'
      BY <1>1, <3>1, StillIsQuiet, QuietKeeps, LiveKeeps
    <3> QED BY <2>1, <3>2 DEF SlotInv, SendHolds
  <2> QED BY <2>1, <2>2, <2>3
<1>14. ASSUME SendFails PROVE SlotInv'
  <2>1. Still
    BY <1>14 DEF SendFails, Still, maps, local, proc
  <2>2. SlotsAgree' /\ KeysHold' /\ Limit' /\ LiveOnStage'
    BY <1>1, <2>1, StillIsQuiet, QuietKeeps, LiveKeeps
  <2> QED BY <1>14, <2>2 DEF SlotInv, SendHolds, SendFails
<1>15. ASSUME NEW w \in Workflows, Cancel(w) PROVE SlotInv'
  <2>1. CASE CancelSignal(w)
    <3>1. Still /\ send' = send
      BY <1>1, <2>1 DEF CancelSignal, StopSessions, Still, maps, local, TypeOK
    <3> QED BY <1>4, <3>1
  <2>2. CASE CancelCheck(w) \/ CancelSweep(w) \/ CancelStatus(w) \/ CancelFails(w)
    <3>1. Still /\ send' = send
      BY <2>2 DEF CancelCheck, CancelSweep, CancelStatus, CancelFails, Still, maps, local, proc
    <3> QED BY <1>4, <3>1
  <2> QED BY <1>15, <2>1, <2>2 DEF Cancel
<1>16. ASSUME Process PROVE SlotInv'
  <2>1. CASE Closed \/ Crash
    <3>1. Forget
      BY <2>1 DEF Closed, Crash
    <3>2. Active' = {}
      BY <3>1 DEF Forget, Active
    <3>3. Limit'
      BY <3>2, FS_EmptySet, CoordinatorAssumption DEF Limit
    <3> QED BY <3>1, <3>3 DEF Forget, SlotInv, SlotsAgree, LiveOnStage, KeysHold, SendHolds
  <2>2. CASE Close
    <3>1. Still /\ send' = send
      BY <1>1, <2>2 DEF Close, StopSessions, Still, maps, local, calls, TypeOK
    <3> QED BY <1>4, <3>1
  <2>3. CASE Restart \/ SecondDaemon
    <3>1. Still /\ send' = send
      BY <2>3 DEF Restart, SecondDaemon, Still, maps, local, proc, calls
    <3> QED BY <1>4, <3>1
  <2> QED BY <1>16, <2>1, <2>2, <2>3 DEF Process
<1>17. CASE UNCHANGED vars
  <2>1. Still /\ send' = send
    BY <1>17 DEF vars, Still, maps, local, proc, calls
  <2> QED BY <1>4, <2>1
<1>18. ASSUME NEW r \in Runs, Create(r) \/ run(r) \/ runStep(r) PROVE SlotInv'
  BY <1>6, <1>7, <1>8, <1>9, <1>10, <1>18 DEF Create, run, RunQuiet
<1> QED BY <1>11, <1>12, <1>13, <1>14, <1>15, <1>16, <1>17, <1>18 DEF Next, SendMessage

\* A daemon starts with empty maps.
LEMMA SlotInit == Init => SlotInv
<1> SUFFICES ASSUME Init PROVE SlotInv
  OBVIOUS
<1>1. Active = {}
  BY DEF Init, Active
<1>2. Limit
  BY <1>1, FS_EmptySet, CoordinatorAssumption DEF Limit
<1>3. TypeOK
  BY CoordinatorAssumption DEF Init, TypeOK, WfStatus, StageStatus, Settled, Point, Session, CancelPoint
<1> QED BY <1>2, <1>3 DEF Init, SlotInv, SlotsAgree, LiveOnStage, KeysHold, SendHolds

\* The slot invariant holds in every reachable state.
THEOREM SlotInvariant == Spec => []SlotInv
<1>1. SlotInv /\ TypeOK' /\ [Next]_vars => SlotInv'
  BY SlotStep
<1> QED BY <1>1, SlotInit, CoordinatorTypeOK, PTL DEF Spec

\* The maps and the goroutines agree in every reachable state.
THEOREM CoordinatorSlotsAgree == Spec => []SlotsAgree
<1>1. SlotInv => SlotsAgree
  BY DEF SlotInv
<1> QED BY <1>1, SlotInvariant, PTL

\* Two agents that were not told to stop work in different repositories, as long
\* as git answers: then a workspace key is the repository.
THEOREM CoordinatorExclusive ==
  ASSUME "git" \notin Environment
  PROVE  Spec => []RepositoryExclusive
<1>1. SlotInv => RepositoryExclusive
  <2> SUFFICES ASSUME SlotInv, NEW r \in Working, NEW s \in Working, Repository(r) = Repository(s)
               PROVE  r = s
    BY DEF RepositoryExclusive
  <2>1. ASSUME NEW x \in Working
        PROVE  /\ runWf[x] \in Workflows /\ running[runWf[x]] = x
               /\ runKey[x] = Repository(x) /\ workspaces[runKey[x]] = runWf[x]
    <3>1. x \in Runs /\ pc[x] \notin {"done", "exit"}
      BY <2>1 DEF Working, SlotInv, LiveOnStage
    <3>2. runWf[x] \in Workflows /\ running[runWf[x]] = x
      BY <3>1 DEF SlotInv, TypeOK, SlotsAgree
    <3>3. workspaces[runKey[x]] = runWf[x]
      BY <3>1, <3>2, CoordinatorAssumption DEF SlotInv, SlotsAgree
    <3>4. runKey[x] = Repository(x)
      BY <3>1 DEF SlotInv, KeysHold, WorkspaceKeys, Repository
    <3> QED BY <3>2, <3>3, <3>4
  <2>2. runWf[r] = runWf[s]
    BY <2>1
  <2> QED BY <2>1, <2>2
<1> QED BY <1>1, SlotInvariant, PTL

\* Never more than two agents at work: a working run is registered, and at most
\* two are.
THEOREM CoordinatorBounded == Spec => []AgentsBounded
<1>1. SlotInv => AgentsBounded
  <2> SUFFICES ASSUME SlotInv PROVE AgentsBounded
    OBVIOUS
  <2> DEFINE f == [r \in Working |-> runWf[r]]
  <2>1. ASSUME NEW x \in Working
        PROVE  runWf[x] \in Active /\ running[runWf[x]] = x
    <3>1. x \in Runs /\ pc[x] \notin {"done", "exit"}
      BY <2>1 DEF Working, SlotInv, LiveOnStage
    <3>2. runWf[x] \in Workflows /\ running[runWf[x]] = x
      BY <3>1 DEF SlotInv, TypeOK, SlotsAgree
    <3> QED BY <3>1, <3>2, CoordinatorAssumption DEF Active
  <2>2. f \in [Working -> Active] /\ \A r, s \in Working : f[r] = f[s] => r = s
    BY <2>1
  <2>3. f \in Injection(Working, Active)
    <3> HIDE DEF f
    <3> QED BY <2>2 DEF Injection, IsInjective
  <2>4. IsFiniteSet(Active) /\ Cardinality(Active) <= MaxActive
    BY DEF SlotInv, Limit
  <2>5. IsFiniteSet(Working) /\ Cardinality(Working) <= Cardinality(Active)
    <3> HIDE DEF f
    <3> QED BY <2>3, <2>4, FS_Injection
  <2>6. Cardinality(Working) \in Nat /\ Cardinality(Active) \in Nat
    BY <2>4, <2>5, FS_CardinalityType
  <2> QED BY <2>4, <2>5, <2>6, CoordinatorAssumption DEF AgentsBounded
<1> QED BY <1>1, SlotInvariant, PTL
--------------------------------------------------------------------------------
(* A completed workflow has no queued turn *)

\* Between the completion check and the status update the queue stays empty.
CompletingIsEmpty == \A r \in Runs : pc[r] = "complete" => Queued(runWf[r]) = {}

\* A stage is never put back into the queue.
OutcomeFinal == \A r \in Runs : pc[r] \in {"stageError", "record"} => outcome[r] # "queued"

QueueInv == CompletedHasNoQueue /\ CompletingIsEmpty /\ OutcomeFinal

\* A step that queues nothing, completes no workflow and begins no completion.
NoNewTurn ==
  /\ \A w \in Workflows : Queued(w)' \subseteq Queued(w)
  /\ \A w \in Workflows : wfStatus'[w] = "completed" => wfStatus[w] = "completed"
  /\ \A r \in Runs : pc'[r] = "complete" => pc[r] = "complete" /\ runWf'[r] = runWf[r]

\* Such a step keeps completed and completing workflows without queued turns.
LEMMA NoNewTurnKeeps ==
  ASSUME TypeOK, QueueInv, NoNewTurn
  PROVE  CompletedHasNoQueue' /\ CompletingIsEmpty'
<1>1. CompletedHasNoQueue'
  BY DEF QueueInv, CompletedHasNoQueue, NoNewTurn
<1>2. CompletingIsEmpty'
  <2> SUFFICES ASSUME NEW r \in Runs, pc'[r] = "complete"
               PROVE  Queued(runWf[r])' = {}
    BY DEF CompletingIsEmpty, NoNewTurn
  <2>1. pc[r] = "complete" /\ runWf'[r] = runWf[r] /\ runWf[r] \in Workflows
    BY DEF NoNewTurn, TypeOK
  <2>2. Queued(runWf[r]) = {}
    BY <2>1 DEF QueueInv, CompletingIsEmpty
  <2>3. \A w \in Workflows : w = runWf'[r] => Queued(w)' = {}
    BY <2>1, <2>2 DEF NoNewTurn
  <2> QED BY <2>1, <2>3
<1> QED BY <1>1, <1>2

\* Replacing statuses by another one than queued queues nothing.
LEMMA MarkQueuesNothing ==
  ASSUME TypeOK, NEW w \in Workflows, NEW I, NEW s \in StageStatus \ {"queued"},
         stages'[w] = Mark(stages[w], I, s)
  PROVE  Queued(w)' \subseteq Queued(w)
<1>1. stages[w] \in Seq(Stage)
  BY DEF TypeOK
<1>2. /\ DOMAIN Mark(stages[w], I, s) = DOMAIN stages[w]
      /\ \A i \in DOMAIN stages[w] :
            Mark(stages[w], I, s)[i].status = IF i \in I THEN s ELSE stages[w][i].status
  BY <1>1, MarkRows
<1> QED BY <1>2 DEF Queued, With

\* The same for a whole UPDATE statement.
LEMMA SetStagesQueuesNothing ==
  ASSUME TypeOK, NEW w \in Workflows, NEW I, NEW s \in StageStatus \ {"queued"},
         SetStages(w, I, s)
  PROVE  \A x \in Workflows : Queued(x)' \subseteq Queued(x)
<1>1. stages'[w] = Mark(stages[w], I, s) /\ \A x \in Workflows \ {w} : stages'[x] = stages[x]
  BY DEF SetStages, TypeOK
<1>2. Queued(w)' \subseteq Queued(w)
  BY <1>1, MarkQueuesNothing
<1> QED BY <1>1, <1>2 DEF Queued, With

\* The rows are left alone.
LEMMA SameStagesQueueNothing ==
  ASSUME stages' = stages
  PROVE  \A x \in Workflows : Queued(x)' = Queued(x)
BY DEF Queued, With

\* The goroutine's steps that end no queue check.
RunSameQueue(r) ==
  \/ CreateStoreFails(r) \/ CreateStart(r) \/ RunLoop(r)
  \/ RunStageError(r) \/ RunFail(r) \/ RunExit(r) \/ runStep(r)

\* They keep the queue invariant.
LEMMA RunSameQueueKeeps ==
  ASSUME TypeOK, QueueInv, NEW r \in Runs, RunSameQueue(r)
  PROVE  QueueInv'
<1>w. pc[r] # "done" => runWf[r] \in Workflows
  BY DEF TypeOK
<1>1. \A x \in Workflows : Queued(x)' \subseteq Queued(x)
  <2>1. CASE CreateStoreFails(r) \/ CreateStart(r) \/ RunLoop(r)
    BY <2>1, SameStagesQueueNothing DEF CreateStoreFails, CreateStart, RunLoop, store
  <2>2. CASE RunStageError(r) \/ RunFail(r) \/ RunExit(r)
    BY <2>2, SameStagesQueueNothing DEF RunStageError, RunFail, RunExit, store
  <2>3. CASE StagePrepare(r) \/ StageSpawn(r) \/ StageAttach(r)
    BY <2>3, SameStagesQueueNothing DEF StagePrepare, StageSpawn, StageAttach, store
  <2>4. CASE StagePrompt(r) \/ StageStop(r) \/ StageCollect(r)
    BY <2>4, SameStagesQueueNothing DEF StagePrompt, StageStop, StageCollect, store
  <2>5. CASE StageStart(r)
    <3>1. "running" \in StageStatus \ {"queued"}
      BY DEF StageStatus
    <3>2. stages' = stages \/ SetStages(runWf[r], {runStage[r]}, "running")
      BY <2>5 DEF StageStart, SetStage
    <3> QED BY <1>w, <2>5, <3>1, <3>2, SameStagesQueueNothing, SetStagesQueuesNothing DEF StageStart
  <2>6. CASE StageRecordError(r) \/ StageRecord(r)
    <3>1. pc[r] \in {"stageError", "record"}
      BY <2>6 DEF StageRecordError, StageRecord
    <3>2. outcome[r] \in StageStatus \ {"queued"}
      BY <3>1 DEF QueueInv, OutcomeFinal, TypeOK
    <3>3. stages' = stages \/ SetStages(runWf[r], {runStage[r]}, outcome[r])
      BY <2>6 DEF StageRecordError, StageRecord, SetStage
    <3> QED BY <1>w, <3>1, <3>2, <3>3, SameStagesQueueNothing, SetStagesQueuesNothing
  <2> QED BY <2>1, <2>2, <2>3, <2>4, <2>5, <2>6 DEF RunSameQueue, runStep
<1>2. \A x \in Workflows : wfStatus'[x] = "completed" => wfStatus[x] = "completed"
  <2>1. CASE CreateStoreFails(r) \/ CreateStart(r) \/ RunLoop(r) \/ RunStageError(r) \/ RunExit(r)
    BY <2>1 DEF CreateStoreFails, CreateStart, RunLoop, RunStageError, RunExit, store
  <2>2. CASE RunFail(r)
    BY <1>w, <2>2 DEF RunFail, SetWorkflowStatus, TypeOK
  <2>3. CASE StageStart(r)
    BY <1>w, <2>3 DEF StageStart, SetWorkflowStatus, TypeOK
  <2>4. CASE StagePrepare(r) \/ StageSpawn(r) \/ StageRecordError(r) \/ StageAttach(r)
    BY <2>4 DEF StagePrepare, StageSpawn, StageRecordError, StageAttach, store
  <2>5. CASE StagePrompt(r) \/ StageStop(r) \/ StageCollect(r) \/ StageRecord(r)
    BY <2>5 DEF StagePrompt, StageStop, StageCollect, StageRecord, store
  <2> QED BY <2>1, <2>2, <2>3, <2>4, <2>5 DEF RunSameQueue, runStep
<1>3. /\ pc'[r] # "complete"
      /\ \A x \in Runs \ {r} : /\ pc'[x] = pc[x] /\ runWf'[x] = runWf[x]
                                /\ outcome'[x] = outcome[x]
      /\ pc'[r] \in {"stageError", "record"} => outcome'[r] # "queued"
  <2>1. CASE CreateStoreFails(r) \/ RunExit(r)
    BY <2>1 DEF CreateStoreFails, RunExit, Return, Goto, TypeOK
  <2>2. CASE CreateStart(r) \/ RunLoop(r) \/ RunStageError(r) \/ RunFail(r)
    BY <2>2 DEF CreateStart, RunLoop, RunStageError, RunFail, Goto, local, TypeOK
  <2>3. CASE StagePrepare(r) \/ StageSpawn(r) \/ StageAttach(r)
    BY <2>3 DEF StagePrepare, StageSpawn, StageAttach, Goto, local, TypeOK
  <2>4. CASE StageStart(r) \/ StageRecordError(r) \/ StageRecord(r)
    BY <2>4 DEF StageStart, StageRecordError, StageRecord, Goto, local, TypeOK
  <2>5. CASE StagePrompt(r) \/ StageStop(r)
    BY <2>5 DEF StagePrompt, StageStop, Goto, local, TypeOK
  <2>6. CASE StageCollect(r)
    BY <2>6 DEF StageCollect, Goto, local, TypeOK
  <2> QED BY <2>1, <2>2, <2>3, <2>4, <2>5, <2>6 DEF RunSameQueue, runStep
<1>4. NoNewTurn
  BY <1>1, <1>2, <1>3 DEF NoNewTurn
<1>5. OutcomeFinal'
  BY <1>3 DEF OutcomeFinal, QueueInv
<1> QED BY <1>4, <1>5, NoNewTurnKeeps DEF QueueInv

\* Every step preserves the queue invariant.
LEMMA QueueStep ==
  ASSUME SlotInv, TypeOK', QueueInv, [Next]_vars
  PROVE  QueueInv'
<1> USE CoordinatorAssumption
<1>1. TypeOK /\ SlotsAgree /\ SendHolds
  BY DEF SlotInv
<1>2. ASSUME UNCHANGED <<stages, wfStatus, pc, runWf, outcome>> PROVE QueueInv'
  <2>1. NoNewTurn
    BY <1>2, SameStagesQueueNothing DEF NoNewTurn
  <2> QED BY <1>1, <1>2, <2>1, NoNewTurnKeeps DEF QueueInv, OutcomeFinal
<1>3. ASSUME NEW r \in Runs, NEW w \in Workflows, CreateReserve(r, w) PROVE QueueInv'
  <2>1. stages' = stages /\ wfStatus' = wfStatus
    BY <1>3 DEF CreateReserve, store
  <2>2. \E k \in WorkspaceKeys(w) : NewRun(r, w, k, "reserved")
    BY <1>3 DEF CreateReserve
  <2>3. pc'[r] = "reserved" /\ \A x \in Runs \ {r} : /\ pc'[x] = pc[x] /\ runWf'[x] = runWf[x]
                                                      /\ outcome'[x] = outcome[x]
    BY <1>1, <2>2 DEF NewRun, Goto, TypeOK
  <2>4. NoNewTurn
    BY <2>1, <2>3, SameStagesQueueNothing DEF NoNewTurn
  <2> QED BY <1>1, <2>3, <2>4, NoNewTurnKeeps DEF QueueInv, OutcomeFinal
<1>4. ASSUME NEW w \in Workflows,
             \A x \in Workflows \ {w} : stages'[x] = stages[x] /\ wfStatus'[x] = wfStatus[x],
             wfStatus'[w] # "completed",
             \A r \in Runs : pc[r] = "complete" => runWf[r] # w,
             \A r \in Runs : pc'[r] = "complete" => pc[r] = "complete" /\ runWf'[r] = runWf[r]
      PROVE  CompletedHasNoQueue' /\ CompletingIsEmpty'
  <2>1. \A x \in Workflows \ {w} : Queued(x)' = Queued(x)
    BY <1>4 DEF Queued, With
  <2>2. CompletedHasNoQueue'
    BY <1>4, <2>1 DEF QueueInv, CompletedHasNoQueue
  <2>3. CompletingIsEmpty'
    <3> SUFFICES ASSUME NEW r \in Runs, pc'[r] = "complete"
                 PROVE  Queued(runWf[r])' = {}
      BY DEF CompletingIsEmpty
    <3>1. /\ pc[r] = "complete" /\ runWf'[r] = runWf[r]
          /\ runWf[r] \in Workflows \ {w} /\ Queued(runWf[r]) = {}
      BY <1>1, <1>4 DEF TypeOK, QueueInv, CompletingIsEmpty
    <3>2. \A x \in Workflows : x = runWf'[r] => Queued(x)' = {}
      BY <2>1, <3>1
    <3> QED BY <3>1, <3>2
  <2> QED BY <2>2, <2>3
<1>5. ASSUME NEW r \in Runs, CreateStore(r) PROVE QueueInv'
  <2>1. pc[r] = "reserved" /\ runWf[r] \in Workflows /\ running[runWf[r]] = r
    BY <1>1, <1>5 DEF CreateStore, TypeOK, SlotsAgree
  <2>2. \A x \in Workflows \ {runWf[r]} : stages'[x] = stages[x] /\ wfStatus'[x] = wfStatus[x]
    BY <1>1, <1>5, <2>1 DEF CreateStore, TypeOK
  <2>3. wfStatus'[runWf[r]] = "queued"
    BY <1>1, <1>5, <2>1 DEF CreateStore, TypeOK
  <2>4. \A x \in Runs : pc[x] = "complete" => runWf[x] # runWf[r]
    BY <1>1, <2>1 DEF SlotsAgree
  <2>5. pc'[r] = "created" /\ \A x \in Runs \ {r} : pc'[x] = pc[x]
    BY <1>1, <1>5 DEF CreateStore, Goto, TypeOK
  <2>6. runWf' = runWf /\ outcome' = outcome
    BY <1>5 DEF CreateStore, local
  <2>7. CompletedHasNoQueue' /\ CompletingIsEmpty'
    BY <1>4, <2>1, <2>2, <2>3, <2>4, <2>5, <2>6
  <2> QED BY <2>5, <2>6, <2>7 DEF QueueInv, OutcomeFinal
<1>6. ASSUME NEW r \in Runs, RunRecheck(r) PROVE QueueInv'
  <2>1. stages' = stages /\ wfStatus' = wfStatus /\ runWf' = runWf /\ outcome' = outcome
    BY <1>6 DEF RunRecheck, store, local
  <2>2. /\ pc'[r] \in {"complete", "loop", "exit"}
        /\ pc'[r] = "complete" => Queued(runWf[r]) = {}
        /\ \A x \in Runs \ {r} : pc'[x] = pc[x]
    BY <1>1, <1>6 DEF RunRecheck, Goto, TypeOK
  <2>3. CompletedHasNoQueue' /\ OutcomeFinal'
    BY <2>1, <2>2 DEF QueueInv, OutcomeFinal, CompletedHasNoQueue, Queued, With
  <2>4. CompletingIsEmpty'
    BY <2>1, <2>2 DEF QueueInv, CompletingIsEmpty, Queued, With
  <2> QED BY <2>3, <2>4 DEF QueueInv
<1>7. ASSUME NEW r \in Runs, RunComplete(r) PROVE QueueInv'
  <2>1. stages' = stages /\ runWf' = runWf /\ outcome' = outcome
    BY <1>7 DEF RunComplete, local
  <2>2. pc'[r] = "exit" /\ \A x \in Runs \ {r} : pc'[x] = pc[x]
    BY <1>1, <1>7 DEF RunComplete, Goto, TypeOK
  <2>3. Queued(runWf[r]) = {} /\ runWf[r] \in Workflows
    BY <1>1, <1>7 DEF RunComplete, QueueInv, CompletingIsEmpty, TypeOK
  <2>4. \A x \in Workflows \ {runWf[r]} : wfStatus'[x] = wfStatus[x]
    BY <1>1, <1>7, <2>3 DEF RunComplete, SetWorkflowStatus, TypeOK
  <2>5. \A x \in Workflows : Queued(x)' = Queued(x)
    BY <2>1, SameStagesQueueNothing
  <2>6. CompletedHasNoQueue'
    BY <2>3, <2>4, <2>5 DEF QueueInv, CompletedHasNoQueue
  <2>7. CompletingIsEmpty'
    BY <2>1, <2>2 DEF QueueInv, CompletingIsEmpty, Queued, With
  <2> QED BY <2>1, <2>2, <2>6, <2>7 DEF QueueInv, OutcomeFinal
<1>8. ASSUME NEW r \in Runs, RunSameQueue(r) PROVE QueueInv'
  BY <1>1, <1>8, RunSameQueueKeeps
<1>9. ASSUME NEW r \in Runs, SessionExit(r) \/ SessionStopped(r) PROVE QueueInv'
  BY <1>2, <1>9 DEF SessionExit, SessionStopped, store, local
<1>10. ASSUME SendMessage PROVE QueueInv'
  <2>1. CASE SendFails \/ \E w \in Workflows, a \in Agents : SendLock(w, a)
    BY <1>2, <2>1 DEF SendFails, SendLock, store, local
  <2>2. CASE SendStore
    <3> DEFINE w == send.wf
    <3>1. w \in Workflows /\ \A r \in Runs : pc[r] # "complete"
      BY <1>1, <2>2 DEF SendStore, TypeOK, SendHolds
    <3>2. \A r \in Runs : \/ pc'[r] = pc[r] /\ outcome'[r] = outcome[r]
                          \/ pc'[r] = "loop"
      BY <1>1, <2>2 DEF SendStore, NewRun, Goto, TypeOK, local
    <3>3. CompletedHasNoQueue'
      <4>1. CASE send.queued
        BY <2>2, <4>1 DEF SendStore, QueueInv, CompletedHasNoQueue, Queued, With
      <4>2. CASE ~send.queued
        <5>1. \A x \in Workflows \ {w} : stages'[x] = stages[x] /\ wfStatus'[x] = wfStatus[x]
          BY <1>1, <2>2, <4>2, <3>1 DEF SendStore, TypeOK
        <5>2. wfStatus'[w] # "completed"
          BY <1>1, <2>2, <4>2, <3>1 DEF SendStore, TypeOK, Settled
        <5> HIDE DEF w
        <5> QED BY <1>4, <3>1, <3>2, <5>1, <5>2
      <4> QED BY <4>1, <4>2
    <3>4. CompletingIsEmpty' /\ OutcomeFinal'
      BY <3>1, <3>2 DEF CompletingIsEmpty, OutcomeFinal, QueueInv
    <3> QED BY <3>3, <3>4 DEF QueueInv
  <2> QED BY <1>10, <2>1, <2>2 DEF SendMessage
<1>11. ASSUME NEW w \in Workflows, Cancel(w) PROVE QueueInv'
  <2>1. CASE CancelCheck(w) \/ CancelSignal(w) \/ CancelFails(w)
    BY <1>2, <2>1 DEF CancelCheck, CancelSignal, CancelFails, store, local
  <2>2. CASE CancelSweep(w)
    <3>1. "cancelled" \in StageStatus \ {"queued"}
      BY DEF StageStatus, Settled
    <3>2. \A x \in Workflows : Queued(x)' \subseteq Queued(x)
      BY <1>1, <2>2, <3>1, SetStagesQueuesNothing DEF CancelSweep
    <3>3. NoNewTurn
      BY <2>2, <3>2 DEF CancelSweep, NoNewTurn, local
    <3> QED BY <1>1, <2>2, <3>3, NoNewTurnKeeps DEF CancelSweep, QueueInv, OutcomeFinal, local
  <2>3. CASE CancelStatus(w)
    <3>1. \A x \in Workflows : wfStatus'[x] = "completed" => wfStatus[x] = "completed"
      BY <1>1, <2>3 DEF CancelStatus, SetWorkflowStatus, TypeOK
    <3>2. NoNewTurn
      BY <2>3, <3>1, SameStagesQueueNothing DEF CancelStatus, NoNewTurn, local
    <3> QED BY <1>1, <2>3, <3>2, NoNewTurnKeeps DEF CancelStatus, QueueInv, OutcomeFinal, local
  <2> QED BY <1>11, <2>1, <2>2, <2>3 DEF Cancel
<1>12. ASSUME Process PROVE QueueInv'
  <2>1. CASE Close
    BY <1>2, <2>1 DEF Close, store, local
  <2>2. CASE Closed \/ Crash
    <3>1. Forget
      BY <2>2 DEF Closed, Crash
    <3>2. NoNewTurn
      BY <3>1, SameStagesQueueNothing DEF Forget, NoNewTurn, store
    <3> QED BY <1>1, <3>1, <3>2, NoNewTurnKeeps DEF Forget, QueueInv, OutcomeFinal
  <2>3. CASE Restart \/ SecondDaemon
    <3>1. markInterrupted /\ UNCHANGED <<pc, runWf, outcome>>
      BY <2>3 DEF Restart, SecondDaemon, local
    <3>2. "interrupted" \in StageStatus \ {"queued"}
      BY DEF StageStatus, Settled
    <3>3. \A x \in Workflows : stages'[x] = Mark(stages[x], With(x, "running"), "interrupted")
      BY <3>1 DEF markInterrupted
    <3>4. \A x \in Workflows : Queued(x)' \subseteq Queued(x)
      BY <1>1, <3>2, <3>3, MarkQueuesNothing
    <3>5. NoNewTurn
      BY <3>1, <3>4 DEF markInterrupted, NoNewTurn
    <3> QED BY <1>1, <3>1, <3>5, NoNewTurnKeeps DEF QueueInv, OutcomeFinal
  <2> QED BY <1>12, <2>1, <2>2, <2>3 DEF Process
<1>13. CASE UNCHANGED vars
  BY <1>2, <1>13 DEF vars, store, local
<1>14. ASSUME NEW r \in Runs, Create(r) \/ run(r) \/ runStep(r) PROVE QueueInv'
  BY <1>3, <1>5, <1>6, <1>7, <1>8, <1>14 DEF Create, run, RunSameQueue
<1> QED BY <1>9, <1>10, <1>11, <1>12, <1>13, <1>14 DEF Next

\* A workflow shown as completed has no queued turn, through any mix of messages,
\* cancels, failures and restarts.
THEOREM CoordinatorCompleted == Spec => []CompletedHasNoQueue
<1>1. Init => QueueInv
  BY DEF Init, QueueInv, CompletedHasNoQueue, CompletingIsEmpty, OutcomeFinal
<1>2. SlotInv /\ TypeOK' /\ QueueInv /\ [Next]_vars => QueueInv'
  BY QueueStep
<1>3. QueueInv => CompletedHasNoQueue
  BY DEF QueueInv
<1> QED BY <1>1, <1>2, <1>3, SlotInvariant, CoordinatorTypeOK, PTL DEF Spec
--------------------------------------------------------------------------------
(* Stages: who owns a running one, and in which order they start. The hypothesis  *)
(* is that store writes succeed: run ignores a FinishStage error, and the row it  *)
(* leaves behind stays running until the next start.                              *)

\* Run r is between StartStage and FinishStage of stage i of w.
Owns(r, w, i) ==
  /\ runWf[r] = w /\ runStage[r] = i
  /\ pc[r] \in {"prompt", "wait", "record", "stageError"}

\* RunningStageOwned while there is a process, a closing one included.
Owned ==
  daemon # "down" =>
    \A w \in Workflows : \A i \in With(w, "running") : \E r \in Runs : Owns(r, w, i)

\* What a run is about to record is final.
OutcomeSettled == \A r \in Runs : pc[r] \in {"stageError", "record"} => outcome[r] \in Settled

Starting == {"prepare", "spawn", "attach", "start"}

\* A run that has chosen its stage has nothing left to do before it.
Front ==
  \A r \in Runs : pc[r] \in Starting =>
    /\ runStage[r] \in DOMAIN stages[runWf[r]]
    /\ \A j \in 1..(runStage[r] - 1) :
         stages[runWf[r]][j].status \notin {"queued", "running"}

\* No goroutine and no call outlives its process.
Gone == daemon = "down" => send = Idle /\ \A r \in Runs : pc[r] = "done"

\* Only a workflow that Create is still inserting has no row; it has no stages, and
\* neither Cancel nor sendAgentMessage has found it.
Inserted ==
  /\ \A w \in Workflows : wfStatus[w] = "absent" => stages[w] = <<>> /\ canceling[w] = "idle"
  /\ \A r \in Runs : pc[r] # "done" => (pc[r] = "reserved" <=> wfStatus[runWf[r]] = "absent")
  /\ send # Idle => wfStatus[send.wf] # "absent"

StageInv == Owned /\ OutcomeSettled /\ Front /\ Gone /\ Inserted

\* Rows of w are only added queued, and a present one keeps its status or settles.
Advance(w) ==
  /\ DOMAIN stages[w] \subseteq DOMAIN stages'[w]
  /\ \A j \in DOMAIN stages[w] :
       stages'[w][j].status \in {"queued", "running"} => stages'[w][j].status = stages[w][j].status
  /\ \A j \in DOMAIN stages'[w] \ DOMAIN stages[w] : stages'[w][j].status = "queued"

\* An UPDATE to a final status advances every workflow.
LEMMA MarkAdvances ==
  ASSUME TypeOK, NEW w \in Workflows, NEW I, NEW s \in Settled,
         stages'[w] = Mark(stages[w], I, s)
  PROVE  Advance(w)
<1>1. stages[w] \in Seq(Stage) /\ s \in StageStatus /\ s \notin {"queued", "running"}
  BY DEF TypeOK, StageStatus, Settled
<1>2. /\ DOMAIN Mark(stages[w], I, s) = DOMAIN stages[w]
      /\ \A i \in DOMAIN stages[w] :
            Mark(stages[w], I, s)[i].status = IF i \in I THEN s ELSE stages[w][i].status
  BY <1>1, MarkRows
<1> QED BY <1>1, <1>2 DEF Advance

\* The same for a statement on one workflow's rows.
LEMMA SetStagesAdvances ==
  ASSUME TypeOK, NEW w \in Workflows, NEW I, NEW s \in Settled, SetStages(w, I, s)
  PROVE  \A x \in Workflows : Advance(x)
<1>1. stages'[w] = Mark(stages[w], I, s) /\ \A x \in Workflows \ {w} : stages'[x] = stages[x]
  BY DEF SetStages, TypeOK
<1>2. Advance(w)
  BY <1>1, MarkAdvances
<1> QED BY <1>1, <1>2 DEF Advance

\* Rows left alone.
LEMMA SameAdvances == ASSUME stages' = stages PROVE \A x \in Workflows : Advance(x)
BY DEF Advance

\* Store.StartStage is the only statement that takes a row back to an earlier
\* status.
LEMMA RowsAdvance ==
  ASSUME SlotInv, OutcomeSettled, Inserted, [Next]_vars,
         \A r \in Runs : ~StageStart(r)
  PROVE  \A x \in Workflows : Advance(x)
<1>1. TypeOK
  BY DEF SlotInv
<1>2. ASSUME NEW r \in Runs, Create(r) PROVE \A x \in Workflows : Advance(x)
  <2>1. CASE CreateStore(r)
    <3>1. pc[r] = "reserved" /\ runWf[r] \in Workflows
      BY <1>1, <2>1 DEF CreateStore, TypeOK
    <3>2. stages[runWf[r]] = <<>>
      BY <3>1 DEF Inserted
    <3>3. PICK plan \in Compile : stages' = [stages EXCEPT ![runWf[r]] = plan]
      BY <2>1 DEF CreateStore
    <3>4. \A j \in DOMAIN plan : plan[j].status = "queued"
      <4> DEFINE Plan(n) == [1..n -> [agent : Agents, status : {"queued"}]]
      <4>0. plan \in UNION {Plan(n) : n \in 1..MaxPlanned}
        BY DEF Compile
      <4>1. PICK n \in 1..MaxPlanned : plan \in Plan(n)
        <5> HIDE DEF Plan
        <5> QED BY <4>0
      <4> QED BY <4>1
    <3>5. DOMAIN stages[runWf[r]] = {}
      BY <3>2
    <3>6. stages'[runWf[r]] = plan /\ \A x \in Workflows \ {runWf[r]} : stages'[x] = stages[x]
      BY <1>1, <3>1, <3>3 DEF TypeOK
    <3> QED BY <3>4, <3>5, <3>6 DEF Advance
  <2>2. CASE CreateStoreFails(r) \/ CreateStart(r) \/ \E w \in Workflows : CreateReserve(r, w)
    BY <2>2, SameAdvances DEF CreateStoreFails, CreateStart, CreateReserve, store
  <2> QED BY <1>2, <2>1, <2>2 DEF Create
<1>3. ASSUME NEW r \in Runs, run(r) PROVE \A x \in Workflows : Advance(x)
  BY <1>3, SameAdvances DEF run, RunLoop, RunRecheck, RunComplete, RunStageError, RunFail,
                            RunExit, store
<1>4. ASSUME NEW r \in Runs, runStep(r) PROVE \A x \in Workflows : Advance(x)
  <2>1. CASE StageRecordError(r) \/ StageRecord(r)
    <3>1. pc[r] \in {"stageError", "record"}
      BY <2>1 DEF StageRecordError, StageRecord
    <3>2. runWf[r] \in Workflows /\ outcome[r] \in Settled
      BY <1>1, <3>1 DEF OutcomeSettled, TypeOK
    <3>3. stages' = stages \/ SetStages(runWf[r], {runStage[r]}, outcome[r])
      BY <2>1 DEF StageRecordError, StageRecord, SetStage
    <3> QED BY <1>1, <3>2, <3>3, SameAdvances, SetStagesAdvances
  <2>2. CASE StagePrepare(r) \/ StageSpawn(r) \/ StageAttach(r) \/ StagePrompt(r)
    BY <2>2, SameAdvances DEF StagePrepare, StageSpawn, StageAttach, StagePrompt, store
  <2>3. CASE StageStop(r) \/ StageCollect(r)
    BY <2>3, SameAdvances DEF StageStop, StageCollect, store
  <2> QED BY <1>4, <2>1, <2>2, <2>3 DEF runStep
<1>5. ASSUME NEW r \in Runs, SessionExit(r) \/ SessionStopped(r)
      PROVE  \A x \in Workflows : Advance(x)
  BY <1>5, SameAdvances DEF SessionExit, SessionStopped, store
<1>6. ASSUME SendMessage PROVE \A x \in Workflows : Advance(x)
  <2>1. CASE SendFails \/ \E w \in Workflows, a \in Agents : SendLock(w, a)
    BY <2>1, SameAdvances DEF SendFails, SendLock, store
  <2>2. CASE SendStore /\ send.queued
    BY <2>2, SameAdvances DEF SendStore
  <2>3. CASE SendStore /\ ~send.queued
    <3> DEFINE row == [agent |-> send.agent, status |-> "queued"]
    <3>1. send.wf \in Workflows /\ stages[send.wf] \in Seq(Stage)
      BY <1>1, <2>3 DEF SendStore, TypeOK
    <3>2. stages' = [stages EXCEPT ![send.wf] = Append(stages[send.wf], row)]
      BY <2>3 DEF SendStore
    <3>3. /\ stages'[send.wf] = Append(stages[send.wf], row)
          /\ \A x \in Workflows \ {send.wf} : stages'[x] = stages[x]
      BY <1>1, <3>1, <3>2 DEF TypeOK
    <3>4. row.status = "queued"
      OBVIOUS
    <3>5. Advance(send.wf)
      <4> HIDE DEF row
      <4>1. DOMAIN stages[send.wf] = 1..Len(stages[send.wf]) /\ Len(stages[send.wf]) \in Nat
        BY <3>1
      <4>2. DOMAIN stages'[send.wf] = 1..(Len(stages[send.wf]) + 1)
        BY <3>1, <3>3
      <4>3. \A j \in 1..Len(stages[send.wf]) : stages'[send.wf][j] = stages[send.wf][j]
        BY <3>1, <3>3
      <4>4. stages'[send.wf][Len(stages[send.wf]) + 1] = row
        BY <3>1, <3>3
      <4> QED BY <3>4, <4>1, <4>2, <4>3, <4>4 DEF Advance
    <3> QED BY <3>3, <3>5 DEF Advance
  <2> QED BY <1>6, <2>1, <2>2, <2>3 DEF SendMessage
<1>7. ASSUME NEW w \in Workflows, Cancel(w) PROVE \A x \in Workflows : Advance(x)
  <2>1. CASE CancelSweep(w)
    <3>1. "cancelled" \in Settled
      BY DEF Settled
    <3> QED BY <1>1, <2>1, <3>1, SetStagesAdvances DEF CancelSweep
  <2>2. CASE CancelCheck(w) \/ CancelSignal(w) \/ CancelStatus(w) \/ CancelFails(w)
    BY <2>2, SameAdvances DEF CancelCheck, CancelSignal, CancelStatus, CancelFails, store
  <2> QED BY <1>7, <2>1, <2>2 DEF Cancel
<1>8. ASSUME Process PROVE \A x \in Workflows : Advance(x)
  <2>1. CASE Close \/ Closed \/ Crash
    BY <2>1, SameAdvances DEF Close, Closed, Crash, Forget, store
  <2>2. CASE Restart \/ SecondDaemon
    <3>1. \A x \in Workflows : stages'[x] = Mark(stages[x], With(x, "running"), "interrupted")
      BY <2>2 DEF Restart, SecondDaemon, markInterrupted
    <3>2. "interrupted" \in Settled
      BY DEF Settled
    <3> QED BY <1>1, <3>1, <3>2, MarkAdvances
  <2> QED BY <1>8, <2>1, <2>2 DEF Process
<1>9. CASE UNCHANGED vars
  BY <1>9, SameAdvances DEF vars, store
<1> QED BY <1>2, <1>3, <1>4, <1>5, <1>6, <1>7, <1>8, <1>9 DEF Next

\* A step that inserts no workflow, starts and ends no run before its rows exist.
LEMMA InsertedKeeps ==
  ASSUME TypeOK, Inserted,
         \A x \in Workflows : wfStatus'[x] = "absent" <=> wfStatus[x] = "absent",
         \A x \in Workflows : wfStatus[x] = "absent" =>
            stages'[x] = stages[x] /\ canceling'[x] = canceling[x],
         \A r \in Runs : pc'[r] # "done" =>
            /\ pc[r] # "done" /\ runWf'[r] = runWf[r]
            /\ pc'[r] = "reserved" <=> pc[r] = "reserved",
         send' # Idle => send'.wf \in Workflows /\ wfStatus[send'.wf] # "absent"
  PROVE  Inserted'
<1>1. \A w \in Workflows : wfStatus'[w] = "absent" => stages'[w] = <<>> /\ canceling'[w] = "idle"
  BY DEF Inserted
<1>2. ASSUME NEW r \in Runs, pc'[r] # "done"
      PROVE  pc'[r] = "reserved" <=> wfStatus'[runWf'[r]] = "absent"
  <2>1. pc[r] # "done" /\ runWf'[r] = runWf[r] /\ (pc'[r] = "reserved" <=> pc[r] = "reserved")
    BY <1>2
  <2>2. runWf[r] \in Workflows
    BY <2>1 DEF TypeOK
  <2>3. pc[r] = "reserved" <=> wfStatus[runWf[r]] = "absent"
    BY <2>1 DEF Inserted
  <2> QED BY <2>1, <2>2, <2>3
<1>3. send' # Idle => wfStatus'[send'.wf] # "absent"
  OBVIOUS
<1> QED BY <1>1, <1>2, <1>3 DEF Inserted

\* Rows exist exactly from CreateWorkflow on.
LEMMA InsertedStep ==
  ASSUME SlotInv, TypeOK', Inserted, [Next]_vars
  PROVE  Inserted'
<1> USE CoordinatorAssumption
<1>1. TypeOK /\ SlotsAgree /\ SendHolds
  BY DEF SlotInv
<1>s. send # Idle => send.wf \in Workflows /\ wfStatus[send.wf] # "absent"
  BY <1>1 DEF TypeOK, Inserted
<1>w. \A r \in Runs : pc[r] # "done" => runWf[r] \in Workflows
  BY <1>1 DEF TypeOK
<1>i. \A r \in Runs : pc[r] \notin {"done", "reserved"} => wfStatus[runWf[r]] # "absent"
  BY DEF Inserted
<1>2. ASSUME UNCHANGED <<stages, wfStatus, runWf, canceling, send>>,
             \A r \in Runs : pc'[r] # "done" =>
               pc[r] # "done" /\ (pc'[r] = "reserved" <=> pc[r] = "reserved")
      PROVE  Inserted'
  BY <1>1, <1>2, <1>s, InsertedKeeps
<1>3. ASSUME NEW r \in Runs, NEW w \in Workflows, CreateReserve(r, w) PROVE Inserted'
  <2>1. UNCHANGED <<stages, wfStatus, canceling, send>> /\ wfStatus[w] = "absent"
    BY <1>3 DEF CreateReserve, store, calls
  <2>2. \E k \in WorkspaceKeys(w) : NewRun(r, w, k, "reserved")
    BY <1>3 DEF CreateReserve
  <2>3. /\ pc'[r] = "reserved" /\ runWf'[r] = w
        /\ \A x \in Runs \ {r} : pc'[x] = pc[x] /\ runWf'[x] = runWf[x]
    BY <1>1, <2>2 DEF NewRun, Goto, TypeOK
  <2> QED BY <2>1, <2>3 DEF Inserted
<1>4. ASSUME NEW r \in Runs, CreateStore(r) PROVE Inserted'
  <2>1. pc[r] = "reserved" /\ runWf[r] \in Workflows /\ running[runWf[r]] = r
    BY <1>1, <1>4 DEF CreateStore, TypeOK, SlotsAgree
  <2>2. /\ wfStatus'[runWf[r]] = "queued"
        /\ \A x \in Workflows \ {runWf[r]} : stages'[x] = stages[x] /\ wfStatus'[x] = wfStatus[x]
    BY <1>1, <1>4, <2>1 DEF CreateStore, TypeOK
  <2>3. runWf' = runWf /\ canceling' = canceling /\ send' = send
    BY <1>4 DEF CreateStore, local, calls
  <2>4. pc'[r] = "created" /\ \A x \in Runs \ {r} : pc'[x] = pc[x]
    BY <1>1, <1>4 DEF CreateStore, Goto, TypeOK
  <2>5. wfStatus[runWf[r]] = "absent"
    BY <2>1 DEF Inserted
  <2>6. ASSUME NEW x \in Runs, pc'[x] # "done"
        PROVE  pc'[x] = "reserved" <=> wfStatus'[runWf'[x]] = "absent"
    <3>1. CASE x = r
      BY <2>2, <2>3, <2>4, <3>1
    <3>2. CASE x # r /\ runWf[x] # runWf[r]
      <4>1. pc[x] # "done" /\ runWf[x] \in Workflows /\ pc'[x] = pc[x]
        BY <1>w, <2>4, <2>6, <3>2
      <4> QED BY <2>2, <2>3, <3>2, <4>1 DEF Inserted
    <3>3. CASE x # r /\ runWf[x] = runWf[r]
      <4>1. pc'[x] = pc[x] /\ pc[x] # "done" /\ runWf'[x] = runWf[r]
        BY <2>3, <2>4, <2>6, <3>3
      <4>2. pc[x] # "reserved"
        BY <1>1, <2>1, <3>3 DEF SlotsAgree
      <4> QED BY <2>2, <4>1, <4>2
    <3> QED BY <3>1, <3>2, <3>3
  <2>7. \A x \in Workflows : wfStatus'[x] = "absent" => stages'[x] = <<>> /\ canceling'[x] = "idle"
    BY <2>2, <2>3 DEF Inserted
  <2>8. send' # Idle => wfStatus'[send'.wf] # "absent"
    BY <1>s, <2>2, <2>3
  <2> QED BY <2>6, <2>7, <2>8 DEF Inserted
<1>5. ASSUME NEW r \in Runs, CreateStoreFails(r) \/ RunExit(r) PROVE Inserted'
  <2>1. UNCHANGED <<stages, wfStatus, canceling, send>>
    BY <1>5 DEF CreateStoreFails, RunExit, store, calls
  <2>2. pc'[r] = "done" /\ \A x \in Runs \ {r} : pc'[x] = pc[x] /\ runWf'[x] = runWf[x]
    BY <1>1, <1>5 DEF CreateStoreFails, RunExit, Return, Goto, TypeOK
  <2> QED BY <1>1, <1>s, <2>1, <2>2, InsertedKeeps
<1>6. ASSUME NEW r \in Runs, CreateStart(r) PROVE Inserted'
  BY <1>1, <1>2, <1>6 DEF CreateStart, Goto, store, local, calls, TypeOK
<1>7. ASSUME NEW r \in Runs, run(r), ~RunExit(r) PROVE Inserted'
  <2>1. CASE RunLoop(r) \/ RunRecheck(r) \/ RunStageError(r)
    BY <1>1, <1>2, <2>1 DEF RunLoop, RunRecheck, RunStageError, Goto, store, local, calls, TypeOK
  <2>2. CASE RunComplete(r) \/ RunFail(r)
    <3>1. pc[r] \in {"complete", "failing"} /\ runWf[r] \in Workflows
      BY <1>w, <2>2 DEF RunComplete, RunFail
    <3>2. wfStatus[runWf[r]] # "absent"
      BY <1>i, <3>1
    <3>3. \A x \in Workflows : wfStatus'[x] = "absent" <=> wfStatus[x] = "absent"
      BY <1>1, <2>2, <3>1, <3>2 DEF RunComplete, RunFail, SetWorkflowStatus, TypeOK
    <3>4. pc'[r] = "exit" /\ \A x \in Runs \ {r} : pc'[x] = pc[x]
      BY <1>1, <2>2 DEF RunComplete, RunFail, Goto, TypeOK
    <3>5. UNCHANGED <<stages, runWf, canceling, send>>
      BY <2>2 DEF RunComplete, RunFail, local, calls
    <3> QED BY <1>1, <1>s, <3>1, <3>3, <3>4, <3>5, InsertedKeeps
  <2> QED BY <1>7, <2>1, <2>2 DEF run
<1>8. ASSUME NEW r \in Runs, runStep(r) PROVE Inserted'
  <2>0. pc[r] \notin {"done", "reserved"}
    BY <1>8 DEF runStep, StagePrepare, StageSpawn, StageRecordError, StageAttach, StageStart,
                StagePrompt, StageStop, StageCollect, StageRecord
  <2>1. runWf[r] \in Workflows /\ wfStatus[runWf[r]] # "absent"
    BY <1>w, <1>i, <2>0
  <2>2. UNCHANGED <<runWf, canceling, send>>
    BY <1>8 DEF runStep, StagePrepare, StageSpawn, StageRecordError, StageAttach, StageStart,
                StagePrompt, StageStop, StageCollect, StageRecord, local, calls
  <2>3. pc'[r] \notin {"done", "reserved"} /\ \A x \in Runs \ {r} : pc'[x] = pc[x]
    <3>1. CASE StagePrepare(r) \/ StageSpawn(r) \/ StageRecordError(r) \/ StageAttach(r)
      BY <1>1, <3>1 DEF StagePrepare, StageSpawn, StageRecordError, StageAttach, Goto, TypeOK
    <3>2. CASE StageStart(r) \/ StagePrompt(r) \/ StageStop(r)
      BY <1>1, <3>2 DEF StageStart, StagePrompt, StageStop, Goto, TypeOK
    <3>3. CASE StageCollect(r) \/ StageRecord(r)
      BY <1>1, <3>3 DEF StageCollect, StageRecord, Goto, TypeOK
    <3> QED BY <1>8, <3>1, <3>2, <3>3 DEF runStep
  <2>4. \A x \in Workflows \ {runWf[r]} : stages'[x] = stages[x]
    <3>1. stages' = stages \/ \E I, s : SetStages(runWf[r], I, s)
      BY <1>8 DEF runStep, StagePrepare, StageSpawn, StageRecordError, StageAttach, StageStart,
                  StagePrompt, StageStop, StageCollect, StageRecord, store, SetStage
    <3> QED BY <1>1, <3>1 DEF SetStages, TypeOK
  <2>5. \A x \in Workflows : wfStatus'[x] = "absent" <=> wfStatus[x] = "absent"
    <3>1. wfStatus' = wfStatus \/ SetWorkflowStatus(runWf[r], "running")
      BY <1>8 DEF runStep, StagePrepare, StageSpawn, StageRecordError, StageAttach, StageStart,
                  StagePrompt, StageStop, StageCollect, StageRecord, store
    <3> QED BY <1>1, <2>1, <3>1 DEF SetWorkflowStatus, TypeOK
  <2>6. \A x \in Workflows : wfStatus[x] = "absent" =>
          stages'[x] = stages[x] /\ canceling'[x] = canceling[x]
    BY <2>1, <2>2, <2>4
  <2>7. \A x \in Runs : pc'[x] # "done" => /\ pc[x] # "done" /\ runWf'[x] = runWf[x]
                                           /\ pc'[x] = "reserved" <=> pc[x] = "reserved"
    BY <2>0, <2>2, <2>3
  <2> QED BY <1>1, <1>s, <2>2, <2>5, <2>6, <2>7, InsertedKeeps
<1>9. ASSUME NEW r \in Runs, SessionExit(r) \/ SessionStopped(r) PROVE Inserted'
  BY <1>2, <1>9 DEF SessionExit, SessionStopped, store, local, calls
<1>10. ASSUME SendMessage PROVE Inserted'
  <2>1. CASE SendFails
    BY <1>1, <2>1, InsertedKeeps DEF SendFails, store, local
  <2>2. ASSUME NEW w \in Workflows, NEW a \in Agents, SendLock(w, a) PROVE Inserted'
    <3>1. send'.wf = w /\ wfStatus[w] # "absent"
      BY <2>2 DEF SendLock
    <3>2. UNCHANGED <<stages, wfStatus, canceling, pc, runWf>>
      BY <2>2 DEF SendLock, store, local
    <3> QED BY <1>1, <3>1, <3>2, InsertedKeeps
  <2>3. CASE SendStore
    <3> DEFINE w == send.wf
    <3>1. w \in Workflows /\ wfStatus[w] # "absent" /\ send' = Idle /\ canceling' = canceling
      BY <1>s, <2>3 DEF SendStore
    <3>2. \A x \in Workflows \ {w} : stages'[x] = stages[x] /\ wfStatus'[x] = wfStatus[x]
      BY <1>1, <2>3, <3>1 DEF SendStore, TypeOK
    <3>3. wfStatus'[w] # "absent"
      BY <1>1, <2>3, <3>1 DEF SendStore, TypeOK
    <3>4. \A r \in Runs : \/ pc'[r] = pc[r] /\ runWf'[r] = runWf[r]
                          \/ pc'[r] = "loop" /\ runWf'[r] = w
      <4>1. CASE send.start
        <5>1. PICK r \in Runs : NewRun(r, w, send.key, "loop")
          BY <2>3, <4>1 DEF SendStore
        <5> QED BY <1>1, <5>1 DEF NewRun, Goto, TypeOK
      <4>2. CASE ~send.start
        BY <2>3, <4>2 DEF SendStore, local
      <4> QED BY <4>1, <4>2
    <3> HIDE DEF w
    <3>5. ASSUME NEW r \in Runs, pc'[r] # "done"
          PROVE  pc'[r] = "reserved" <=> wfStatus'[runWf'[r]] = "absent"
      <4>1. CASE pc'[r] = "loop" /\ runWf'[r] = w
        BY <3>3, <4>1
      <4>2. CASE pc'[r] = pc[r] /\ runWf'[r] = runWf[r]
        <5>1. runWf[r] \in Workflows /\ (pc[r] = "reserved" <=> wfStatus[runWf[r]] = "absent")
          BY <1>w, <3>5, <4>2 DEF Inserted
        <5> QED BY <3>1, <3>2, <3>3, <4>2, <5>1
      <4> QED BY <3>4, <4>1, <4>2
    <3>6. \A x \in Workflows : wfStatus'[x] = "absent" => stages'[x] = <<>> /\ canceling'[x] = "idle"
      BY <3>1, <3>2, <3>3 DEF Inserted
    <3> QED BY <3>1, <3>5, <3>6 DEF Inserted
  <2> QED BY <1>10, <2>1, <2>2, <2>3 DEF SendMessage
<1>11. ASSUME NEW w \in Workflows, Cancel(w) PROVE Inserted'
  <2>1. wfStatus[w] # "absent"
    BY <1>1, <1>11 DEF Cancel, CancelCheck, CancelSignal, CancelSweep, CancelStatus, CancelFails,
                       Inserted
  <2>2. UNCHANGED <<pc, runWf, send>>
    BY <1>11 DEF Cancel, CancelCheck, CancelSignal, CancelSweep, CancelStatus, CancelFails, local
  <2>3. \A x \in Workflows \ {w} : stages'[x] = stages[x] /\ canceling'[x] = canceling[x]
    BY <1>1, <1>11 DEF Cancel, CancelCheck, CancelSignal, CancelSweep, CancelStatus, CancelFails,
                       SetStages, store, TypeOK
  <2>4. \A x \in Workflows : wfStatus'[x] = "absent" <=> wfStatus[x] = "absent"
    BY <1>1, <1>11, <2>1 DEF Cancel, CancelCheck, CancelSignal, CancelSweep, CancelStatus,
                             CancelFails, SetWorkflowStatus, store, TypeOK
  <2> QED BY <1>1, <1>s, <2>1, <2>2, <2>3, <2>4, InsertedKeeps
<1>12. ASSUME Process PROVE Inserted'
  <2>1. CASE Close
    BY <1>2, <2>1 DEF Close, store, local, calls
  <2>2. CASE Closed \/ Crash
    BY <2>2 DEF Closed, Crash, Forget, Inserted, store
  <2>3. CASE Restart \/ SecondDaemon
    <3>1. markInterrupted /\ UNCHANGED <<pc, runWf, send, canceling>>
      BY <2>3 DEF Restart, SecondDaemon, local, calls
    <3>2. \A x \in Workflows : wfStatus'[x] = "absent" <=> wfStatus[x] = "absent"
      BY <1>1, <3>1 DEF markInterrupted, TypeOK
    <3>3. ASSUME NEW x \in Workflows, wfStatus[x] = "absent" PROVE stages'[x] = stages[x]
      <4>1. stages[x] = <<>> /\ stages'[x] = Mark(stages[x], With(x, "running"), "interrupted")
        BY <3>1, <3>3 DEF markInterrupted, Inserted
      <4>2. stages'[x] \in Seq(Stage) /\ stages[x] \in Seq(Stage)
        BY <1>1 DEF TypeOK
      <4>3. DOMAIN stages'[x] = DOMAIN stages[x]
        BY <4>1 DEF Mark
      <4> QED BY <4>1, <4>2, <4>3
    <3> QED BY <1>1, <1>s, <3>1, <3>2, <3>3, InsertedKeeps
  <2> QED BY <1>12, <2>1, <2>2, <2>3 DEF Process
<1>13. CASE UNCHANGED vars
  BY <1>2, <1>13 DEF vars, store, local, calls
<1> QED BY <1>3, <1>4, <1>5, <1>6, <1>7, <1>8, <1>9, <1>10, <1>11, <1>12, <1>13 DEF Next, Create, run

\* What each step does to the goroutine it belongs to: the others keep their place,
\* their workflow, their stage and what they are about to record.
Alone(r) ==
  /\ \A x \in Runs \ {r} : /\ pc'[x] = pc[x] /\ runWf'[x] = runWf[x]
                            /\ runStage'[x] = runStage[x] /\ outcome'[x] = outcome[x]
  /\ daemon' = daemon /\ send' = send

\* A goroutine's steps concern that goroutine alone.
LEMMA StepsAlone ==
  ASSUME TypeOK, NEW r \in Runs, Create(r) \/ run(r) \/ runStep(r)
  PROVE  Alone(r)
<1>1. ASSUME NEW w \in Workflows, CreateReserve(r, w) PROVE Alone(r)
  <2>1. \E k \in WorkspaceKeys(w) : NewRun(r, w, k, "reserved")
    BY <1>1 DEF CreateReserve
  <2> QED BY <1>1, <2>1 DEF CreateReserve, NewRun, Goto, Alone, calls, TypeOK
<1>2. CASE CreateStoreFails(r) \/ RunExit(r)
  BY <1>2 DEF CreateStoreFails, RunExit, Return, Goto, Alone, calls, TypeOK
<1>3. CASE CreateStore(r) \/ CreateStart(r) \/ RunRecheck(r) \/ RunComplete(r)
  BY <1>3 DEF CreateStore, CreateStart, RunRecheck, RunComplete, Goto, Alone, local, calls, TypeOK
<1>4. CASE RunLoop(r) \/ RunStageError(r) \/ RunFail(r)
  BY <1>4 DEF RunLoop, RunStageError, RunFail, Goto, Alone, local, calls, TypeOK
<1>5. CASE StagePrepare(r) \/ StageSpawn(r) \/ StageAttach(r)
  BY <1>5 DEF StagePrepare, StageSpawn, StageAttach, Goto, Alone, local, calls, TypeOK
<1>6. CASE StageStart(r) \/ StageRecordError(r) \/ StageRecord(r)
  BY <1>6 DEF StageStart, StageRecordError, StageRecord, Goto, Alone, local, calls, TypeOK
<1>7. CASE StagePrompt(r) \/ StageStop(r) \/ StageCollect(r)
  BY <1>7 DEF StagePrompt, StageStop, StageCollect, Goto, Alone, local, calls, TypeOK
<1> QED BY <1>1, <1>2, <1>3, <1>4, <1>5, <1>6, <1>7 DEF Create, run, runStep

\* Every other step leaves a run where it is, starts it at "loop", or ends it with
\* the process.
Elsewhere ==
  \/ SendMessage \/ Process \/ UNCHANGED vars
  \/ \E r \in Runs : SessionExit(r) \/ SessionStopped(r)
  \/ \E w \in Workflows : Cancel(w)

\* Which of the three it is, for each run.
LEMMA StepsElsewhere ==
  ASSUME TypeOK, Elsewhere, NEW x \in Runs
  PROVE  \/ /\ pc'[x] = pc[x] /\ runWf'[x] = runWf[x]
            /\ runStage'[x] = runStage[x] /\ outcome'[x] = outcome[x]
         \/ pc[x] = "done" /\ pc'[x] = "loop"
         \/ pc'[x] = "done" /\ daemon' = "down"
<1> DEFINE Same == /\ pc'[x] = pc[x] /\ runWf'[x] = runWf[x]
                   /\ runStage'[x] = runStage[x] /\ outcome'[x] = outcome[x]
<1>1. CASE SendMessage
  <2>1. CASE SendFails \/ \E w \in Workflows, a \in Agents : SendLock(w, a)
    BY <2>1 DEF SendFails, SendLock, local
  <2>2. CASE SendStore /\ send.start
    <3>1. PICK r \in Runs : NewRun(r, send.wf, send.key, "loop")
      BY <2>2 DEF SendStore
    <3> QED BY <3>1 DEF NewRun, Unused, Goto, TypeOK
  <2>3. CASE SendStore /\ ~send.start
    BY <2>3 DEF SendStore, local
  <2> QED BY <1>1, <2>1, <2>2, <2>3 DEF SendMessage
<1>2. CASE Process
  <2>1. CASE Closed \/ Crash
    BY <2>1 DEF Closed, Crash, Forget
  <2>2. CASE Close \/ Restart \/ SecondDaemon
    BY <2>2 DEF Close, Restart, SecondDaemon, local
  <2> QED BY <1>2, <2>1, <2>2 DEF Process
<1>3. CASE UNCHANGED vars
  BY <1>3 DEF vars, local
<1>4. CASE \E r \in Runs : SessionExit(r) \/ SessionStopped(r)
  BY <1>4 DEF SessionExit, SessionStopped, local
<1>5. CASE \E w \in Workflows : Cancel(w)
  BY <1>5 DEF Cancel, CancelCheck, CancelSignal, CancelSweep, CancelStatus, CancelFails, local
<1> QED BY <1>1, <1>2, <1>3, <1>4, <1>5 DEF Elsewhere

\* The next-state relation in these two halves.
LEMMA Halves ==
  ASSUME [Next]_vars
  PROVE  Elsewhere \/ \E r \in Runs : Create(r) \/ run(r) \/ runStep(r)
BY DEF Next, Elsewhere

\* What a run is about to record stays final.
LEMMA OutcomeStep ==
  ASSUME TypeOK, OutcomeSettled, [Next]_vars
  PROVE  OutcomeSettled'
<1>1. CASE Elsewhere
  BY <1>1, StepsElsewhere DEF OutcomeSettled
<1>2. ASSUME NEW r \in Runs, Create(r) \/ run(r) \/ runStep(r) PROVE OutcomeSettled'
  <2>1. pc'[r] \in {"stageError", "record"} => outcome'[r] \in Settled
    <3>1. CASE Create(r)
      <4>1. ASSUME NEW w \in Workflows, CreateReserve(r, w) PROVE pc'[r] = "reserved"
        BY <4>1 DEF CreateReserve, NewRun, Goto, TypeOK
      <4> QED BY <3>1, <4>1 DEF Create, CreateStore, CreateStoreFails, CreateStart, Return, Goto, TypeOK
    <3>2. CASE run(r)
      BY <3>2 DEF run, RunLoop, RunRecheck, RunComplete, RunStageError, RunFail, RunExit, Return,
                  Goto, TypeOK
    <3>3. CASE StagePrepare(r) \/ StageSpawn(r) \/ StagePrompt(r) \/ StageCollect(r)
      BY <3>3 DEF StagePrepare, StageSpawn, StagePrompt, StageCollect, Goto, Settled, TypeOK
    <3>4. CASE StageRecordError(r) \/ StageAttach(r) \/ StageStart(r) \/ StageStop(r) \/ StageRecord(r)
      BY <3>4 DEF StageRecordError, StageAttach, StageStart, StageStop, StageRecord, Goto, TypeOK
    <3> QED BY <1>2, <3>1, <3>2, <3>3, <3>4 DEF runStep
  <2> QED BY <1>2, <2>1, StepsAlone DEF OutcomeSettled, Alone
<1> QED BY <1>1, <1>2, Halves

\* A process that is down has no goroutine, and only Restart brings it up.
LEMMA GoneStep ==
  ASSUME TypeOK, Gone, [Next]_vars
  PROVE  Gone'
<1>1. CASE Elsewhere
  <2>1. CASE SendMessage
    BY <2>1 DEF SendMessage, SendLock, SendStore, SendFails, Gone
  <2>2. CASE Process
    BY <2>2 DEF Process, Close, Closed, Crash, Forget, Restart, SecondDaemon, Gone
  <2>3. CASE UNCHANGED vars \/ \E r \in Runs : SessionExit(r) \/ SessionStopped(r)
    BY <2>3 DEF vars, calls, SessionExit, SessionStopped, Gone
  <2>4. CASE \E w \in Workflows : Cancel(w)
    BY <2>4 DEF Cancel, CancelCheck, CancelSignal, CancelSweep, CancelStatus, CancelFails, Gone
  <2> QED BY <1>1, <2>1, <2>2, <2>3, <2>4 DEF Elsewhere
<1>2. ASSUME NEW r \in Runs, Create(r) \/ run(r) \/ runStep(r) PROVE Gone'
  <2>1. daemon' = daemon
    BY <1>2, StepsAlone DEF Alone
  <2>2. daemon # "down"
    BY <1>2 DEF Create, CreateReserve, CreateStore, CreateStoreFails, CreateStart,
                run, RunLoop, RunRecheck, RunComplete, RunStageError, RunFail, RunExit,
                runStep, StagePrepare, StageSpawn, StageRecordError, StageAttach, StageStart,
                StagePrompt, StageStop, StageCollect, StageRecord, Gone
  <2> QED BY <2>1, <2>2 DEF Gone
<1> QED BY <1>1, <1>2, Halves

\* A running row has an owner in every step, as long as FinishStage succeeds.
LEMMA OwnedStep ==
  ASSUME "store" \notin Environment, SlotInv, StageInv, [Next]_vars
  PROVE  Owned'
<1>1. /\ TypeOK /\ Owned /\ OutcomeSettled /\ Inserted /\ Gone
  BY DEF SlotInv, StageInv
<1>2. ASSUME NEW r \in Runs, StageStart(r) PROVE Owned'
  <2>1. Alone(r)
    BY <1>1, <1>2, StepsAlone DEF runStep
  <2>2. /\ pc[r] = "start" /\ pc'[r] = "prompt" /\ runWf[r] \in Workflows
        /\ runWf' = runWf /\ runStage' = runStage
    BY <1>1, <1>2 DEF StageStart, Goto, TypeOK, local
  <2>3. /\ stages'[runWf[r]] = Mark(stages[runWf[r]], {runStage[r]}, "running")
        /\ \A x \in Workflows \ {runWf[r]} : stages'[x] = stages[x]
    BY <1>1, <1>2, <2>2 DEF StageStart, SetStage, SetStages, TypeOK
  <2>4. stages[runWf[r]] \in Seq(Stage) /\ "running" \in StageStatus
    BY <1>1, <2>2 DEF TypeOK, StageStatus
  <2>5. /\ DOMAIN stages'[runWf[r]] = DOMAIN stages[runWf[r]]
        /\ \A i \in DOMAIN stages[runWf[r]] : i # runStage[r] =>
             stages'[runWf[r]][i].status = stages[runWf[r]][i].status
    BY <2>3, <2>4, MarkRows
  <2>6. \A w \in Workflows : \A i \in With(w, "running")' :
          i \in With(w, "running") \/ (w = runWf[r] /\ i = runStage[r])
    BY <2>3, <2>5 DEF With
  <2>7. \A w \in Workflows : \A i : w = runWf[r] /\ i = runStage[r] => Owns(r, w, i)'
    BY <2>2 DEF Owns
  <2>8. \A x \in Runs, w \in Workflows : \A i : Owns(x, w, i) => Owns(x, w, i)'
    BY <2>1, <2>2 DEF Owns, Alone
  <2> QED BY <1>1, <2>1, <2>6, <2>7, <2>8 DEF Owned, Alone
<1>3. ASSUME \A r \in Runs : ~StageStart(r) PROVE Owned'
  <2>1. \A w \in Workflows : Advance(w)
    BY <1>1, <1>3, RowsAdvance
  <2>2. \A w \in Workflows : With(w, "running")' \subseteq With(w, "running")
    BY <2>1 DEF Advance, With
  <2>3. ASSUME NEW w \in Workflows, NEW i \in With(w, "running")', daemon # "down", daemon' # "down"
        PROVE  \E x \in Runs : Owns(x, w, i)'
    <3>1. PICK x \in Runs : Owns(x, w, i)
      BY <1>1, <2>2, <2>3 DEF Owned
    <3>2. CASE Elsewhere
      BY <1>1, <2>3, <3>1, <3>2, StepsElsewhere DEF Owns
    <3>3. ASSUME NEW r \in Runs, Create(r) \/ run(r) \/ runStep(r) PROVE Owns(x, w, i)'
      <4>1. CASE x # r
        BY <1>1, <3>1, <3>3, <4>1, StepsAlone DEF Owns, Alone
      <4>2. CASE x = r
        <5>1. pc[r] \in {"prompt", "wait", "record", "stageError"} /\ runWf[r] = w /\ runStage[r] = i
          BY <3>1, <4>2 DEF Owns
        <5>2. \/ StagePrompt(r) \/ StageStop(r) \/ StageCollect(r)
              \/ StageRecord(r) \/ StageRecordError(r)
          BY <3>3, <5>1 DEF Create, CreateReserve, NewRun, Unused, CreateStore, CreateStoreFails,
               CreateStart, run, RunLoop, RunRecheck, RunComplete, RunStageError, RunFail, RunExit,
               runStep, StagePrepare, StageSpawn, StageAttach, StageStart
        <5>3. CASE StagePrompt(r) \/ StageStop(r) \/ StageCollect(r)
          BY <1>1, <4>2, <5>1, <5>3 DEF StagePrompt, StageStop, StageCollect, Goto, Owns, local, TypeOK
        <5>4. CASE StageRecord(r) \/ StageRecordError(r)
          <6>1. pc[r] \in {"stageError", "record"} /\ outcome[r] \in Settled
            BY <1>1, <5>4 DEF StageRecord, StageRecordError, OutcomeSettled
          <6>2. SetStages(w, {i}, outcome[r])
            BY <5>1, <5>4 DEF StageRecord, StageRecordError, SetStage
          <6>3. stages'[w] = Mark(stages[w], {i}, outcome[r]) /\ stages[w] \in Seq(Stage)
            BY <1>1, <6>2 DEF SetStages, TypeOK
          <6>4. outcome[r] \in StageStatus /\ outcome[r] # "running"
            BY <6>1 DEF StageStatus, Settled
          <6>5. i \in DOMAIN stages'[w] => stages'[w][i].status = outcome[r]
            BY <6>3, <6>4, MarkRows
          <6> QED BY <2>3, <6>4, <6>5 DEF With
        <5> QED BY <5>2, <5>3, <5>4
      <4> QED BY <4>1, <4>2
    <3> QED BY <3>2, <3>3, Halves
  <2>4. CASE daemon = "down" /\ daemon' # "down"
    <3>1. Restart
      <4>1. CASE Elsewhere
        BY <2>4, <4>1 DEF Elsewhere, SendMessage, SendLock, SendStore, SendFails, Process, Close, Closed,
             Crash, Forget, SecondDaemon, vars, SessionExit, SessionStopped, Cancel, CancelCheck,
             CancelSignal, CancelSweep, CancelStatus, CancelFails
      <4>2. ASSUME NEW r \in Runs, Create(r) \/ run(r) \/ runStep(r) PROVE FALSE
        BY <1>1, <2>4, <4>2, StepsAlone DEF Alone
      <4> QED BY <4>1, <4>2, Halves
    <3>2. ASSUME NEW w \in Workflows PROVE With(w, "running")' = {}
      <4>1. stages'[w] = Mark(stages[w], With(w, "running"), "interrupted") /\ stages[w] \in Seq(Stage)
        BY <1>1, <3>1 DEF Restart, markInterrupted, TypeOK
      <4>2. "interrupted" \in StageStatus
        BY DEF StageStatus, Settled
      <4>3. /\ DOMAIN stages'[w] = DOMAIN stages[w]
            /\ \A i \in DOMAIN stages[w] : stages'[w][i].status =
                 IF i \in With(w, "running") THEN "interrupted" ELSE stages[w][i].status
        BY <4>1, <4>2, MarkRows
      <4> QED BY <4>3 DEF With
    <3> QED BY <3>2 DEF Owned
  <2> QED BY <2>3, <2>4 DEF Owned
<1> QED BY <1>2, <1>3

\* A run that keeps its stage keeps its place in front while the rows advance.
LEMMA FrontKeeps ==
  ASSUME TypeOK, Front, NEW x \in Runs, pc[x] \in Starting, Advance(runWf[x]),
         runWf'[x] = runWf[x], runStage'[x] = runStage[x]
  PROVE  /\ runStage'[x] \in DOMAIN stages'[runWf'[x]]
         /\ \A j \in 1..(runStage'[x] - 1) :
              stages'[runWf'[x]][j].status \notin {"queued", "running"}
<1>1. stages[runWf[x]] \in Seq(Stage)
  BY DEF TypeOK, Starting
<1>2. /\ runStage[x] \in DOMAIN stages[runWf[x]]
      /\ \A j \in 1..(runStage[x] - 1) :
           stages[runWf[x]][j].status \notin {"queued", "running"}
  BY DEF Front
<1>3. 1..(runStage[x] - 1) \subseteq DOMAIN stages[runWf[x]]
  BY <1>1, <1>2
<1> QED BY <1>2, <1>3 DEF Advance

\* The loop takes the first queued stage, and while a run is in the loop no stage of
\* its workflow is running: the owner would be another run of the same workflow.
LEMMA LoopTakesFront ==
  ASSUME SlotInv, StageInv, NEW r \in Runs, RunLoop(r), pc'[r] = "prepare"
  PROVE  /\ runStage'[r] \in DOMAIN stages'[runWf'[r]]
         /\ \A j \in 1..(runStage'[r] - 1) :
              stages'[runWf'[r]][j].status \notin {"queued", "running"}
<1>1. TypeOK /\ SlotsAgree /\ Owned /\ Gone
  BY DEF SlotInv, StageInv
<1>2. pc[r] = "loop" /\ runWf[r] \in Workflows /\ stages' = stages /\ runWf' = runWf
  BY <1>1 DEF RunLoop, TypeOK, store
<1>3. stages[runWf[r]] \in Seq(Stage)
  BY <1>1, <1>2 DEF TypeOK
<1>4. PICK i \in Queued(runWf[r]) : /\ \A j \in Queued(runWf[r]) : i <= j
                                    /\ runStage' = [runStage EXCEPT ![r] = i]
  BY <1>1 DEF RunLoop, Goto, TypeOK
<1>5. runStage'[r] = i /\ i \in DOMAIN stages[runWf[r]]
  BY <1>1, <1>4 DEF TypeOK, Queued, With
<1>6. ASSUME NEW j \in 1..(i - 1) PROVE stages[runWf[r]][j].status \notin {"queued", "running"}
  <2>1. j \in DOMAIN stages[runWf[r]] /\ ~(i <= j)
    BY <1>3, <1>5
  <2>2. stages[runWf[r]][j].status # "queued"
    BY <1>4, <2>1 DEF Queued, With
  <2>3. ASSUME stages[runWf[r]][j].status = "running" PROVE FALSE
    <3>1. PICK x \in Runs : Owns(x, runWf[r], j)
      BY <1>1, <1>2, <2>1, <2>3 DEF Owned, Gone, With
    <3>2. running[runWf[r]] = x /\ running[runWf[r]] = r
      BY <1>1, <1>2, <3>1 DEF SlotsAgree, Owns
    <3> QED BY <1>2, <3>1, <3>2 DEF Owns
  <2> QED BY <2>2, <2>3
<1> QED BY <1>2, <1>5, <1>6

\* A run that has chosen its stage stays in front.
LEMMA FrontStep ==
  ASSUME "store" \notin Environment, SlotInv, StageInv, [Next]_vars
  PROVE  Front'
<1>1. TypeOK /\ SlotsAgree /\ OutcomeSettled /\ Inserted /\ Front
  BY DEF SlotInv, StageInv
<1> DEFINE Before(x) == /\ runStage[x] \in DOMAIN stages[runWf[x]]
                        /\ \A j \in 1..(runStage[x] - 1) :
                             stages[runWf[x]][j].status \notin {"queued", "running"}
<1>2. SUFFICES ASSUME NEW x \in Runs, pc'[x] \in Starting PROVE Before(x)'
  BY DEF Front
<1>3. ASSUME NEW r \in Runs, StageStart(r) PROVE Before(x)'
  <2>1. Alone(r)
    BY <1>1, <1>3, StepsAlone DEF runStep
  <2>2. pc[r] = "start" /\ pc'[r] = "prompt" /\ runWf[r] \in Workflows
    BY <1>1, <1>3 DEF StageStart, Goto, TypeOK
  <2>3. x # r /\ pc[x] \in Starting /\ runWf'[x] = runWf[x] /\ runStage'[x] = runStage[x]
    BY <1>2, <2>1, <2>2 DEF Starting, Alone
  <2>4. runWf[x] \in Workflows /\ running[runWf[x]] = x /\ running[runWf[r]] = r
    BY <1>1, <2>2, <2>3 DEF Starting, TypeOK, SlotsAgree
  <2>5. stages'[runWf[x]] = stages[runWf[x]]
    BY <1>1, <1>3, <2>2, <2>3, <2>4 DEF StageStart, SetStage, SetStages, TypeOK
  <2> QED BY <1>1, <2>3, <2>5 DEF Front
<1>4. ASSUME \A r \in Runs : ~StageStart(r) PROVE Before(x)'
  <2>1. \A w \in Workflows : Advance(w)
    BY <1>1, <1>4, RowsAdvance
  <2>2. ASSUME pc[x] \in Starting, runWf'[x] = runWf[x], runStage'[x] = runStage[x]
        PROVE  Before(x)'
    <3>1. runWf[x] \in Workflows
      BY <1>1, <2>2 DEF TypeOK, Starting
    <3>2. Advance(runWf[x])
      BY <2>1, <3>1
    <3> QED BY <1>1, <2>2, <3>2, FrontKeeps
  <2>3. CASE Elsewhere
    <3>1. pc'[x] \notin {"loop", "done"}
      BY <1>2 DEF Starting
    <3>2. pc'[x] = pc[x] /\ runWf'[x] = runWf[x] /\ runStage'[x] = runStage[x]
      BY <1>1, <2>3, <3>1, StepsElsewhere
    <3> QED BY <1>2, <2>2, <3>2
  <2>4. ASSUME NEW r \in Runs, Create(r) \/ run(r) \/ runStep(r) PROVE Before(x)'
    <3>1. CASE x # r
      <4>1. pc'[x] = pc[x] /\ runWf'[x] = runWf[x] /\ runStage'[x] = runStage[x]
        BY <1>1, <2>4, <3>1, StepsAlone DEF Alone
      <4> QED BY <1>2, <2>2, <4>1
    <3>2. CASE x = r /\ RunLoop(r)
      <4>1. pc'[r] = "prepare"
        BY <1>1, <1>2, <3>2 DEF RunLoop, Goto, Starting, TypeOK
      <4> QED BY <3>2, <4>1, LoopTakesFront
    <3>3. CASE x = r /\ (StagePrepare(r) \/ StageSpawn(r) \/ StageAttach(r))
      <4>1. pc[x] \in Starting /\ runWf'[x] = runWf[x] /\ runStage'[x] = runStage[x]
        BY <3>3 DEF StagePrepare, StageSpawn, StageAttach, Starting, local
      <4> QED BY <2>2, <4>1
    <3>4. CASE x = r /\ ~RunLoop(r) /\ ~(StagePrepare(r) \/ StageSpawn(r) \/ StageAttach(r))
      <4>1. ASSUME NEW w \in Workflows, CreateReserve(r, w) PROVE pc'[r] = "reserved"
        BY <1>1, <4>1 DEF CreateReserve, NewRun, Goto, TypeOK
      <4>2. CASE Create(r)
        BY <1>1, <1>2, <3>4, <4>1, <4>2
           DEF Create, CreateStore, CreateStoreFails, CreateStart, Return, Goto, Starting, TypeOK
      <4>3. CASE run(r)
        BY <1>1, <1>2, <3>4, <4>3
           DEF run, RunRecheck, RunComplete, RunStageError, RunFail, RunExit, Return, Goto,
               Starting, TypeOK
      <4>4. CASE runStep(r)
        BY <1>1, <1>2, <1>4, <3>4, <4>4
           DEF runStep, StageRecordError, StagePrompt, StageStop, StageCollect, StageRecord, Goto,
               Starting, TypeOK
      <4> QED BY <2>4, <4>2, <4>3, <4>4
    <3> QED BY <3>1, <3>2, <3>3, <3>4
  <2> QED BY <2>3, <2>4, Halves
<1> QED BY <1>3, <1>4

\* The stage invariant holds in every state when store writes succeed.
THEOREM CoordinatorStages ==
  ASSUME "store" \notin Environment
  PROVE  Spec => []StageInv
<1>1. Init => StageInv
  BY DEF Init, StageInv, Owned, OutcomeSettled, Front, Gone, Inserted, With, Starting
<1>2. SlotInv /\ TypeOK' /\ StageInv /\ [Next]_vars => StageInv'
  BY OwnedStep, OutcomeStep, FrontStep, GoneStep, InsertedStep DEF StageInv, SlotInv
<1> QED BY <1>1, <1>2, SlotInvariant, CoordinatorTypeOK, PTL DEF Spec

\* When store writes succeed, a stage shown as running has the goroutine that will
\* replace its status, through cancels, failing agents, closes, crashes, restarts
\* and a second daemon's markInterrupted.
THEOREM CoordinatorRunningOwned ==
  ASSUME "store" \notin Environment
  PROVE  Spec => []RunningStageOwned
<1>1. StageInv => RunningStageOwned
  BY DEF StageInv, Owned, Owns, RunningStageOwned, With
<1> QED BY <1>1, CoordinatorStages, PTL

\* When store writes succeed, stages start in the order of their positions, with
\* follow-ups appended while earlier stages run.
THEOREM CoordinatorInOrder ==
  ASSUME "store" \notin Environment
  PROVE  Spec => StagesInOrder
<1> DEFINE A == \A w \in Workflows : \A i \in DOMAIN stages[w] :
                  (stages[w][i].status # "running" /\ stages'[w][i].status = "running") =>
                    \A j \in 1..(i - 1) : stages[w][j].status \notin {"queued", "running"}
<1>1. SlotInv /\ StageInv /\ [Next]_vars => [A]_stages
  <2> SUFFICES ASSUME SlotInv, StageInv, [Next]_vars,
                      NEW w \in Workflows, NEW i \in DOMAIN stages[w],
                      stages[w][i].status # "running", stages'[w][i].status = "running"
               PROVE  \A j \in 1..(i - 1) : stages[w][j].status \notin {"queued", "running"}
    OBVIOUS
  <2>1. PICK r \in Runs : StageStart(r)
    BY RowsAdvance DEF Advance, StageInv
  <2>2. TypeOK /\ Front
    BY DEF SlotInv, StageInv
  <2>3. pc[r] = "start" /\ runWf[r] \in Workflows
    BY <2>1, <2>2 DEF StageStart, TypeOK
  <2>4. /\ stages'[runWf[r]] = Mark(stages[runWf[r]], {runStage[r]}, "running")
        /\ \A x \in Workflows \ {runWf[r]} : stages'[x] = stages[x]
    BY <2>1, <2>2, <2>3 DEF StageStart, SetStage, SetStages, TypeOK
  <2>5. stages[runWf[r]] \in Seq(Stage) /\ "running" \in StageStatus
    BY <2>2, <2>3 DEF TypeOK, StageStatus
  <2>6. \A k \in DOMAIN stages[runWf[r]] : k # runStage[r] =>
          stages'[runWf[r]][k].status = stages[runWf[r]][k].status
    BY <2>4, <2>5, MarkRows
  <2>7. w = runWf[r] /\ i = runStage[r]
    BY <2>4, <2>6
  <2> QED BY <2>2, <2>3, <2>7 DEF Front, Starting
<1> QED BY <1>1, CoordinatorStages, SlotInvariant, PTL DEF Spec, StagesInOrder
================================================================================
