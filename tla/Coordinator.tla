------------------------------ MODULE Coordinator ------------------------------
(***************************************************************************)
(* The AI workflow coordinator (apps/backend/internal/coordinator): the    *)
(* Manager that admits workflows, runs their stages one after another on   *)
(* PTY sessions, takes human follow-up messages and cancels, over the      *)
(* SQLite Store that survives a restart.                                   *)
(*                                                                         *)
(* Every step is one critical section of Manager.mu or one store           *)
(* transaction (the store has a single connection, so transactions are     *)
(* serial); everything between two such steps is local to its goroutine.   *)
(* A run is one runningWorkflow value together with the goroutine          *)
(* Manager.run that owns it and the PTY session of its present stage.      *)
(***************************************************************************)
EXTENDS Naturals, Sequences, FiniteSets

CONSTANTS
  Workflows,    \* workflow identifiers (randomCoordinatorID)
  Runs,         \* runningWorkflow pointers; how many there are bounds the runs at once
  Agents,       \* agent identifiers: codex, claude
  Dirs,         \* canonical directories (validateWorkspace)
  CwdOf,        \* the directory each workflow is created in
  Toplevel,     \* git rev-parse --show-toplevel of each directory
  MaxActive,    \* most registered workflows (len(m.running) >= 2 is refused)
  MaxPlanned,   \* most stages a compiled request may have (8 in the code)
  MaxStages,    \* bound: most stages of a workflow, follow-ups included
  Environment,  \* the outside events a model admits, a subset of Event
  None          \* the absence of a map entry

Event == {"cancel", "close", "crash", "store", "git", "second"}

ASSUME CoordinatorAssumption ==
  /\ CwdOf \in [Workflows -> Dirs]
  /\ Toplevel \in [Dirs -> Dirs]
  /\ MaxActive \in Nat
  /\ MaxPlanned \in Nat \ {0} /\ MaxStages \in Nat /\ MaxPlanned <= MaxStages
  /\ Environment \subseteq Event
  /\ None \notin Runs /\ None \notin Workflows /\ None \notin Dirs

VARIABLES
  wfStatus,    \* workflows.status, "absent" before the row is inserted
  stages,      \* the stages rows of each workflow, ordered by position
  unread,      \* agents whose direct human messages no prompt has included yet
  running,     \* Manager.running: the run registered for a workflow
  workspaces,  \* Manager.workspaces: the workflow that owns a directory
  pc,          \* where each run's goroutine is
  runWf,       \* its workflow
  runKey,      \* its workspace key
  runStage,    \* position of the stage it is on
  outcome,     \* the status it is about to record for that stage
  ctxDone,     \* its context is cancelled
  session,     \* its PTY session
  current,     \* runningWorkflow.current is that session
  send,        \* sendAgentMessage in progress, holding Manager.mu
  canceling,   \* Cancel in progress on each workflow
  daemon       \* the process: up, closing (Manager.Close), down

store == <<wfStatus, stages, unread>>
maps  == <<running, workspaces>>
local == <<runWf, runKey, runStage, outcome>>
proc  == <<ctxDone, session, current>>
calls == <<send, canceling>>
vars  == <<store, maps, pc, local, proc, calls, daemon>>

--------------------------------------------------------------------------------
(* Types *)

Settled     == {"completed", "failed", "cancelled", "interrupted"}
StageStatus == Settled \cup {"queued", "running"}
WfStatus    == StageStatus \cup {"absent"}
Stage       == [agent : Agents, status : StageStatus]
Point       == {"done", "reserved", "created", "loop", "prepare", "spawn",
                "stageError", "attach", "start", "prompt", "wait", "record",
                "finish", "complete", "failed", "failing", "exit"}
Session     == {"none", "live", "stopping", "exitOK", "exitError"}
CancelPoint == {"idle", "checked", "signalled", "swept"}
Idle        == [at |-> "idle"]

\* The session's process may still be executing.
Alive(r) == session[r] \in {"live", "stopping"}

\* A run slot no goroutine, map entry or process refers to.
Unused(r) == pc[r] = "done" /\ ~Alive(r)

\* Runs between runStage's session start and its return.
OnStage == {"attach", "start", "prompt", "wait", "record"}

TypeOK ==
  /\ wfStatus \in [Workflows -> WfStatus]
  /\ stages \in [Workflows -> Seq(Stage)]
  /\ unread \in [Workflows -> SUBSET Agents]
  /\ running \in [Workflows -> Runs \cup {None}]
  /\ workspaces \in [Dirs -> Workflows \cup {None}]
  /\ pc \in [Runs -> Point]
  /\ runWf \in [Runs -> Workflows \cup {None}]
  /\ runKey \in [Runs -> Dirs \cup {None}]
  /\ \A r \in Runs : pc[r] # "done" => runWf[r] \in Workflows /\ runKey[r] \in Dirs
  /\ runStage \in [Runs -> Nat]
  /\ outcome \in [Runs -> StageStatus]
  /\ ctxDone \in [Runs -> BOOLEAN]
  /\ session \in [Runs -> Session]
  /\ current \in [Runs -> BOOLEAN]
  /\ \/ send = Idle
     \/ send \in [at : {"locked"}, wf : Workflows, agent : Agents,
                  queued : BOOLEAN, start : BOOLEAN, key : Dirs]
  /\ canceling \in [Workflows -> CancelPoint]
  /\ daemon \in {"up", "closing", "down"}

--------------------------------------------------------------------------------
(* Helpers *)

\* Mutant: the completion check does not keep mu for its status update.
MuFree_NotAcrossCompletion == send = Idle

\* Manager.mu is held across store calls by sendAgentMessage and by the
\* completion check of run.
MuFree == send = Idle /\ \A r \in Runs : pc[r] # "complete"

\* len(m.running)
Active == {w \in Workflows : running[w] # None}

\* Positions of the stages of a workflow that have a status.
With(w, s) == {i \in DOMAIN stages[w] : stages[w][i].status = s}
Queued(w) == With(w, "queued")

\* The rows of a workflow with the status of those at positions I replaced.
Mark(rows, I, s) ==
  [i \in DOMAIN rows |-> IF i \in I THEN [agent |-> rows[i].agent, status |-> s]
                                    ELSE rows[i]]

\* Mutant: the directory itself instead of its Git root.
WorkspaceKeys_Directory(w) == {CwdOf[w]}

\* workspaceKey: the canonical Git root, or the directory itself when the git
\* command fails or does not answer within two seconds.
WorkspaceKeys(w) ==
  {Toplevel[CwdOf[w]]} \cup (IF "git" \in Environment THEN {CwdOf[w]} ELSE {})

SetStages(w, I, s) == stages' = [stages EXCEPT ![w] = Mark(stages[w], I, s)]
SetStage(w, i, s) == SetStages(w, {i}, s)
SetWorkflowStatus(w, s) == wfStatus' = [wfStatus EXCEPT ![w] = s]
Goto(r, p) == pc' = [pc EXCEPT ![r] = p]

\* A new runningWorkflow and its goroutine's parameters.
NewRun(r, w, k, p) ==
  /\ Unused(r)
  /\ running' = [running EXCEPT ![w] = r]
  /\ workspaces' = [workspaces EXCEPT ![k] = w]
  /\ runWf' = [runWf EXCEPT ![r] = w]
  /\ runKey' = [runKey EXCEPT ![r] = k]
  /\ runStage' = [runStage EXCEPT ![r] = 0]
  /\ outcome' = [outcome EXCEPT ![r] = "queued"]
  /\ ctxDone' = [ctxDone EXCEPT ![r] = FALSE]
  /\ session' = [session EXCEPT ![r] = "none"]
  /\ current' = [current EXCEPT ![r] = FALSE]
  /\ Goto(r, p)

\* Mutant: the deferred clean-up deletes entries without asking whose they are.
Unregister_AnyOwner(r) ==
  /\ running' = [running EXCEPT ![runWf[r]] = None]
  /\ workspaces' = [workspaces EXCEPT ![runKey[r]] = None]

\* Delete the map entries if this run still owns them.
Unregister(r) ==
  LET w == runWf[r] IN
  IF running[w] = r
  THEN /\ running' = [running EXCEPT ![w] = None]
       /\ workspaces' = IF workspaces[runKey[r]] = w
                        THEN [workspaces EXCEPT ![runKey[r]] = None]
                        ELSE workspaces
  ELSE UNCHANGED maps

\* The goroutine ends, and the run value with it; a session told to stop may
\* outlive both.
Return(r) ==
  /\ Goto(r, "done")
  /\ runWf' = [runWf EXCEPT ![r] = None]
  /\ runKey' = [runKey EXCEPT ![r] = None]
  /\ runStage' = [runStage EXCEPT ![r] = 0]
  /\ outcome' = [outcome EXCEPT ![r] = "queued"]
  /\ ctxDone' = [ctxDone EXCEPT ![r] = FALSE]
  /\ session' = [session EXCEPT ![r] = IF Alive(r) THEN @ ELSE "none"]
  /\ current' = [current EXCEPT ![r] = FALSE]

\* session.Stop: the process is told to terminate; no effect once it has exited.
StopSessions(S) ==
  session' = [r \in Runs |-> IF r \in S /\ session[r] = "live"
                             THEN "stopping" ELSE session[r]]

--------------------------------------------------------------------------------
(* Create: reserve under mu, insert the rows, start the goroutine *)

\* Mutant: the limit is checked with > instead of >=.
CreateReserve_OffByOne(r, w) ==
  /\ daemon = "up" /\ MuFree
  /\ wfStatus[w] = "absent" /\ running[w] = None
  /\ Cardinality(Active) <= MaxActive
  /\ \E k \in WorkspaceKeys(w) : workspaces[k] = None /\ NewRun(r, w, k, "reserved")
  /\ UNCHANGED <<store, calls, daemon>>

CreateReserve(r, w) ==
  /\ daemon = "up" /\ MuFree
  /\ wfStatus[w] = "absent" /\ running[w] = None
  /\ Cardinality(Active) < MaxActive
  /\ \E k \in WorkspaceKeys(w) : workspaces[k] = None /\ NewRun(r, w, k, "reserved")
  /\ UNCHANGED <<store, calls, daemon>>

\* What the compiler may make of a request: one queued stage per mention, at most
\* MaxPlanned, or a single stage of a default agent.
Compile ==
  UNION {[1..n -> [agent : Agents, status : {"queued"}]] : n \in 1..MaxPlanned}

\* Store.CreateWorkflow: one transaction for the workflow and its stages.
CreateStore(r) ==
  /\ pc[r] = "reserved"
  /\ wfStatus' = [wfStatus EXCEPT ![runWf[r]] = "queued"]
  /\ \E plan \in Compile : stages' = [stages EXCEPT ![runWf[r]] = plan]
  /\ Goto(r, "created")
  /\ UNCHANGED <<unread, maps, local, proc, calls, daemon>>

\* The transaction failed (a cancelled request, a full disk): give the slot back.
CreateStoreFails(r) ==
  /\ "store" \in Environment
  /\ pc[r] = "reserved" /\ MuFree
  /\ running' = [running EXCEPT ![runWf[r]] = None]
  /\ workspaces' = [workspaces EXCEPT ![runKey[r]] = None]
  /\ Return(r)
  /\ UNCHANGED <<store, calls, daemon>>

CreateStart(r) ==
  /\ pc[r] = "created"
  /\ Goto(r, "loop")
  /\ UNCHANGED <<store, maps, local, proc, calls, daemon>>

--------------------------------------------------------------------------------
(* run: the loop over queued stages *)

\* Mutant: any queued stage is taken, not the first.
RunLoop_AnyStage(r) ==
  /\ pc[r] = "loop" /\ ~ctxDone[r]
  /\ \E i \in Queued(runWf[r]) : runStage' = [runStage EXCEPT ![r] = i]
  /\ Goto(r, "prepare")
  /\ UNCHANGED <<store, maps, runWf, runKey, outcome, proc, calls, daemon>>

\* Load the workflow and take the first queued stage; a cancelled context ends
\* the run, no queued stage leads to the completion check.
RunLoop(r) ==
  /\ pc[r] = "loop"
  /\ \/ ctxDone[r] /\ Goto(r, "exit") /\ UNCHANGED runStage
     \/ /\ ~ctxDone[r]
        /\ \E i \in Queued(runWf[r]) :
             /\ \A j \in Queued(runWf[r]) : i <= j
             /\ runStage' = [runStage EXCEPT ![r] = i]
        /\ Goto(r, "prepare")
     \/ ~ctxDone[r] /\ Queued(runWf[r]) = {} /\ Goto(r, "finish") /\ UNCHANGED runStage
     \/ "store" \in Environment /\ Goto(r, "exit") /\ UNCHANGED runStage
  /\ UNCHANGED <<store, maps, runWf, runKey, outcome, proc, calls, daemon>>

\* Under mu, look once more: a follow-up queued meanwhile restarts the loop.
RunRecheck(r) ==
  /\ pc[r] = "finish" /\ MuFree
  /\ \/ Goto(r, IF Queued(runWf[r]) = {} THEN "complete" ELSE "loop")
     \/ "store" \in Environment /\ Goto(r, "exit")
  /\ UNCHANGED <<store, maps, local, proc, calls, daemon>>

\* Still under mu: completed, and the slot is given up in the same section.
RunComplete(r) ==
  /\ pc[r] = "complete"
  /\ \/ SetWorkflowStatus(runWf[r], "completed")
     \/ "store" \in Environment /\ UNCHANGED wfStatus
  /\ Unregister(r)
  /\ Goto(r, "exit")
  /\ UNCHANGED <<stages, unread, local, proc, calls, daemon>>

\* runStage returned an error: a cancelled run says nothing more.
RunStageError(r) ==
  /\ pc[r] = "failed"
  /\ Goto(r, IF ctxDone[r] THEN "exit" ELSE "failing")
  /\ UNCHANGED <<store, maps, local, proc, calls, daemon>>

\* Mutant: the error return forgets the workflow's status.
RunFail_NoStatus(r) ==
  /\ pc[r] = "failing"
  /\ Goto(r, "exit")
  /\ UNCHANGED <<store, maps, local, proc, calls, daemon>>

RunFail(r) ==
  /\ pc[r] = "failing"
  /\ \/ SetWorkflowStatus(runWf[r], "failed")
     \/ "store" \in Environment /\ UNCHANGED wfStatus
  /\ Goto(r, "exit")
  /\ UNCHANGED <<stages, unread, maps, local, proc, calls, daemon>>

\* The deferred clean-up of run.
RunExit(r) ==
  /\ pc[r] = "exit" /\ MuFree
  /\ Unregister(r)
  /\ Return(r)
  /\ UNCHANGED <<store, calls, daemon>>

--------------------------------------------------------------------------------
(* runStage *)

StageAgent(r) == stages[runWf[r]][runStage[r]].agent

\* Agents(ctx) and Messages(ctx): both fail once the context is cancelled. The
\* agent may have become unavailable; otherwise the prompt now holds every
\* message of the room.
StagePrepare(r) ==
  /\ pc[r] = "prepare"
  /\ \/ /\ ctxDone[r] \/ "store" \in Environment
        /\ Goto(r, "failed") /\ UNCHANGED <<unread, outcome>>
     \/ /\ ~ctxDone[r]
        /\ Goto(r, "stageError") /\ outcome' = [outcome EXCEPT ![r] = "failed"]
        /\ UNCHANGED unread
     \/ /\ ~ctxDone[r]
        /\ unread' = [unread EXCEPT ![runWf[r]] = @ \ {StageAgent(r)}]
        /\ Goto(r, "spawn") /\ UNCHANGED outcome
  /\ UNCHANGED <<wfStatus, stages, maps, runWf, runKey, runStage, proc, calls, daemon>>

\* safePrompt, agentCommand and sessions.Start; each may refuse.
StageSpawn(r) ==
  /\ pc[r] = "spawn"
  /\ \/ /\ session' = [session EXCEPT ![r] = "live"]
        /\ current' = [current EXCEPT ![r] = FALSE]
        /\ Goto(r, "attach") /\ UNCHANGED outcome
     \/ /\ Goto(r, "stageError") /\ outcome' = [outcome EXCEPT ![r] = "failed"]
        /\ UNCHANGED <<session, current>>
  /\ UNCHANGED <<store, maps, runWf, runKey, runStage, ctxDone, calls, daemon>>

\* Mutant: an error return without FinishStage.
StageRecordError_Skipped(r) ==
  /\ pc[r] = "stageError"
  /\ Goto(r, "failed")
  /\ UNCHANGED <<store, maps, local, proc, calls, daemon>>

\* FinishStage(StageFailed) before the function returns its error; a store
\* error here is ignored.
StageRecordError(r) ==
  /\ pc[r] = "stageError"
  /\ \/ SetStage(runWf[r], runStage[r], outcome[r])
     \/ "store" \in Environment /\ UNCHANGED stages
  /\ Goto(r, "failed")
  /\ UNCHANGED <<wfStatus, unread, maps, local, proc, calls, daemon>>

\* running.current = current, on the run registered for this workflow.
StageAttach(r) ==
  /\ pc[r] = "attach" /\ MuFree
  /\ current' = IF running[runWf[r]] # None
                THEN [current EXCEPT ![running[runWf[r]]] = TRUE] ELSE current
  /\ Goto(r, "start")
  /\ UNCHANGED <<store, maps, local, ctxDone, session, calls, daemon>>

\* Store.StartStage: workflow and stage become running, whatever they were.
StageStart(r) ==
  /\ pc[r] = "start"
  /\ \/ /\ SetWorkflowStatus(runWf[r], "running")
        /\ SetStage(runWf[r], runStage[r], "running")
        /\ Goto(r, "prompt") /\ UNCHANGED session
     \/ /\ "store" \in Environment
        /\ StopSessions({r})
        /\ Goto(r, "failed") /\ UNCHANGED <<wfStatus, stages>>
  /\ UNCHANGED <<unread, maps, local, ctxDone, current, calls, daemon>>

\* writePrompt: on an error the session is stopped and the stage has failed.
StagePrompt(r) ==
  /\ pc[r] = "prompt"
  /\ \/ Goto(r, "wait") /\ UNCHANGED <<session, outcome>>
     \/ /\ StopSessions({r})
        /\ Goto(r, "stageError") /\ outcome' = [outcome EXCEPT ![r] = "failed"]
  /\ UNCHANGED <<store, maps, runWf, runKey, runStage, ctxDone, current, calls, daemon>>

\* Mutant: the select does not watch the context.
StageStop_Never(r) ==
  /\ FALSE
  /\ UNCHANGED vars

\* ctx.Done wins the select: stop the session, then wait for it to end.
StageStop(r) ==
  /\ pc[r] = "wait" /\ ctxDone[r] /\ session[r] = "live"
  /\ StopSessions({r})
  /\ UNCHANGED <<store, maps, pc, local, ctxDone, current, calls, daemon>>

\* The session ended: the context and the exit code decide the stage's status.
StageCollect(r) ==
  /\ pc[r] = "wait" /\ ~Alive(r)
  /\ outcome' = [outcome EXCEPT ![r] =
       IF ctxDone[r] THEN "cancelled"
       ELSE IF session[r] = "exitOK" THEN "completed" ELSE "failed"]
  /\ Goto(r, "record")
  /\ UNCHANGED <<store, maps, runWf, runKey, runStage, proc, calls, daemon>>

\* FinishStage; only the completed case looks at its error.
StageRecord(r) ==
  /\ pc[r] = "record"
  /\ \/ /\ SetStage(runWf[r], runStage[r], outcome[r])
        /\ Goto(r, IF outcome[r] = "completed" THEN "loop" ELSE "failed")
     \/ /\ "store" \in Environment /\ UNCHANGED stages
        /\ Goto(r, "failed")
  /\ UNCHANGED <<wfStatus, unread, maps, local, proc, calls, daemon>>

\* The agent process ends by itself.
SessionExit(r) ==
  /\ session[r] = "live"
  /\ \E s \in {"exitOK", "exitError"} : session' = [session EXCEPT ![r] = s]
  /\ UNCHANGED <<store, maps, pc, local, ctxDone, current, calls, daemon>>

\* It ends because it was told to: SIGTERM, and SIGKILL three seconds later. Nobody
\* asks for the exit code once the run has returned.
SessionStopped(r) ==
  /\ session[r] = "stopping"
  /\ \E s \in IF pc[r] = "done" THEN {"none"} ELSE {"exitOK", "exitError"} :
       session' = [session EXCEPT ![r] = s]
  /\ UNCHANGED <<store, maps, pc, local, ctxDone, current, calls, daemon>>

--------------------------------------------------------------------------------
(* SendMessage to a named agent: one critical section, two store calls *)

\* Lock, reload, look for a queued turn of the agent; refuse if the workflow
\* must be started and its project or the global limit is taken.
SendLock(w, a) ==
  /\ daemon = "up" /\ MuFree
  /\ wfStatus[w] # "absent"
  /\ \E i \in DOMAIN stages[w] : stages[w][i].agent = a
  /\ \/ \E i \in Queued(w) : stages[w][i].agent = a
     \/ Len(stages[w]) < MaxStages
  /\ \E k \in WorkspaceKeys(w) :
       /\ running[w] = None => /\ workspaces[k] \in {None, w}
                               /\ Cardinality(Active) < MaxActive
                               /\ \E r \in Runs : Unused(r)
       /\ send' = [at |-> "locked", wf |-> w, agent |-> a,
                   queued |-> \E i \in Queued(w) : stages[w][i].agent = a,
                   start |-> running[w] = None, key |-> k]
  /\ UNCHANGED <<store, maps, pc, local, proc, canceling, daemon>>

\* AddMessage or AddMessageWithStage, then the goroutine if none is registered.
SendStore ==
  /\ send # Idle
  /\ LET w == send.wf IN
     /\ unread' = [unread EXCEPT ![w] = @ \cup {send.agent}]
     /\ IF send.queued
        THEN UNCHANGED <<wfStatus, stages>>
        ELSE /\ stages' = [stages EXCEPT ![w] =
                             Append(@, [agent |-> send.agent, status |-> "queued"])]
             /\ wfStatus' = [wfStatus EXCEPT ![w] =
                             IF @ \in Settled THEN "queued" ELSE @]
     /\ IF send.start
        THEN \E r \in Runs : NewRun(r, w, send.key, "loop")
        ELSE UNCHANGED <<maps, pc, local, proc>>
  /\ send' = Idle
  /\ UNCHANGED <<canceling, daemon>>

\* The transaction failed: nothing was added, nothing is started.
SendFails ==
  /\ "store" \in Environment
  /\ send # Idle /\ send' = Idle
  /\ UNCHANGED <<store, maps, pc, local, proc, canceling, daemon>>

--------------------------------------------------------------------------------
(* Cancel: check the status, signal under mu, sweep the queue, set the status *)

CancelCheck(w) ==
  /\ "cancel" \in Environment /\ daemon = "up"
  /\ canceling[w] = "idle"
  /\ wfStatus[w] \in {"queued", "running"}
  /\ canceling' = [canceling EXCEPT ![w] = "checked"]
  /\ UNCHANGED <<store, maps, pc, local, proc, send, daemon>>

CancelSignal(w) ==
  /\ canceling[w] = "checked" /\ MuFree
  /\ LET r == running[w] IN
     IF r = None THEN UNCHANGED <<ctxDone, session>>
     ELSE /\ ctxDone' = [ctxDone EXCEPT ![r] = TRUE]
          /\ StopSessions({x \in {r} : current[x]})
  /\ canceling' = [canceling EXCEPT ![w] = "signalled"]
  /\ UNCHANGED <<store, maps, pc, local, current, send, daemon>>

\* Mutant: a status outside the six the readers know.
CancelSweep_Misspelt(w) ==
  /\ canceling[w] = "signalled"
  /\ SetStages(w, Queued(w), "canceled")
  /\ canceling' = [canceling EXCEPT ![w] = "swept"]
  /\ UNCHANGED <<wfStatus, unread, maps, pc, local, proc, send, daemon>>

\* Store.CancelQueuedStages
CancelSweep(w) ==
  /\ canceling[w] = "signalled"
  /\ SetStages(w, Queued(w), "cancelled")
  /\ canceling' = [canceling EXCEPT ![w] = "swept"]
  /\ UNCHANGED <<wfStatus, unread, maps, pc, local, proc, send, daemon>>

CancelStatus(w) ==
  /\ canceling[w] = "swept"
  /\ SetWorkflowStatus(w, "cancelled")
  /\ canceling' = [canceling EXCEPT ![w] = "idle"]
  /\ UNCHANGED <<stages, unread, maps, pc, local, proc, send, daemon>>

\* Either store call failed: Cancel returns early.
CancelFails(w) ==
  /\ "store" \in Environment
  /\ canceling[w] \in {"signalled", "swept"}
  /\ canceling' = [canceling EXCEPT ![w] = "idle"]
  /\ UNCHANGED <<store, maps, pc, local, proc, send, daemon>>

--------------------------------------------------------------------------------
(* The daemon process *)

\* Mutant: sessions are stopped, the contexts are not cancelled.
Close_StopOnly ==
  /\ "close" \in Environment
  /\ daemon = "up" /\ MuFree
  /\ StopSessions({r \in Runs : current[r]})
  /\ daemon' = "closing"
  /\ UNCHANGED <<store, maps, pc, local, ctxDone, current, calls>>

\* Manager.Close: cancel every registered run, then wait for the goroutines.
Close ==
  /\ "close" \in Environment
  /\ daemon = "up" /\ MuFree
  /\ LET registered == {r \in Runs : \E w \in Workflows : running[w] = r} IN
     /\ ctxDone' = [r \in Runs |-> ctxDone[r] \/ r \in registered]
     /\ StopSessions({r \in registered : current[r]})
  /\ daemon' = "closing"
  /\ UNCHANGED <<store, maps, pc, local, current, calls>>

\* What a process that is gone no longer has; its PTYs are closed with it.
Forget ==
  /\ running' = [w \in Workflows |-> None]
  /\ workspaces' = [d \in Dirs |-> None]
  /\ pc' = [r \in Runs |-> "done"]
  /\ runWf' = [r \in Runs |-> None]
  /\ runKey' = [r \in Runs |-> None]
  /\ runStage' = [r \in Runs |-> 0]
  /\ outcome' = [r \in Runs |-> "queued"]
  /\ ctxDone' = [r \in Runs |-> FALSE]
  /\ session' = [r \in Runs |-> "none"]
  /\ current' = [r \in Runs |-> FALSE]
  /\ send' = Idle
  /\ canceling' = [w \in Workflows |-> "idle"]
  /\ daemon' = "down"
  /\ UNCHANGED store

\* wg.Wait returned: every started goroutine is done.
Closed ==
  /\ daemon = "closing"
  /\ \A r \in Runs : pc[r] \in {"done", "reserved", "created"}
  /\ Forget

Crash ==
  /\ "crash" \in Environment
  /\ daemon \in {"up", "closing"}
  /\ Forget

\* Store.markInterrupted, run by every OpenStore.
markInterrupted ==
  /\ stages' = [w \in Workflows |-> Mark(stages[w], With(w, "running"), "interrupted")]
  /\ wfStatus' = [w \in Workflows |->
       IF wfStatus[w] \in {"queued", "running"} THEN "interrupted" ELSE wfStatus[w]]

Restart ==
  /\ daemon = "down"
  /\ markInterrupted
  /\ daemon' = "up"
  /\ UNCHANGED <<unread, maps, pc, local, proc, calls>>

\* A second "termlinks daemon" opens the store before listenUnix tells it that
\* the socket is served; then it gives up.
SecondDaemon ==
  /\ "second" \in Environment
  /\ daemon = "up"
  /\ markInterrupted
  /\ UNCHANGED <<unread, maps, pc, local, proc, calls, daemon>>

--------------------------------------------------------------------------------
Init ==
  /\ wfStatus = [w \in Workflows |-> "absent"]
  /\ stages = [w \in Workflows |-> <<>>]
  /\ unread = [w \in Workflows |-> {}]
  /\ running = [w \in Workflows |-> None]
  /\ workspaces = [d \in Dirs |-> None]
  /\ pc = [r \in Runs |-> "done"]
  /\ runWf = [r \in Runs |-> None]
  /\ runKey = [r \in Runs |-> None]
  /\ runStage = [r \in Runs |-> 0]
  /\ outcome = [r \in Runs |-> "queued"]
  /\ ctxDone = [r \in Runs |-> FALSE]
  /\ session = [r \in Runs |-> "none"]
  /\ current = [r \in Runs |-> FALSE]
  /\ send = Idle
  /\ canceling = [w \in Workflows |-> "idle"]
  /\ daemon = "up"

Create(r) ==
  \/ \E w \in Workflows : CreateReserve(r, w)
  \/ CreateStore(r) \/ CreateStoreFails(r) \/ CreateStart(r)

run(r) ==
  \/ RunLoop(r) \/ RunRecheck(r) \/ RunComplete(r)
  \/ RunStageError(r) \/ RunFail(r) \/ RunExit(r)

runStep(r) ==
  \/ StagePrepare(r) \/ StageSpawn(r) \/ StageRecordError(r) \/ StageAttach(r)
  \/ StageStart(r) \/ StagePrompt(r) \/ StageStop(r) \/ StageCollect(r)
  \/ StageRecord(r)

SendMessage ==
  \/ \E w \in Workflows, a \in Agents : SendLock(w, a)
  \/ SendStore \/ SendFails

Cancel(w) ==
  \/ CancelCheck(w) \/ CancelSignal(w) \/ CancelSweep(w) \/ CancelStatus(w)
  \/ CancelFails(w)

Process == Close \/ Closed \/ Crash \/ Restart \/ SecondDaemon

Next ==
  \/ \E r \in Runs : Create(r) \/ run(r) \/ runStep(r) \/ SessionExit(r) \/ SessionStopped(r)
  \/ SendMessage
  \/ \E w \in Workflows : Cancel(w)
  \/ Process

Spec == Init /\ [][Next]_vars

\* Goroutines and calls in progress are scheduled and none starves at mu (a Go
\* mutex hands over to a waiter within a millisecond), hence strong fairness where
\* mu is taken; a session told to stop ends (SIGKILL after three seconds). Nobody
\* has to create, send, cancel, close or crash, and an agent may work for ever.
Goroutine(r) == CreateStore(r) \/ CreateStart(r) \/ run(r) \/ runStep(r)

Fairness ==
  /\ \A r \in Runs : SF_vars(Goroutine(r)) /\ WF_vars(SessionStopped(r))
  /\ \A w \in Workflows : SF_vars(CancelSignal(w)) /\ WF_vars(CancelSweep(w) \/ CancelStatus(w))
  /\ WF_vars(SendStore)
  /\ WF_vars(Closed)

FairSpec == Spec /\ Fairness

--------------------------------------------------------------------------------
(* Properties *)

\* The Git repository a run works in.
Repository(r) == Toplevel[CwdOf[runWf[r]]]

\* Runs whose agent process is executing and has not been told to stop.
Working == {r \in Runs : session[r] = "live"}

\* "one active workflow per canonical Git repository": two agents that have not
\* been told to stop never work in the same repository, through any mix of
\* Create, follow-ups, cancels, failures and restarts (Create, sendAgentMessage
\* and the three places that delete the map entries keep this together).
RepositoryExclusive ==
  \A r, s \in Working : r # s => Repository(r) # Repository(s)

\* The maps and the goroutines agree: an entry of Manager.running belongs to a live
\* goroutine of that workflow which also owns its workspace, and a goroutine is
\* registered until it completes or leaves (the owned checks of run, the deferred
\* clean-up and Create's error path).
SlotsAgree ==
  /\ \A w \in Workflows : running[w] # None =>
       LET r == running[w] IN pc[r] # "done" /\ runWf[r] = w /\ workspaces[runKey[r]] = w
  /\ \A r \in Runs : pc[r] \notin {"done", "exit"} => running[runWf[r]] = r

\* "two active workflows globally": never more than two agents at work, counting
\* processes and not map entries.
AgentsBounded == Cardinality(Working) <= MaxActive

\* A stage the store shows as running has the goroutine that will finish it; in
\* every way out of runStage after StartStage the status is replaced.
RunningStageOwned ==
  daemon = "up" =>
    \A w \in Workflows : \A i \in DOMAIN stages[w] :
      stages[w][i].status = "running" =>
        \E r \in Runs : /\ runWf[r] = w /\ runStage[r] = i
                       /\ pc[r] \in {"prompt", "wait", "record", "stageError"}

\* "Serialize the final empty-queue check with human follow-up insertion": a
\* workflow shown as completed has no queued turn.
CompletedHasNoQueue ==
  \A w \in Workflows : wfStatus[w] = "completed" => Queued(w) = {}

\* Stages start in the order of their positions: when one becomes running, no
\* earlier one is still queued or running.
StagesInOrder ==
  [][\A w \in Workflows : \A i \in DOMAIN stages[w] :
       (stages[w][i].status # "running" /\ stages'[w][i].status = "running") =>
         \A j \in 1..(i - 1) : stages[w][j].status \notin {"queued", "running"}]_stages

\* Cancelling a run ends it: its goroutine returns, also when the cancel came
\* before the session was registered as current and nobody stopped it.
CancelEndsRun == \A r \in Runs : (ctxDone[r] /\ pc[r] # "done") ~> pc[r] = "done"

\* Close's wg.Wait returns.
CloseTerminates == daemon = "closing" ~> daemon = "down"

\* A workflow shown as running whose run nobody cancels does not stay so, provided
\* its agents end, as one-shot commands do: every way through runStage and run ends
\* in another status.
Uncancelled(w) == daemon = "up" /\ running[w] # None /\ ~ctxDone[running[w]]

RunningEnds ==
  (\A r \in Runs : []<>(session[r] # "live")) =>
    \A w \in Workflows :
      (wfStatus[w] = "running" /\ Uncancelled(w)) ~>
        (wfStatus[w] # "running" \/ \E r \in Runs : runWf[r] = w /\ ctxDone[r])

\* "so a message arriving at completion cannot strand a queued agent turn": a
\* workflow shown as queued is registered with a goroutine or is being created.
NoStrandedTurn ==
  \A w \in Workflows : wfStatus[w] = "queued" /\ daemon = "up" => running[w] # None

\* "cancellation terminates the active agent and prevents queued stages from
\* starting": a stage that Cancel took off the queue is not started.
CancelledStaysOff ==
  [][\A w \in Workflows : \A i \in DOMAIN stages[w] :
       stages[w][i].status = "cancelled" => stages'[w][i].status # "running"]_stages

\* "An authenticated human message to a named participant either feeds that
\* agent's already queued turn or atomically appends one follow-up stage": a room
\* that completed has put every direct message into some prompt of its agent.
MessagesReachAgent ==
  \A w \in Workflows : wfStatus[w] = "completed" => unread[w] = {}

\* "If the daemon restarts, SQLite marks previously active work interrupted": work
\* marked interrupted is not work a goroutine of this daemon is doing.
InterruptedIsOver ==
  \A r \in Runs : session[r] = "live" /\ pc[r] \in {"prompt", "wait"} =>
    stages[runWf[r]][runStage[r]].status # "interrupted"
================================================================================
