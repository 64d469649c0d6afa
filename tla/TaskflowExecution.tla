-------------------------- MODULE TaskflowExecution --------------------------
(***************************************************************************)
(* One taskflow after the other, and the cancellations that overtake them: *)
(* process_taskflow_message and the scheduler on the taskflow thread,      *)
(* handle_taskflow_cancel_message on the paho thread (cli.py), the         *)
(* TaskflowExecutionController between them (taskflow/control.py) and the   *)
(* statuses both publish under one StatusSequence (mqtt/status_reporter.py).*)
(*                                                                         *)
(* Of the modules it composes it keeps what they promise: the message       *)
(* queue is the FIFO of FifoService; the worker (GdkWorker) runs one        *)
(* command at a time, an interrupted command never succeeds, and in a race  *)
(* its caller gets an exception instead of the cancelled result; the gate   *)
(* (RecoveryGate) closes on the cancelled and timed out control commands    *)
(* before the next is admitted.  A taskflow is a chain of Steps worker       *)
(* nodes; what the scheduler does with other graphs is TaskflowScheduler's   *)
(* subject.  A node sends one control command, or it is a qr_pose_skill and  *)
(* sends up to two: the return motion to the initial photo pose and the      *)
(* snapshot, which moves nothing and is no matter of the gate.               *)
(***************************************************************************)
EXTENDS Naturals, Sequences, FiniteSets

CONSTANTS
    Apps,       \* app_execution_id
    NoApp,      \* None
    Steps,      \* worker nodes of a taskflow
    MaxRuns,    \* bound: taskflow messages
    MaxCancels  \* bound: cancel messages

ASSUME ExecutionAssumption ==
    /\ NoApp \notin Apps
    /\ Steps \in Nat \ {0} /\ MaxRuns \in Nat /\ MaxCancels \in Nat

VARIABLES
    inbox,      \* messages accepted by the queue and not yet taken
    \* TaskflowExecutionController
    active,     \* _active_app_execution_id
    cancelled,  \* _active_cancellation is not None
    pending,    \* keys of _pending_cancellations
    \* the taskflow thread
    wpc, app, step,
    phase,      \* which command the node is at
    outcome,    \* result of the node, then of the schedule
    \* the paho thread, inside handle_taskflow_cancel_message
    hpc, target,
    \* GDK
    command,    \* whose worker command is in flight
    killed,     \* cancel_active_command has terminated it
    gate,       \* the recovery gate is closed
    \* what the client shows: the state of the highest status_seq of an execution
    shown,
    \* history
    submitted, cancels,  \* messages so far
    preCancelled,        \* this run began with a pending cancellation
    started, succeeded,  \* commands this run started, and those that succeeded
    late,                \* phases of the commands started after the run was flagged
    wasKilled,           \* a command of this run was killed
    owing,               \* the gate, not opened since, closed on or refused this run
    finals               \* terminal states published for this run

controller == <<active, cancelled, pending>>
worker     == <<wpc, app, step, phase, outcome>>
handler    == <<hpc, target>>
gdk        == <<command, killed, gate>>
bounds     == <<submitted, cancels>>
history    == <<preCancelled, started, succeeded, late, wasKilled, owing>>
vars == <<inbox, controller, worker, handler, gdk, shown, bounds, history, finals>>

WorkerPCs == {"idle", "start", "announce", "check", "skip", "begin", "check2", "call",
              "lease", "snapshot", "command", "ended", "except", "release", "finish",
              "report"}
Phases == {"only", "return", "snapshot"}
Outcomes == {"success", "cancelled", "error", "refused", "raised"}
Final == {"OVER", "ERROR", "CANCELED", "STOP_UNCONFIRMED"}

Init ==
    /\ inbox = <<>>
    /\ active = NoApp /\ cancelled = FALSE /\ pending = {}
    /\ wpc = "idle" /\ app = NoApp /\ step = 0 /\ phase = "only" /\ outcome = "success"
    /\ hpc = "idle" /\ target = NoApp
    /\ command = "none" /\ killed = FALSE /\ gate = FALSE
    /\ shown = [a \in Apps |-> "none"]
    /\ submitted = 0 /\ cancels = 0
    /\ preCancelled = FALSE /\ started = 0 /\ succeeded = 0 /\ late = <<>>
    /\ wasKilled = FALSE /\ owing = FALSE /\ finals = {}

\* publish_status on the taskflow thread.
Publish(state) ==
    /\ shown' = [shown EXCEPT ![app] = state]
    /\ finals' = IF state \in Final THEN finals \union {state} ELSE finals

\* A terminal status (of a node: not ERROR) is waited for; without a connection the wait
\* raises, though paho has queued the status.
Waited(state, next) ==
    IF state \in Final \ {"ERROR"} THEN wpc' \in {next, "except"} ELSE wpc' = next

----------------------------------------------------------------------------
(* The paho thread handles one message at a time.                          *)

Submit(a) ==
    /\ hpc = "idle" /\ submitted < MaxRuns
    /\ submitted' = submitted + 1
    /\ inbox' = Append(inbox, a)
    /\ UNCHANGED <<controller, worker, handler, gdk, shown, cancels, history, finals>>

\* request_cancel, up to the release of the controller's lock.
RequestCancel(request) ==
    /\ hpc = "idle" /\ cancels < MaxCancels
    /\ cancels' = cancels + 1
    /\ LET id == IF request = NoApp THEN active ELSE request IN
       IF id # NoApp /\ id = active
       THEN /\ cancelled' = TRUE
            /\ target' = id /\ hpc' = "inject"
            /\ UNCHANGED pending
       ELSE /\ pending' = IF id = NoApp THEN pending ELSE pending \union {id}
            /\ UNCHANGED <<cancelled, target, hpc>>
    /\ UNCHANGED <<inbox, active, worker, gdk, shown, submitted, history, finals>>

\* cancel_active_command: whatever command is in flight now.
Inject ==
    /\ hpc = "inject"
    /\ killed' = (command # "none")
    /\ wasKilled' = (wasKilled \/ command = "taskflow")
    /\ \/ hpc' = "canceling" /\ UNCHANGED target
       \/ hpc' = "idle" /\ target' = NoApp  \* the event log could not be written
    /\ UNCHANGED <<inbox, controller, worker, command, gate, shown, bounds,
                   preCancelled, started, succeeded, late, owing, finals>>

\* publish_execution_canceling: task_state RUNNING, cancel_state CANCELING.
PublishCanceling ==
    /\ hpc = "canceling"
    /\ shown' = [shown EXCEPT ![target] = "RUNNING"]
    /\ hpc' = "idle" /\ target' = NoApp
    /\ UNCHANGED <<inbox, controller, worker, gdk, bounds, history, finals>>

----------------------------------------------------------------------------
(* process_taskflow_message.                                               *)

Take ==
    /\ wpc = "idle" /\ inbox # <<>>
    /\ app' = Head(inbox) /\ inbox' = Tail(inbox)
    /\ wpc' = "start"
    /\ step' = 0 /\ outcome' = "success"
    /\ preCancelled' = FALSE /\ started' = 0 /\ succeeded' = 0 /\ late' = <<>>
    /\ wasKilled' = FALSE /\ owing' = FALSE /\ finals' = {}
    /\ UNCHANGED <<controller, phase, handler, gdk, shown, bounds>>

\* Unparsable YAML (no id to report on) or a skill that is not registered.
Reject ==
    /\ wpc = "start"
    /\ \/ UNCHANGED <<shown, finals>>
       \/ Publish("ERROR")
    /\ wpc' = "idle"
    /\ UNCHANGED <<inbox, controller, app, step, phase, outcome, handler, gdk, bounds, history>>

\* Mutated: a cancellation that came before the run is dropped.
StartExecutionForgets ==
    /\ wpc = "start"
    /\ active' = app
    /\ cancelled' = FALSE
    /\ preCancelled' = (app \in pending)
    /\ pending' = pending \ {app}
    /\ wpc' \in {"announce", "except"}  \* the event log is written, or not
    /\ UNCHANGED <<inbox, app, step, phase, outcome, handler, gdk, shown, bounds, started,
                   succeeded, late, wasKilled, owing, finals>>

StartExecution ==
    /\ wpc = "start"
    /\ active' = app
    /\ cancelled' = (app \in pending)
    /\ preCancelled' = cancelled'
    /\ pending' = pending \ {app}
    /\ wpc' \in {"announce", "except"}  \* the event log is written, or not
    /\ UNCHANGED <<inbox, app, step, phase, outcome, handler, gdk, shown, bounds, started,
                   succeeded, late, wasKilled, owing, finals>>

\* A closed gate is also written to the event log, or not.
PublishStarted ==
    /\ wpc = "announce"
    /\ Publish("RUNNING")
    /\ wpc' \in IF gate THEN {"check", "except"} ELSE {"check"}
    /\ UNCHANGED <<inbox, controller, app, step, phase, outcome, handler, gdk, bounds, history>>

\* The check at the head of TaskflowScheduler.run's loop.
Check ==
    /\ wpc = "check"
    /\ wpc' = IF cancelled THEN "skip" ELSE "begin"
    /\ UNCHANGED <<inbox, controller, app, step, phase, outcome, handler, gdk, shown, bounds,
                   history, finals>>

\* The running event of a node: of one that is only recorded as cancelled ...
Skip ==
    /\ wpc = "skip"
    /\ Publish("RUNNING")
    /\ outcome' = "cancelled"
    /\ wpc' = "ended"
    /\ UNCHANGED <<inbox, controller, app, step, phase, handler, gdk, bounds, history>>

\* ... and of one that is to be executed.
Begin ==
    /\ wpc = "begin"
    /\ Publish("RUNNING")
    /\ wpc' = "check2"
    /\ UNCHANGED <<inbox, controller, app, step, phase, outcome, handler, gdk, bounds, history>>

\* The check in execute_regular_node, immediately before the node runner.
CheckAgain ==
    /\ wpc = "check2"
    /\ IF cancelled
       THEN outcome' = "cancelled" /\ wpc' = "ended"
       ELSE wpc' = "call" /\ UNCHANGED outcome
    /\ UNCHANGED <<inbox, controller, app, step, phase, handler, gdk, shown, bounds, history,
                   finals>>

\* The node runner returns, or it raises.
NodeEnds(result) == outcome' = result /\ wpc' = "ended" /\ phase' = "only"
NodeRaises       == wpc' = "except" /\ phase' = "only" /\ UNCHANGED outcome

\* Nothing is sent: the gate is closed, or parameters, safety gates or files are wrong.  The
\* refusal of a return motion is only a part of what its node reports, an error.
RefuseCommand ==
    /\ wpc = "call"
    /\ \/ NodeEnds("error")
       \/ gate /\ NodeEnds("refused")
    /\ owing' = gate
    /\ UNCHANGED <<inbox, controller, app, step, handler, gdk, shown, bounds, preCancelled,
                   started, succeeded, late, wasKilled, finals>>

\* A control command passes the gate, and waits for the session lease.
PassChecks ==
    /\ wpc = "call" /\ ~gate
    /\ wpc' = "lease" /\ phase' \in {"only", "return"}
    /\ UNCHANGED <<inbox, controller, app, step, outcome, handler, gdk, shown, bounds,
                   history, finals>>

\* return_to_initial_photo_pose is off.
SkipReturn ==
    /\ wpc = "call"
    /\ wpc' = "snapshot" /\ phase' = "snapshot"
    /\ UNCHANGED <<inbox, controller, app, step, outcome, handler, gdk, shown, bounds,
                   history, finals>>

\* The lease, and with it the worker, is free: run_command sends the command, whatever has
\* become of the cancellation since CheckAgain.
Start ==
    /\ command = "none" /\ command' = "taskflow"
    /\ started' = started + 1
    /\ late' = IF cancelled THEN Append(late, phase) ELSE late
    /\ wpc' = "command"
    /\ UNCHANGED <<inbox, controller, app, step, phase, outcome, handler, killed, gate, shown,
                   bounds, preCancelled, succeeded, wasKilled, owing, finals>>

StartCommand  == wpc = "lease" /\ Start
StartSnapshot == wpc = "snapshot" /\ Start

\* The snapshot does not wait for the lease, and its directory is made first.
FailSnapshot ==
    /\ wpc = "snapshot"
    /\ NodeEnds("error")
    /\ UNCHANGED <<inbox, controller, app, step, handler, gdk, shown, bounds, history, finals>>

\* The command ends by itself.  After the return motion comes the snapshot at once; after
\* any other the node ends, an error if what it made of the result is wrong.
EndCommand ==
    /\ wpc = "command" /\ ~killed
    /\ command' = "none"
    /\ \/ NodeEnds("error") /\ UNCHANGED succeeded
       \/ /\ succeeded' = succeeded + 1
          /\ IF phase = "return"
             THEN wpc' = "snapshot" /\ phase' = "snapshot" /\ UNCHANGED outcome
             ELSE NodeEnds("success") \/ NodeEnds("error")
    /\ UNCHANGED <<inbox, controller, app, step, handler, killed, gate, shown, bounds,
                   preCancelled, started, late, wasKilled, owing, finals>>

\* Its deadline passes: of a control command the gate is marked, which may fail to write.
TimeOut ==
    /\ wpc = "command" /\ ~killed
    /\ command' = "none"
    /\ gate' = (gate \/ phase # "snapshot") /\ owing' = (owing \/ phase # "snapshot")
    /\ NodeEnds("error") \/ (phase = "only" /\ NodeRaises)
    /\ UNCHANGED <<inbox, controller, app, step, handler, killed, shown, bounds,
                   preCancelled, started, succeeded, late, wasKilled, finals>>

\* Mutated: a result the child sent before it was killed wins.
EndInterruptedLate ==
    /\ wpc = "command" /\ killed
    /\ command' = "none" /\ killed' = FALSE
    /\ \/ NodeEnds("success") /\ succeeded' = succeeded + 1 /\ UNCHANGED <<gate, owing>>
       \/ /\ gate' = (gate \/ phase # "snapshot") /\ owing' = (owing \/ phase # "snapshot")
          /\ NodeEnds(IF phase = "return" THEN "error" ELSE "cancelled")
          /\ UNCHANGED succeeded
    /\ UNCHANGED <<inbox, controller, app, step, handler, shown, bounds,
                   preCancelled, started, late, wasKilled, finals>>

\* It was killed: the same, and the node is cancelled, one whose return motion was killed an
\* error.
EndInterrupted ==
    /\ wpc = "command" /\ killed
    /\ command' = "none" /\ killed' = FALSE
    /\ gate' = (gate \/ phase # "snapshot") /\ owing' = (owing \/ phase # "snapshot")
    /\ \/ NodeEnds(IF phase = "return" THEN "error" ELSE "cancelled")
       \/ phase = "only" /\ NodeRaises
    /\ UNCHANGED <<inbox, controller, app, step, handler, shown, bounds,
                   preCancelled, started, succeeded, late, wasKilled, finals>>

\* It was killed, and the waiting thread found the result queue closed; a qr_pose_skill
\* makes an error of what was raised.
RaiseInterrupted ==
    /\ wpc = "command" /\ killed
    /\ command' = "none" /\ killed' = FALSE
    /\ IF phase = "only" THEN NodeRaises ELSE NodeEnds("error")
    /\ UNCHANGED <<inbox, controller, app, step, handler, gate, shown, bounds, history, finals>>

\* map_node_status_to_execution_state: only a refusal carries a stop_state.
NodeState ==
    CASE outcome = "success" -> "RUNNING"
      [] outcome = "cancelled" -> "CANCELED"
      [] outcome = "refused" -> "STOP_UNCONFIRMED"
      [] OTHER -> "ERROR"

\* Mutated: one node too many.
PublishNodeOneMore ==
    /\ wpc = "ended"
    /\ Publish(NodeState)
    /\ step' = IF outcome = "success" THEN step + 1 ELSE step
    /\ Waited(NodeState, IF outcome = "success" /\ step' <= Steps THEN "check" ELSE "finish")
    /\ UNCHANGED <<inbox, controller, app, phase, outcome, handler, gdk, bounds, history>>

\* Mutated: only an error ends the schedule.
PublishNodeGoesOn ==
    /\ wpc = "ended"
    /\ Publish(NodeState)
    /\ step' = IF outcome = "error" THEN step ELSE step + 1
    /\ Waited(NodeState, IF outcome # "error" /\ step' < Steps THEN "check" ELSE "finish")
    /\ UNCHANGED <<inbox, controller, app, phase, outcome, handler, gdk, bounds, history>>

\* The final event of the node, and run's choice of what follows it.
PublishNode ==
    /\ wpc = "ended"
    /\ Publish(NodeState)
    /\ step' = IF outcome = "success" THEN step + 1 ELSE step
    /\ Waited(NodeState, IF outcome = "success" /\ step' < Steps THEN "check" ELSE "finish")
    /\ UNCHANGED <<inbox, controller, app, phase, outcome, handler, gdk, bounds, history>>

\* except Exception: the client gets ERROR ...
PublishError ==
    /\ wpc = "except"
    /\ Publish("ERROR")
    /\ outcome' = "raised" /\ wpc' = "release"
    /\ UNCHANGED <<inbox, controller, app, step, phase, handler, gdk, bounds, history>>

ReleaseController == active' = NoApp /\ cancelled' = FALSE /\ UNCHANGED pending

\* ... and finally finish_execution.
FinishFailed ==
    /\ wpc = "release"
    /\ ReleaseController
    /\ wpc' = "idle"
    /\ UNCHANGED <<inbox, app, step, phase, outcome, handler, gdk, shown, bounds, history,
                   finals>>

\* Mutated: the controller keeps the finished execution active.
FinishExecutionKeeps ==
    /\ wpc = "finish"
    /\ wpc' = "report"
    /\ UNCHANGED <<inbox, controller, app, step, phase, outcome, handler, gdk, shown, bounds,
                   history, finals>>

FinishExecution ==
    /\ wpc = "finish"
    /\ ReleaseController
    /\ wpc' = "report"
    /\ UNCHANGED <<inbox, app, step, phase, outcome, handler, gdk, shown, bounds, history,
                   finals>>

\* Mutated: a cancelled run is CANCELED, whatever the gate says.
FinalStateByOutcome ==
    CASE outcome = "success" -> "OVER"
      [] outcome = "cancelled" -> "CANCELED"
      [] outcome \notin {"success", "cancelled"} /\ gate -> "STOP_UNCONFIRMED"
      [] OTHER -> "ERROR"

\* publish_execution_finished
FinalState ==
    CASE outcome = "success" -> "OVER"
      [] outcome # "success" /\ gate -> "STOP_UNCONFIRMED"
      [] outcome = "cancelled" /\ ~gate -> "CANCELED"
      [] OTHER -> "ERROR"

PublishFinished ==
    /\ wpc = "report"
    /\ Publish(FinalState)
    /\ wpc' = "idle"
    /\ UNCHANGED <<inbox, controller, app, step, phase, outcome, handler, gdk, bounds, history>>

----------------------------------------------------------------------------
(* The robot-state thread, which uses the same worker and clears the gate. *)

\* run_point_recording_snapshot_in_worker, under the session lease.
Record ==
    /\ command = "none"
    /\ command' = "recording"
    /\ UNCHANGED <<inbox, controller, worker, handler, killed, gate, shown, bounds, history,
                   finals>>

EndRecording ==
    /\ command = "recording"
    /\ command' = "none" /\ killed' = FALSE
    /\ UNCHANGED <<inbox, controller, worker, handler, gate, shown, bounds, history, finals>>

\* run_gdk_recovery_confirmation_snapshot found the robot at rest.
ConfirmRecovery ==
    /\ gate /\ command = "none"
    /\ gate' = FALSE /\ owing' = FALSE
    /\ UNCHANGED <<inbox, controller, worker, handler, command, killed, shown, bounds,
                   preCancelled, started, succeeded, late, wasKilled, finals>>

----------------------------------------------------------------------------
Handler == Inject \/ PublishCanceling

Worker ==
    \/ Take \/ Reject \/ StartExecution \/ PublishStarted \/ Check \/ Skip \/ Begin
    \/ CheckAgain \/ RefuseCommand \/ PassChecks \/ SkipReturn \/ StartCommand
    \/ StartSnapshot \/ FailSnapshot \/ EndCommand \/ TimeOut \/ EndInterrupted
    \/ RaiseInterrupted \/ PublishNode \/ PublishError \/ FinishFailed \/ FinishExecution
    \/ PublishFinished

Next ==
    \/ \E a \in Apps : Submit(a)
    \/ \E a \in Apps \union {NoApp} : RequestCancel(a)
    \/ Handler
    \/ Worker
    \/ Record \/ EndRecording \/ ConfirmRecovery

\* The taskflow thread runs on, and is not denied the lease for ever; a command ends by
\* its deadline; the handler of a cancel finishes.  Nobody need send, record or confirm.
Fairness ==
    /\ WF_vars(Worker) /\ SF_vars(StartCommand)
    /\ WF_vars(Handler) /\ WF_vars(EndRecording)

Spec == Init /\ [][Next]_vars /\ Fairness

----------------------------------------------------------------------------
(* Properties.                                                             *)

TypeOK ==
    /\ inbox \in Seq(Apps) /\ Len(inbox) <= submitted
    /\ active \in Apps \union {NoApp} /\ cancelled \in BOOLEAN /\ pending \subseteq Apps
    /\ wpc \in WorkerPCs /\ app \in Apps \union {NoApp}
    /\ step \in 0 .. Steps /\ phase \in Phases /\ outcome \in Outcomes
    /\ hpc \in {"idle", "inject", "canceling"} /\ target \in Apps \union {NoApp}
    /\ command \in {"none", "taskflow", "recording"}
    /\ killed \in BOOLEAN /\ gate \in BOOLEAN
    /\ shown \in [Apps -> Final \union {"none", "RUNNING"}]
    /\ submitted \in 0 .. MaxRuns /\ cancels \in 0 .. MaxCancels
    /\ preCancelled \in BOOLEAN /\ wasKilled \in BOOLEAN /\ owing \in BOOLEAN
    /\ started \in 0 .. 2 * Steps /\ succeeded \in 0 .. 2 * Steps /\ late \in Seq(Phases)
    /\ finals \subseteq Final

\* After a cancellation has reached a run, no node starts a command but the one that is
\* between its last check and the worker: at most one motion starts, and of a qr_pose_skill
\* the snapshot after it; nothing starts when the cancellation was there from the start.
CancelStopsRun ==
    /\ late \in {<<>>, <<"only">>, <<"return">>, <<"snapshot">>, <<"return", "snapshot">>}
    /\ preCancelled => started = 0

\* A run is shown OVER only if each node had its commands done, none failed and none was
\* killed, and then nothing else terminal was published for it, whatever publishing raised.
OverIsEarned ==
    "OVER" \in finals =>
        finals = {"OVER"} /\ succeeded = started /\ started >= Steps /\ ~wasKilled

\* A killed command of a taskflow ends its run: no other command of it starts.
KillEndsRun ==
    [][wasKilled /\ wpc # "idle" => started' = started \/ ~wasKilled']_vars

\* By the time a run is over that closed the gate or was refused by it, the client has been
\* told STOP_UNCONFIRMED, unless the gate was opened again meanwhile or something raised:
\* then ERROR.  A control node that was refused is told so in any case.
UnconfirmedIsTold ==
    wpc = "idle" =>
        /\ owing => \/ "STOP_UNCONFIRMED" \in finals
                    \/ outcome = "raised" /\ "ERROR" \in finals
        /\ outcome = "refused" => "STOP_UNCONFIRMED" \in finals

\* Every message taken is answered, and a cancellation of the active run ends it.
RunsEnd ==
    /\ wpc = "start" ~> wpc = "idle"
    /\ \A a \in Apps : active = a /\ cancelled ~> active # a

\* What mqtt/status_reporter.py:34 promises a client that drops lower sequence
\* numbers: once an execution is shown terminal, only a new run of it is RUNNING.
FinalIsLast ==
    [][\A a \in Apps :
          shown[a] \in Final /\ shown'[a] = "RUNNING" => wpc = "announce" /\ app = a]_vars

\* What cli.py:809 and taskflow/control.py:30 say: a cancel interrupts the execution
\* it names, so the taskflow command it kills is that execution's.
CancelHitsItsRun ==
    [][~killed /\ killed' /\ command = "taskflow" => app = target]_vars
=============================================================================
