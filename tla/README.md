# TLA+ specifications of gsa_taskflow_executor

The executor receives taskflow definitions (YAML) over MQTT, runs their nodes on a robot
through a vendor library (GDK), and publishes what happened. These modules specify the
parts of it in which threads, processes and failures meet: the worker process, the
recovery gate, the message queue, the run of a taskflow under cancellation, the scheduler,
and the executor as a whole, where requests, captures with their child processes, the
files of a project and the skills of a taskflow share one lease of the robot. TLC checks
them on small instances; TLAPS proves the safety properties, and the bounds behind the
liveness properties, for every value of the constants.

Paths below are relative to `src/src/gsa_taskflow_executor/` unless they begin with `src/`.

## Inventory

Threads of the executor process:

* the **main thread** (`cli.py`): wiring, network loop, shutdown;
* the **paho thread**: one MQTT callback at a time (`mqtt/gateway.py`), which enqueues
  taskflow and robot-state messages and handles cancels itself;
* the **taskflow thread** and the **robot-state thread**: each the worker of one
  `MqttMessageWorkerQueue` (`mqtt/message_queue.py`);
* a **monitor thread** for each capture that runs, one of QR images
  (`qr_mapping/capture_service.py`) and one of camera frames (`gdk/camera_capture.py`): it
  waits for the capture's child process and gives the lease of the robot back.

Besides, one persistent **GDK worker process** (`gdk/worker_runtime.py` spawns it,
`gdk/worker_commands.py` is its code) runs the blocking GDK calls; each capture has a
**child process** with a GDK session of its own, which writes image files and the
manifest of the project; and each read of the robot has a **single-use process**
(`gdk/subprocess_runtime.py`).

| component | state | operations | hard part |
|---|---|---|---|
| worker manager, `gdk/worker_runtime.py` | process and two queues, active command, pending and cancelled results | `run_command`, `cancel_active_command`, `shutdown` | a cancel or a timeout between any two steps of a wait, crash of the child, late results |
| recovery gate, `gdk/recovery.py` | requirement in memory and in a file | mark, refuse, confirm, clear, load | samples race new operations, crash in a write |
| session lease, `gdk/session.py` | `_operation_lock` and its purpose | acquire (blocking or not), release, shutdown | released on every path |
| message queue, `mqtt/message_queue.py` | bounded queue, `_stopping`, counters, active item | enqueue, stop, worker loop | stop against a full queue, failing event log |
| execution controller, `taskflow/control.py` | active execution, its cancellation, pending cancellations | start, finish, request_cancel | a cancel is decided under the lock and delivered after it |
| taskflow thread, `cli.py` | the run | parse, validate, schedule, publish | every run must end with a truthful status |
| status reporter, `mqtt/status_reporter.py` | `status_seq` | node and execution statuses | two threads publish for one execution |
| scheduler, `taskflow/scheduler.py` | current node, visited, step index | run nodes, timers, loops | cancellation, contracts, step budget |
| validation, `taskflow/parser.py` | none | accept or reject a graph | what it accepts must be runnable |
| gateway, `mqtt/gateway.py` | client, connected | connect, publish, route | publishing may raise |
| robot-state requests, `mqtt/robot_state*.py` | none of its own | about twenty request kinds: dispatch by type or topic, parse, handle, answer | type and topic may disagree; every request must be answered |
| captures, `qr_mapping/capture_service.py`, `gdk/camera_capture.py` | one session each: child, stop event, ready and summary queues, lease | start, stop, child, monitor | a child may hang, crash or be killed anywhere |
| builds and store, `qr_mapping/build_service.py`, `project_store.py` | `manifest.json`, images, calibration, maps | build, delete, list, snapshot, preview | a manifest that two processes rewrite, and that reads as empty while it is truncated |
| point recording, `qr_mapping/point_recording_service.py` | target points, waypoints, their tags, `pointRecording` in the manifest | save, delete, submit | one file at a time, SDK calls that may fail halfway |
| localisation, `qr_mapping/pose_service.py` | none | read the project, return to the photo pose, sample, locate | reads files that the request thread changes |
| skill runtimes, `skills/`, `gdk/*_runtime.py`, `code_scripts/` | none | gates, lease, command, mark | the order of the gates; the end effector after an ABS_POSE |
| robot reads, `gdk/current_pose.py`, `map_probe.py`, `robot_identity.py`, `camera_*.py` | none | one read under the lease, refused when it is taken | a read that hangs or crashes |
| variables, `taskflow/variables.py` | values by path | set, resolve | pure |

Interactions: paho → queue → taskflow thread → scheduler → skill runtime → lease → worker;
paho → controller → worker (`cancel_active_command`); robot-state thread → lease → robot or
worker; both threads → reporter → gateway. The gate stands between a skill runtime and the
lease, is closed by the result of a command, and is opened only by the confirmation on the
robot-state thread. The request thread, a capture child and the control thread meet in the
lease and in the files of the project; a capture keeps the lease from its start until its
monitor has seen the child end.

What makes each correct is the list of properties below. `PROJECT.json` lists every
component with its status, and under `hazards` the lines of code that are hard to test.

## Modules

| module | of | kind |
|---|---|---|
| `CommandService` | what `run_command` promises | abstract specification |
| `GdkWorker` | worker manager and child loop | specification, refines `CommandService` |
| `GdkWorkerProofs` | | theorems, refinement included |
| `GdkSession` | what the lease of the robot promises | abstract specification |
| `RecoveryGate` | gate, lease, confirmation, robot, crash and restart | specification, refines `GdkSession` |
| `RecoveryGateProofs` | | theorems, refinement included |
| `FifoService` | what the queue promises | abstract specification |
| `MessageQueue` | `MqttMessageWorkerQueue` | specification, refines `FifoService` |
| `MessageQueueProofs` | | theorems, refinement included |
| `TaskflowExecution` | `process_taskflow_message`, cancels, controller, statuses | specification that composes the promises of the others |
| `TaskflowExecutionProofs` | | theorems about `TaskflowExecution` |
| `TaskflowScheduler` | validation and scheduler | specification over all accepted definitions |
| `TaskflowSchedulerProofs` | | theorems about `TaskflowScheduler` |
| `QrProject` | the files of a project | state and steps, used by the next four |
| `CaptureSessions` | the two capture services with child and monitor | extends `QrProject` |
| `ControlCommands` | skills, motion, end effector, scripts, localisation | extends `CaptureSessions` |
| `ProjectRequests` | point recording, builds, store | extends `ControlCommands` |
| `RobotStateRequests` | messages, parsers, handlers, reads; the executor as it runs | composes the four, with `Next` and `Spec`; refines `GdkSession` |
| `MCRobotStateRequests` | executors with their clients | instance of `RobotStateRequests` |
| `RobotStateRequestsProofs` | | theorems about the lease and the manifest |
| `RobotStateTypesProofs` | | the types of the composition |
| `RobotStateEffectsProofs` | | theorems about recordings, answers, changes, commands and the lease as a service |

Definitions whose comment begins with "Mutant" or "Mutated" are not part of a
specification. Each is a plausible slip in one action, and shows that a property notices it.

### CommandService and GdkWorker

`CommandService` says what a caller relies on: commands are served one at a time, in the
order in which they took the lock; each is handed to a process at most once; "ok" is
told only of a command that was carried out to its end; and when a call has returned, no
process works on its command. It knows no locks, queues or processes, only how far each
command is (`fate`) and which of them a process still has (`active`).

A command is numbered by the order in which its caller takes `_command_lock`, a worker
process by the command that spawned it. A thread's `pc` walks through `run_command` or
`shutdown`; each place where `_lock` is free is a step of its own, so a cancel can come
between any two. `CancelKills` and `CancelInjects` are the two halves of
`cancel_active_command`, during which `_lock` is held (`cancelling # 0`) but
`result_queue.get`, `is_alive` and the deadline are not blocked by it. `Closed(t)` says that
the queue and the process thread t captured were closed by a reset: `get` and `is_alive`
then raise `ValueError`, which nobody in `run_command` catches. The child takes, answers,
crashes or lingers after a shutdown.

`GdkWorker` implements the service (`ServiceSpec`). `Fate` maps its state: the result, once
the call has one; "finished" when the answer of the child lies in a queue or has been got
from it (`Answered`); "called" while the caller is about to put the command. `active` are
the commands which a live process has queued or runs.

Checked: at most one worker runs and it is the one the manager knows (`SingleWorker`); a
command runs nowhere once its call has returned, and is told of as it went (`ServiceSpec`);
between commands queues are empty and the worker idle (`IdleBetweenCommands`); a cancel finds only commands whose call is in flight
(`CancelHitsLiveCommand`); an interrupted command is never a success
(`InterruptedNeverSucceeds`); shutdown leaves no worker behind (`ShutdownLeavesNoWorker`,
for calls that do not start another one later); every call returns (`EveryCommandReturns`).

Left out: malformed envelopes, a process that survives `kill`, a partial write to a pipe
when the child is killed, replacement of the global manager. `_reset_locked` says in its
docstring that it clears the cancelled results as well; it does not, and the model follows
the code.

### GdkSession

What `gdk/session.py` asks of the services that share the robot: whoever works with it holds
the one lease from before the work begins until after it has ended, and the lease goes from
a holder to nobody before the next one takes it. Work may go on in another process (a capture
child, a single-use process, the worker), so that it ends before the lease does is up to the
holder, which must have seen the process end or have killed it. `RecoveryGate` (operations
and confirmations, with crashes of the executor) and `RobotStateRequests` (five holders, with
child processes that crash or hang) both implement it. Lazy `gdk_init` and the release of the
library at shutdown are not part of it.

### RecoveryGate

One control thread passes the gate (`PassGate`), waits for the lease, runs, and ends
interrupted or otherwise; an interruption is marked in memory, then on disk (truncate,
then write; either may raise). The confirming thread takes `SampleCount` samples, each
under the lease, sleeps in between, reads the requirement and clears it in memory, then
on disk. The robot moves only if an operation set it moving, and may go on after the
operation. The process may stop anywhere; a restart reads the file, and a torn file closes
the gate too. `owed` is a history variable: an interruption not yet confirmed, and
whether it is on disk. An interruption whose process stops before the file is written is
forgotten in the model as in the code. `GateBlocks` is the environment switch that turns
the refusal off; `NoControlWhileOwed` and `ClearedAtRest` are about the default.

Not modelled: probes in other processes, thresholds as numbers (`Positions` differ by more
than `max_position_delta`), more than one control thread (there is one taskflow thread).

### FifoService and MessageQueue

`FifoService` says what a caller relies on: messages are begun in the order they were
accepted, one at a time, at most once, none after closing. `MessageQueue` has the three
threads: `enqueue` in one locked step; `stop` in steps, holding `_lock` while it waits for
room for the sentinel; the worker loop with the points at which the event log may fail.
`_stopping` is read without the lock. The program starts each queue once and stops it once.
A message accepted between the `Empty` of the last poll and the stop stays in the queue
for ever; the abstract service allows it to wait.

### TaskflowExecution

A taskflow is a chain of `Steps` worker nodes. Most send one control command; a
`qr_pose_skill` node sends up to two, the return motion to the initial photo pose and the
snapshot, with nothing between them that looks for a cancellation (`phase`). The worker is
reduced to what `GdkWorker` shows of it: one command in flight, an interrupted one never
succeeds, and the caller may get an exception instead of the cancelled result. The gate is
reduced to a flag that interrupted and timed out control commands close; the snapshot, which
moves nothing, passes no gate and closes none. `RequestCancel` is the part of `request_cancel`
under the controller's lock, `Inject` the call of `cancel_active_command` after it,
`PublishCanceling` the status; the event log may fail between the last two. `shown` is the
state a client shows that follows the highest `status_seq`. `late` records the commands that
start after the run was flagged, `owing` that the gate has closed on this run, or refused it,
and has not been opened since.

What a node tells of an interruption depends on the node. A control node that was killed is
CANCELED, one that timed out ERROR, one that the gate refused STOP_UNCONFIRMED; that the stop
is unconfirmed is told at the end of the run, which looks at the gate. Of a return motion
that was killed or refused the node is just an error, because `build_gdk_error_detail` and
`error_detail_to_outcome` do not look into `gdk_result.initialPhotoReturn`; again the end
of the run makes up for it.

Checked: after a cancellation only the node that is past its last check still starts
something, one command, or the return motion and the snapshot, and nothing starts if the
cancellation was there first (`CancelStopsRun`); OVER means that all commands ran and
succeeded, none was killed and no other end was told (`OverIsEarned`); a killed command ends
its run (`KillEndsRun`); a run that closed the gate or was refused by it has told
STOP_UNCONFIRMED by its end, or ERROR when something raised, unless the gate was opened
again meanwhile (`UnconfirmedIsTold`); each message taken is answered and each cancellation
of the active run ends it (`RunsEnd`).

Left out: nodes that send no command (assign, timer, end, loop), which are the subject of
`TaskflowScheduler`.

### TaskflowScheduler

`Init` picks any definition that `validate_definition` accepts: kinds, one success
transition per node at most, loops over a chain of children. The program counter follows
`run`, `execute_node_once`, `execute_regular_node`, `execute_timer_node`,
`execute_loop_node` and `execute_loop_iteration`; another thread may flag a cancellation
at any step. Assign nodes run as worker nodes do, except that they cannot be loop
children. One number of iterations serves all loops. What `run_command` raises goes through
the node runner (`RunnerRaises`), and so does what the node event handler raises, before or
after the event is out (`AnnounceRaises`, `ReportRaises`): the schedule ends there, and what
the client hears then is `TaskflowExecution`'s subject. `written` is what was last written for
a node; nodes with the same `output_var` share one entry of the variable store, which then
holds what the last of them wrote.

Checked: the default budget never ends a schedule (`BudgetSuffices`); nodes run in the
order of the graph, loops unrolled (`RunsAsWritten`); at the end each node was last reported
with what was last written for it, and only an exception leaves nodes reported as running,
the one at work and the loop around it (`ReportsSettled`); a cancellation is noticed
before a second node begins and ends the schedule as cancelled, unless that node was the end
or something raised (`CancelledSoon`); every schedule ends (`Terminates`). `Met` is the set of nodes the search of the validation
reaches; it is written as the least closed set, so that it can be proved about.

### QrProject

What the executor keeps of a project on disk: `manifest.json` (status, active map, the
recorded points), the images, the calibration files, the maps, the target points, and for
each waypoint the map it was taken with (`scan`) and its tags. A write of the manifest is
two steps, truncate and fill (`writing`), since `write_text` truncates; whoever reads in
between reads an empty object, and a writer that is killed leaves the file torn for good.
A tag is "stale" once its target has been recorded again. `unsubmitted` is a history
variable. There is one project.

### CaptureSessions

A session of `QrCaptureService` or `CameraCaptureService`: `session` is `_active` and how
far the start or the monitor is, `child` the child process by the step it is at, `ready`
and `summary` its queues, `stopping` its stop event, `repeats` and `saved` the counters of
its loop. The request thread starts (`QrStart`, `QrCalibrate`, `QrSpawn`, `QrStarted`,
`QrNotStarted`) and stops (`QrStop`, `QrJoin`, `QrStopAnswer`) a session; the child reports,
captures, sees timestamps again, reopens the camera, crashes or hangs at any step; a join
that times out terminates it, which may cut a write in two. The monitor gives the lease back
when the child is gone.

Left out: an exception of `process.start()`, errors of the file system in the child other
than a crash, and the shutdown of a capture with the executor.

### ControlCommands

One flow of skills at a time, in the control thread: assign and force control (which the code
always rejects), ABS_JOINT, ABS_POSE with limits, trajectory, timeout budget and one step
per cycle, the end effector with its choice between `move_ee_pos` and the servo interface,
code scripts, and the localisation of `QrPoseService.locate`. A skill passes the gate, waits
for the lease, runs, and an interruption closes the gate.

Whether an end effector node may call `move_ee_pos` is decided by the variable store: not if
it holds the result of an ABS_POSE of the arm. `used` are the arms with such a result. A node
writes its result under its `output_var` when it ends (`WritesNode`), and since nothing makes
that name its own (`taskflow/parser.py:318`), the result of another node may be gone then.
`posed` are the arms that an ABS_POSE of this flow has moved, `lost` those whose result
another node has overwritten, and `mixed` those that an end effector node sent `move_ee_pos`
all the same. `skills/runtime.py:360` means to exclude that altogether ("只要同一 workflow
上游同臂执行过 ABS_POSE"); `ArmCommands` says that it happens in no other way.
Distances and rotations are multiples of the step per cycle; the geometry is left out.

### ProjectRequests

One action for every point where a file changes or an SDK call ends, in the order of the
code: `save_target_point` writes the points, removes the tags of that target from the
waypoints one at a time (`todo`), then marks the manifest; `submit_recording` builds the tags
of each waypoint, any of which may fail, and only then writes `recorded`. An exception is an
answer that is not ok, and leaves what was done.

### RobotStateRequests

`Receive` takes a message from the queue (`MessageQueue` is its promise: one at a time, in
order), `Handled` follows the chain of tests of `handle_robot_state_request`, `Parses` the
type and the fields each parser wants, and `Handle` goes to the first step of the handler.
Reads take the lease without waiting for it. Recovery takes two samples here; how many are
needed is the subject of `RecoveryGate`. `Next` is the executor: the request thread, the
control thread, the two children, the two monitors.

Checked: captures, reads, recordings and the control thread use the robot as `GdkSession`
says, one at a time and with the lease, although a child outlives timeouts (`SessionSpec`); the manifest is never written inside another write (`OneManifestWriter`); the
answer to a stop counts the images on disk, whatever the child reported (`StopTellsImages`);
`recorded` is said only of waypoints localised against the targets there are
(`RecordingConsistent`); a message changes what its type asks for, not what its topic
suggests, and only a confirmation opens the gate (`ChangesOnlyAsked`); an arm that an
ABS_POSE of the flow moved is sent `move_ee_pos` by an end effector node only if another node
has overwritten its result, and no trajectory exceeds its speed or its timeout
(`ArmCommands`); every request is answered (`RequestsAnswered`); the
lease comes back from a capture (`CaptureReturnsLease`).

Left out: the topics of the answers and the events written around a request; the branches
for services that are not wired, since the executor wires all of them (`cli.py`); errors of
the file system, except where an SDK call writes files and fails; a crash of the executor in
the middle of a request. `code_scripts/scripts/move_end_effector.py` calls `move_ee_pos` after an
ABS_POSE too, as it does in the model: `ArmCommands` is about end effector nodes.
`RecordingConsistent` takes a localisation that the SDK reports as successful to have written
the tags of every target, and `StopTellsImages` takes every stored image to have an
extension that `count_images` counts.

## Runs and bounds

| run | bounds | states | shows |
|---|---|---|---|
| `worker` | one caller and the main thread, 3 commands | 79 617 | properties of `GdkWorker` |
| `worker_race` | 2 commands | | violation of `CancelledReported` |
| `recovery` | 3 samples, 2 positions | 6 596 | properties of `RecoveryGate` |
| `recovery_stale` | 2 samples | | violation of `ClearNeedsFreshSamples` |
| `queue` | queue of 2, 4 messages | 9 709 | properties of `MessageQueue`, refinement |
| `execution` | 2 executions, 2 nodes, 2 messages, 2 cancels | 440 974 | properties of `TaskflowExecution` |
| `status_order` | 1 cancel | | violation of `FinalIsLast` |
| `stray_cancel` | 1 cancel | | violation of `CancelHitsItsRun` |
| `scheduler` | 4 nodes, 2 iterations | 527 508 | properties of `TaskflowScheduler` |
| `scheduler_dag` | 4 nodes | | violation of `ParsedIsDag` |
| `system` | 8 executors, 1 target, 2 waypoints, 2 maps, 2 arms | 158 469 | properties of `RobotStateRequests` |
| `unsubmitted` | the same | | violation of `DirtyUntilSubmitted` |

Why these are enough for the cases of interest:

* `GdkWorker`: callers other than the one in flight hold no state, because
  `_command_lock` serialises them, so one caller stands for all; the proofs cover any
  number. Three commands let a stale result, a cancel or a leftover worker of one command
  meet its successor and the shutdown. A caller may not come after the shutdown in fewer.
* `RecoveryGate`: three samples put one before, one after and one beside an interruption.
* `MessageQueue`: four messages fill a queue of two with one in hand and one refused.
* `TaskflowExecution`: two messages make a run and its successor, of the same or of another
  execution; two nodes make a first and a following command; two cancels reach one run
  twice, or both runs, by name or not.
* `TaskflowScheduler`: four nodes give a loop of up to three children, a loop with a
  successor, two loops of one child, and cycles beside an isolated terminal. There are
  5 328 accepted definitions (up to the name of the start).
* `RobotStateRequests`: what the clients of an executor may send is a constant, `Loads`, so
  that the executors of `MCRobotStateRequests` cover together what one of them could not in
  reasonable time: mapping of a new project; recording of points on a mapped one; localising
  while points are recorded; the other skills beside recovery, with the control confirmed and
  without; every topic with a missing field and a bad one, beside a streaming camera; and a
  capture of each kind beside a skill that wants the robot. Two waypoints put a failure
  between two of them; two maps let the active one go; one image is enough for a count to be
  wrong by one. `Distances` 0, 5 and 9 are nothing, a trajectory with a rest, and more than
  `Limit`; `Rotations` are below and beyond `Budget` with `Hold`. `Stale = 1` stands for
  `STALE_FRAME_REOPEN_THRESHOLD`.

Deadlock is checked in `recovery` and `system`. The other programs may come to rest: a bound is
reached, the queue has stopped, a schedule has ended.

## Fairness

* `GdkWorker`: threads inside a call run on, the clock reaches a deadline, and a cancel
  that killed the worker injects its result. The child owes nothing: it may hang.
* `RecoveryGate`: threads inside an operation run on, and the lease is not denied for ever
  to a thread that waits for it (strong fairness: samples take it in between). Nothing makes
  the robot stop or a restart happen.
* `MessageQueue`: threads inside a call run on, and a handler ends. `TaskflowScheduler`
  (`Terminates`) and `TaskflowExecution` (`RunsEnd`) are the reason to believe the latter.
* `TaskflowExecution`: the taskflow thread runs on, is not denied the lease for ever, and
  commands end (`EveryCommandReturns`); the cancel handler and a recording finish.
* `TaskflowScheduler`: the taskflow thread runs on.
* `RobotStateRequests`: the request thread and the monitors run on. A read of the robot ends,
  because its process is waited for with a timeout and killed; so do joins. A capture child
  owes nothing, it may hang for ever, and neither does the control thread.

Nobody is obliged to send a message, cancel, stop, confirm or crash.

## What is proved

From the assumptions on the constants alone (`WorkerAssumption`, `GateAssumption`,
`QueueAssumption`, `ExecutionAssumption`, `SchedulerAssumption`, and for the composition
`ProjectAssumption`, `WaypointsAssumption`, `NoneAssumption`, `StaleAssumption`,
`ControlAssumption` and `LoadsAssumption`), for all their values:

* `GdkWorkerProofs`: `WorkerInv` is inductive, and each safety invariant of the run follows
  from it. `SingleWorker` and the others are not inductive alone: they need that at most one
  thread is in flight (`OneInFlight`), that no result is stored as pending
  (`pending = {}`), that what a process holds belongs to the command in flight
  (`WorkBelongs`, `OnePlace`, `NoLeftovers`), that the outcome a thread collects says
  what became of the process (`OutcomeMeans`), and how a cancel's halves relate to it
  (`ActiveInFlight`, `CancelState`, `InterruptedState`). A by-product: in the
  code as it is, `_pending_results` is always empty. That every step is a step of
  `CommandService` or leaves its view alone (`ImplementsService`) needs besides
  (`ServiceInv`) that a called command without a result is the one in flight, and that an
  answer to it can only be in the queue on which its call waits. It follows that a returned
  call left no process working (`ReturnStopsCommand`).
* `RecoveryGateProofs`: `GateInv` is inductive: who holds the lease (`Leases`), what is owed
  (`OwedState`), that a waiting operation or a confirmation about to clear excludes the
  opposite (`Blocked`), and that a stable sample after an interruption means a robot at rest
  (`AtRest`). The action properties `NoControlWhileOwed` and `ClearedAtRest` follow step
  by step, and so does that every step is one of `GdkSession` (`ImplementsSession`).
* `MessageQueueProofs`: `QueueInv` is inductive: the queue holds the accepted messages in
  increasing order, nothing after the sentinel (`QueueOrder`), the states of the stop
  (`StopState`), and what the item in hand, the active item and the fates have to do with
  each other (`InHand`, `Fate`, `ActiveItem`). From it every step of the queue is a step of
  `FifoService` or leaves its variables alone (`ImplementsService`). `SnapshotAccounts` needs
  besides that the counters are the numbers of messages with the fates they count, but for
  the one the worker is at (`Counted`).
* `TaskflowExecutionProofs`: `ExecutionInv` is inductive. `CancelStopsRun` needs that a flag
  raised for a run stays up until `finish_execution` and keeps the run from the program
  points behind a check (`Flagged`), hence that the controller holds the run's id between
  `start_execution` and `finish_execution` (`Actors`). `OverIsEarned` and `UnconfirmedIsTold`
  need that commands are counted with the nodes (`Counted`), that a command is in flight
  exactly while the taskflow thread waits for it (`OneCommand`), what the outcome and the
  states told so far say at each point, the exception path included (`Told`), and that a run
  which owes a confirmation finds the gate closed (`Owed`).
  `KillEndsRun` follows step by step.

* `TaskflowSchedulerProofs`: `BudgetSuffices` for definitions of any size. `SchedulerInv` bounds
  the steps taken at each point: outside of a loop by what the visited nodes cost (`Spent`: one
  step each and one per iteration for each child of a visited loop), inside of one by the
  finished iterations and the stretch of the chain that has run, a set `R` that holds the
  entry and all successors but the current child (`Ran`). That `R` never comes round to
  itself, and so never outgrows the loop, is what validation checked: the nodes met from the
  entry are the whole body, one of them without a successor (`ChainGoesOn`). From there
  `ReportsSettled` follows with the nodes whose report is still open at each point, the
  raising steps included (`Settled`), and
  `CancelledSoon` with where the one overtaken node may have got to (`LateOnce`).
  `RunsInOrder` (`RunsAsWritten`) rests on `OrderInv`: the nodes visited are the first ones
  of the walk from the start, the children run in this round the first ones of the
  chain, and as many nodes have succeeded as the loops left behind, the finished rounds and
  this round make. The library's induction over numbers takes an operator as a
  parameter; where induction is needed (the walk and the chain are defined by recursion)
  the proof takes the least number that fails instead.
* `RobotStateRequestsProofs`: `LeaseInv` is inductive: a child lives only in a session that
  holds the lease (`Users`), and it writes only while the request thread waits for it
  (`Writing`): before it has reported, or after the stop event while stop joins it. Hence
  nobody uses the robot without the lease (`OneUser`), and `OneManifestWriter`.
* `RobotStateTypesProofs`: `TypeInv`, the types with what they rest on: the request served is
  one of the clients', waypoints about to lose a tag have tags, and the child counts no more
  images than it saved.
* `RobotStateEffectsProofs`: `RecordInv` says whose tags may be outdated at which step and which
  waypoints a submit has done with; `StopInv` that a stopped child is dead before its images
  are counted; `AskedInv` that the steps of an operation serve a message of its type;
  `ArmInv` that a trajectory covers its distance and fits its budget while it is sent, and
  `PosedInv` that an arm an ABS_POSE has moved is in the variable store, was overwritten there
  or is still being moved.
  `RecordingConsistent`, `StopTellsImages`, `ChangesOnlyAsked` and `ArmCommands` follow.
  `SessionSpec` (`ImplementsSession`) needs `LeaseInv` on both sides of a step, and that no
  step of anybody hands the lease over (`NoHandover`).

### Why things end

A liveness property has two halves: that the next step is possible and is taken, which is
ENABLED and fairness and stays with TLC, and that there are only so many steps, none of which
another thread can undo. The second half is a safety property: a measure in the natural
numbers which each step of the thread in question lowers and no other step raises. It
is proved for all constants; the named theorems are about the code's own bounds.

| theorem | says | for |
|---|---|---|
| `DeadlineIsFinal` | past its deadline a call of `run_command` has at most six steps left, whatever the worker, the other callers and the cancels do | `EveryCommandReturns` |
| `OperationsAreBounded` | an operation has six steps, a confirmation `4 * SampleCount + 3`, crashes included | `OperationsReturn` |
| `NoMutualWait` | the control thread and the confirmation never both wait for the other | `OperationsReturn` |
| `WaitingIsBounded` | a message that waits comes nearer with each step of the worker; later messages, exceptions and the stop do not put it off | `AcceptedIsServed` |
| `CallsEnd` | `stop` holds the lock once and for one step, room in the queue or none, and ends with the one after it; `enqueue` waits for nothing else | `CallsReturn` |
| `RunIsBounded` | a run has nine steps for each node left | `RunsEnd` |
| `CancelledRunIsShort` | a cancelled run has seventeen steps left, however many nodes | `RunsEnd` |
| `ScheduleIsBounded` | a schedule has at most `9 * MaxSteps + 5` steps, also with a cycle in the definition | `Terminates` |
| `RequestIsBounded` | a request has at most 8 steps and two for each waypoint, because a submit and the removal of tags shrink `todo`; this is where the waypoints must be finitely many | `RequestsAnswered` |
| `LeaseReturns` | between the stop or the death of a capture and the return of its lease lie the join and one step of the monitor, and no step puts either off | `CaptureReturnsLease` |

The invariants they rest on are those above, and `ReturnInv` for the last: a child that has
been told to stop lives no longer than the request thread waits to join it.

### Only model-checked

The liveness properties themselves (`EveryCommandReturns`, `OperationsReturn`,
`CallsReturn`, `AcceptedIsServed`, `RunsEnd`, `Terminates`, `RequestsAnswered`,
`CaptureReturnsLease`), since fairness and ENABLED are out of the prover's reach: that the
thread which has steps left can take the next one (what blocks it, a lock, the lease, a full
queue, comes free), and does.

## Disagreements found

1. `worker_race`: a cancel that closes the result queue just before `get` makes
   `run_command` raise instead of returning the cancelled result; the recovery gate then
   never hears of the interruption.
2. `recovery_stale`: the confirmation counts samples from before the interruption.
3. `status_order`: CANCELING (RUNNING) may carry a higher `status_seq` than the terminal
   status of the same execution.
4. `stray_cancel`: a cancel may kill the first command of the next taskflow.
5. `scheduler_dag`: a definition with a cycle reachable from the start is accepted when
   some isolated node is the one terminal; the schedule fails after each node of the cycle
   ran once.
6. `unsubmitted`: `projectStatus` is both the state of the maps and the mark of an unsubmitted
   recording. Building or deleting a map overwrites the mark, and the localisation then uses
   waypoints whose recording was never submitted.

## Not modelled, and the plan

* The variable store (`taskflow/variables.py`): resolution of paths and references, a pure walk
  over nested data. The models keep of it the status of a node and the arms with an
  ABS_POSE result, and that another node may overwrite it.
* Connecting, subscribing and reconnecting in `mqtt/gateway.py`, and the order of the shutdown
  in `cli.py`: next in the plan, with `GdkWorker`, `MessageQueue` and `CaptureSessions` each as
  one of the things that shutdown has to end.
* A crash of the executor in the middle of a request: what a restart finds on disk then.
* The reading of fields from YAML and from messages: the models take each field as present,
  missing or refused.
* The publication of answers and events, with a gateway that fails: answers are formatted data,
  and which topic they take is not followed.
* Linear algebra of `qr_mapping/pose_service.py` and `calibration` (real numbers), GDK itself and
  the robot (external), probes (command line tools that query once and print), configuration
  reading and formatting.
