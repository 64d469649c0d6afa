----------------------------- MODULE RecoveryGate -----------------------------
(***************************************************************************)
(* The recovery gate (gdk/recovery.py) between the control path            *)
(* (gdk/motion_runtime.py and its siblings, on the taskflow thread) and    *)
(* the explicit recovery confirmation (gdk/current_pose.py, on the         *)
(* robot-state thread).  Both share the GDK session lease                  *)
(* (gdk/session.py); the gate also lives in a file that a restart reads.   *)
(*                                                                         *)
(* An operation that ends in a cancellation or a timeout leaves the robot  *)
(* STOP_UNCONFIRMED: the gate closes, and control is refused until         *)
(* SampleCount read-only samples show the robot at rest.                   *)
(***************************************************************************)
EXTENDS Naturals

CONSTANTS
    SampleCount,  \* policy.sample_count
    Positions,    \* joint positions that differ by more than max_position_delta
    GateBlocks    \* GDK_RECOVERY_REQUIRED_BLOCKS_CONTROL is not "0"

ASSUME GateAssumption ==
    /\ SampleCount \in Nat \ {0}
    /\ Positions # {}
    /\ GateBlocks \in BOOLEAN

VARIABLES
    \* the executor process
    up,       \* it runs
    gate,     \* _RECOVERY_REQUIREMENT is set
    disk,     \* the state file: absent, torn (truncated, not yet written) or whole
    lease,    \* who holds the session's _operation_lock
    cpc,      \* the control thread
    spc,      \* the confirming thread
    taken,    \* samples taken by this confirmation
    stable,   \* evaluate_recovery_stability of these samples
    lastPos,  \* position in the last of them
    \* the robot
    moving,
    pos,
    \* history
    owed,     \* an interruption not confirmed: no, pending or recorded on disk
    fresh     \* samples of this confirmation taken since the gate last closed

processVars == <<up, gate, disk, lease>>
sampleVars  == <<spc, taken, stable, lastPos>>
robotVars   == <<moving, pos>>
vars == <<processVars, cpc, sampleVars, robotVars, owed, fresh>>

ControlPCs == {"idle", "waiting", "running", "interrupted", "marked", "writing", "release"}
ConfirmPCs == {"idle", "sample", "reading", "asleep", "decide", "clearing", "unlinking"}

Init ==
    /\ up = TRUE /\ gate = FALSE /\ disk = "absent" /\ lease = "free"
    /\ cpc = "idle" /\ spc = "idle"
    /\ taken = 0 /\ stable = TRUE
    /\ lastPos \in Positions /\ pos = lastPos /\ moving = FALSE
    /\ owed = "no" /\ fresh = 0

\* recovery.py's _LOCK, held over the file write of a mark and the unlink of a clear.
GateLockFree == cpc \notin {"marked", "writing"} /\ spc # "unlinking"

----------------------------------------------------------------------------
(* The control path: gate check, then the blocking lease, then the command. *)

\* recovery_refused_payload returned None; a refusal changes nothing.
PassGate ==
    /\ up /\ cpc = "idle" /\ GateLockFree
    /\ GateBlocks => ~gate
    /\ cpc' = "waiting"
    /\ UNCHANGED <<processVars, sampleVars, robotVars, owed, fresh>>

\* manager.acquire(blocking=True)
AcquireLease ==
    /\ cpc = "waiting"
    /\ lease = "free"
    /\ lease' = "control"
    /\ cpc' = "running"
    /\ UNCHANGED <<up, gate, disk, sampleVars, robotVars, owed, fresh>>

\* Mutated: the result is marked after the lease is given up.
EndInterruptedUnleased ==
    /\ cpc = "running"
    /\ cpc' = "interrupted"
    /\ lease' = "free"
    /\ owed' = "pending"
    /\ UNCHANGED <<up, gate, disk, sampleVars, robotVars, fresh>>

\* The worker's result is a cancellation or a timeout: the robot may still move.
EndInterrupted ==
    /\ cpc = "running"
    /\ cpc' = "interrupted"
    /\ owed' = "pending"
    /\ UNCHANGED <<processVars, sampleVars, robotVars, fresh>>

\* Any other result: maybe_mark_gdk_recovery_required marks nothing.
EndOtherwise ==
    /\ cpc = "running"
    /\ cpc' = "release"
    /\ UNCHANGED <<processVars, sampleVars, robotVars, owed, fresh>>

\* mark_gdk_recovery_required, in memory ...
MarkMemory ==
    /\ cpc = "interrupted"
    /\ spc # "unlinking"
    /\ gate' = TRUE
    /\ fresh' = 0
    /\ cpc' = "marked"
    /\ UNCHANGED <<up, disk, lease, sampleVars, robotVars, owed>>

\* ... and on disk, where write_text truncates the file before it writes.
Truncate ==
    /\ cpc = "marked"
    /\ disk' = "torn"
    /\ cpc' = "writing"
    /\ UNCHANGED <<up, gate, lease, sampleVars, robotVars, owed, fresh>>

WriteMark ==
    /\ cpc = "writing"
    /\ disk' = "whole"
    /\ owed' = "recorded"
    /\ cpc' = "release"
    /\ UNCHANGED <<up, gate, lease, sampleVars, robotVars, fresh>>

\* Mutated: the exception skips the release of the lease.
WriteFailsLeaks ==
    /\ cpc \in {"marked", "writing"}
    /\ cpc' = "idle"
    /\ UNCHANGED <<processVars, sampleVars, robotVars, owed, fresh>>

\* The write raises OSError, before or after it truncated the file.
WriteFails ==
    /\ cpc \in {"marked", "writing"}
    /\ cpc' = "release"
    /\ UNCHANGED <<processVars, sampleVars, robotVars, owed, fresh>>

ReleaseLease ==
    /\ cpc = "release"
    /\ lease' = "free"
    /\ cpc' = "idle"
    /\ UNCHANGED <<up, gate, disk, sampleVars, robotVars, owed, fresh>>

----------------------------------------------------------------------------
(* run_gdk_recovery_confirmation_snapshot.                                 *)

StartConfirm ==
    /\ up /\ spc = "idle"
    /\ spc' = "sample"
    /\ taken' = 0 /\ stable' = TRUE /\ fresh' = 0
    /\ UNCHANGED <<processVars, cpc, lastPos, robotVars, owed>>

\* acquire(blocking=False) ...
BeginSample ==
    /\ spc = "sample"
    /\ lease = "free"
    /\ lease' = "sampler"
    /\ spc' = "reading"
    /\ UNCHANGED <<up, gate, disk, cpc, taken, stable, lastPos, robotVars, owed, fresh>>

\* ... ROBOT_BUSY: the confirmation ends at its first unavailable sample.
SampleBusy ==
    /\ spc = "sample"
    /\ lease # "free"
    /\ spc' = "idle"
    /\ UNCHANGED <<processVars, cpc, taken, stable, lastPos, robotVars, owed, fresh>>

SampleUnavailable ==
    /\ spc = "reading"
    /\ lease' = "free"
    /\ spc' = "idle"
    /\ UNCHANGED <<up, gate, disk, cpc, taken, stable, lastPos, robotVars, owed, fresh>>

\* Mutated: one sample more than the policy asks for.
TakeSampleTooMany ==
    /\ spc = "reading"
    /\ lease' = "free"
    /\ taken' = taken + 1
    /\ stable' = (stable /\ ~moving /\ (taken > 0 => pos = lastPos))
    /\ lastPos' = pos
    /\ fresh' = fresh + 1
    /\ spc' = IF taken' <= SampleCount THEN "asleep" ELSE "decide"
    /\ UNCHANGED <<up, gate, disk, cpc, robotVars, owed>>

\* Mutated: only positions are compared, velocities are not.
TakeSamplePositions ==
    /\ spc = "reading"
    /\ lease' = "free"
    /\ taken' = taken + 1
    /\ stable' = (stable /\ (taken > 0 => pos = lastPos))
    /\ lastPos' = pos
    /\ fresh' = fresh + 1
    /\ spc' = IF taken' < SampleCount THEN "asleep" ELSE "decide"
    /\ UNCHANGED <<up, gate, disk, cpc, robotVars, owed>>

\* A sample is good when nothing moves and the position is that of the one before.
TakeSample ==
    /\ spc = "reading"
    /\ lease' = "free"
    /\ taken' = taken + 1
    /\ stable' = (stable /\ ~moving /\ (taken > 0 => pos = lastPos))
    /\ lastPos' = pos
    /\ fresh' = fresh + 1
    /\ spc' = IF taken' < SampleCount THEN "asleep" ELSE "decide"
    /\ UNCHANGED <<up, gate, disk, cpc, robotVars, owed>>

\* sleep(sample_interval_seconds)
NextSample ==
    /\ spc = "asleep"
    /\ spc' = "sample"
    /\ UNCHANGED <<processVars, cpc, taken, stable, lastPos, robotVars, owed, fresh>>

\* confirm_gdk_recovery_from_snapshots reads the requirement only now.
Decide ==
    /\ spc = "decide" /\ GateLockFree
    /\ spc' = IF gate /\ stable THEN "clearing" ELSE "idle"
    /\ UNCHANGED <<processVars, cpc, taken, stable, lastPos, robotVars, owed, fresh>>

\* clear_gdk_recovery_requirement, in memory ...
ClearMemory ==
    /\ spc = "clearing" /\ GateLockFree
    /\ gate' = FALSE
    /\ owed' = "no"
    /\ spc' = "unlinking"
    /\ UNCHANGED <<up, disk, lease, cpc, taken, stable, lastPos, robotVars, fresh>>

\* ... and on disk, unless unlink raises.
Unlink ==
    /\ spc = "unlinking"
    /\ disk' \in {"absent", disk}
    /\ spc' = "idle"
    /\ UNCHANGED <<up, gate, lease, cpc, taken, stable, lastPos, robotVars, owed, fresh>>

----------------------------------------------------------------------------
(* The robot: an operation may set it moving, and it may go on after the    *)
(* operation's process is gone.                                            *)

StartMoving ==
    /\ cpc = "running" /\ ~moving
    /\ moving' = TRUE
    /\ UNCHANGED <<processVars, cpc, sampleVars, pos, owed, fresh>>

Move ==
    /\ moving
    /\ pos' \in Positions \ {pos}
    /\ UNCHANGED <<processVars, cpc, sampleVars, moving, owed, fresh>>

StopMoving ==
    /\ moving
    /\ moving' = FALSE
    /\ UNCHANGED <<processVars, cpc, sampleVars, pos, owed, fresh>>

----------------------------------------------------------------------------
(* The executor process stops at any point and is started again.           *)

\* An interruption that did not reach the file is forgotten with the memory.
Crash ==
    /\ up
    /\ up' = FALSE
    /\ gate' = FALSE /\ lease' = "free" /\ cpc' = "idle" /\ spc' = "idle"
    /\ owed' = IF owed = "recorded" THEN owed ELSE "no"
    /\ UNCHANGED <<disk, taken, stable, lastPos, robotVars, fresh>>

\* Mutated: the state file is not loaded at startup.
RestartForgets ==
    /\ ~up
    /\ up' = TRUE
    /\ gate' = FALSE
    /\ fresh' = 0
    /\ UNCHANGED <<disk, lease, cpc, sampleVars, robotVars, owed>>

\* configure_gdk_recovery_store: a file that cannot be read closes the gate too.
Restart ==
    /\ ~up
    /\ up' = TRUE
    /\ gate' = (disk # "absent")
    /\ fresh' = 0
    /\ UNCHANGED <<disk, lease, cpc, sampleVars, robotVars, owed>>

----------------------------------------------------------------------------
Control ==
    \/ AcquireLease \/ EndInterrupted \/ EndOtherwise \/ MarkMemory
    \/ Truncate \/ WriteMark \/ WriteFails \/ ReleaseLease

Confirm ==
    \/ BeginSample \/ SampleBusy \/ SampleUnavailable \/ TakeSample
    \/ NextSample \/ Decide \/ ClearMemory \/ Unlink

Robot == StartMoving \/ Move \/ StopMoving

Next == PassGate \/ Control \/ StartConfirm \/ Confirm \/ Robot \/ Crash \/ Restart

\* Threads inside an operation run on, every worker command ends (its deadline
\* sees to that), and the lease is not denied for ever to a thread that waits.
Fairness == WF_vars(Control) /\ SF_vars(AcquireLease) /\ WF_vars(Confirm)

Spec == Init /\ [][Next]_vars /\ Fairness

----------------------------------------------------------------------------
(* Properties.                                                             *)

TypeOK ==
    /\ up \in BOOLEAN /\ gate \in BOOLEAN /\ stable \in BOOLEAN /\ moving \in BOOLEAN
    /\ disk \in {"absent", "torn", "whole"}
    /\ lease \in {"free", "control", "sampler"}
    /\ cpc \in ControlPCs /\ spc \in ConfirmPCs
    /\ taken \in 0 .. SampleCount /\ fresh \in 0 .. SampleCount
    /\ lastPos \in Positions /\ pos \in Positions
    /\ owed \in {"no", "pending", "recorded"}

\* While the executor runs, an unconfirmed interruption keeps the gate closed,
\* from before its operation gives up the lease, over failed writes, failed
\* confirmations and, once it is on disk, over crashes and restarts.
GateCoversInterruption ==
    up /\ (owed = "recorded" \/ (owed = "pending" /\ lease # "control")) => gate

\* No control operation starts between an interruption and its confirmation,
\* although the gate is checked before the wait for the lease.
NoControlWhileOwed ==
    [][GateBlocks /\ lease # "control" /\ lease' = "control" => owed = "no"]_vars

\* When a confirmation clears the gate on samples of which at least one was
\* taken since it closed, the robot is at rest at that moment.
ClearedAtRest ==
    [][GateBlocks /\ spc = "clearing" /\ spc' = "unlinking" /\ fresh > 0 => ~moving]_vars

\* An operation waits for the lease, runs and gives it back, and a confirmation
\* ends, unless the process is stopped.
OperationsReturn ==
    /\ cpc = "waiting" ~> cpc = "idle"
    /\ spc = "sample" ~> spc = "idle"

\* What gdk/current_pose.py:141 and gdk/recovery.py:81-82 promise: the gate is
\* cleared by a full set of samples taken after the interruption.
ClearNeedsFreshSamples ==
    [][spc = "clearing" /\ spc' = "unlinking" => fresh = SampleCount]_vars
=============================================================================
