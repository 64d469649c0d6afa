--------------------------- MODULE ControlCommands ---------------------------
(***************************************************************************)
(* The skills a taskflow runs (skills/runtime.py) and the commands they    *)
(* send to the robot: ABS_JOINT and ABS_POSE (gdk/motion_runtime.py), the  *)
(* end effector (gdk/end_effector_runtime.py), the code scripts            *)
(* (code_scripts/) and the QR localisation (qr_mapping/pose_service.py).   *)
(*                                                                         *)
(* One taskflow runs at a time, in the control thread.  A node that fails  *)
(* ends its flow.  Lengths are counted in the distance an arm covers in    *)
(* one 50 Hz cycle divided by MaxStep, durations in cycles.                *)
(***************************************************************************)
EXTENDS CaptureSessions

CONSTANTS
    Arms,
    Distances,  \* translations an ABS_POSE may ask for
    Rotations,  \* rotations, in units of TASKFLOW_ABS_POSE_MAX_ROTATION_STEP_DEG
    MaxStep,    \* translation of one cycle at the requested speed
    Limit,      \* max_translation_m and max_rotation_deg
    Hold,       \* final hold steps
    Budget      \* timeout of an ABS_POSE

ASSUME ControlAssumption ==
    /\ Distances \subseteq Nat /\ Rotations \subseteq Nat
    /\ MaxStep \in Nat \ {0} /\ Hold \in Nat \ {0}
    /\ Limit \in Nat /\ Budget \in Nat

VARIABLES
    load,       \* what this executor is asked for: skills, requests, and whether
                \* ENABLE_GDK_CONTROL and CONFIRM_GDK_CONTROL confirm the control
    owed,       \* the recovery gate is closed
    ctl,        \* where the control thread is
    skill,      \* the node being run
    plan,       \* the trajectory an ABS_POSE or a servo gripper sends
    outcome,    \* result of the worker command
    used,       \* arms with the result of an ABS_POSE in the variable store
    posed,      \* history: arms an ABS_POSE of this flow has moved
    lost,       \* history: arms whose ABS_POSE result another node has overwritten
    mixed       \* history: arms an end effector node sent move_ee_pos once they were posed

evidence == <<used, posed, lost, mixed>>
control  == <<load, owed, ctl, skill, plan, outcome, evidence>>

NoPlan  == [dist |-> 0, rot |-> 0, moves |-> 0, hold |-> 0, sent |-> 0]
NoSkill == [kind |-> "none", arms |-> {}, map |-> None]
Kinds   == {"assign", "force", "joint", "pose", "gripper", "script", "locate"}

\* Where the control thread holds the lease.
InWorker == {"run", "servo", "finish", "sampling"}

ControlTypeOK ==
    /\ owed \in BOOLEAN
    /\ ctl \in {"idle", "next", "script", "gate", "lease", "locate", "return", "sample",
                 "sdk"} \union InWorker
    /\ skill \in [kind : Kinds \union {"none"}, arms : SUBSET Arms, map : Maps \union {None}]
    /\ plan \in [dist : Nat, rot : Nat, moves : Nat, hold : Nat, sent : Nat]
    /\ outcome \in {"none", "ok", "failed", "interrupted"}
    /\ used \subseteq Arms /\ posed \subseteq Arms /\ lost \subseteq Arms /\ mixed \subseteq Arms

ControlInit ==
    /\ owed = FALSE
    /\ ctl = "idle" /\ skill = NoSkill /\ plan = NoPlan /\ outcome = "none"
    /\ used = {} /\ posed = {} /\ lost = {} /\ mixed = {}

other == <<disk, thread, captures>>

----------------------------------------------------------------------------
(* Trajectories                                                            *)

CeilDiv(n, d) == (n + d - 1) \div d

Larger(m, n) == IF m > n THEN m ELSE n

\* build_abs_pose_trajectory_plan: at least one pose, the target itself.
PosePlan(d, r) ==
    [dist |-> d, rot |-> r, hold |-> Hold, sent |-> 0,
     moves |-> Larger(1, Larger(CeilDiv(d, MaxStep), r))]

\* execute_servo_gripper_control: at least two points, the first where it is.
GripperPlan == [dist |-> 0, rot |-> 0, moves |-> 2, hold |-> Hold, sent |-> 0]

\* assert_abs_pose_delta_within_limits
WithinLimits(d, r) == d <= Limit /\ r <= Limit

\* ensure_abs_pose_timeout_budget, of control_call_count cycles.
FitsBudget(p) == p.moves + p.hold <= Budget

----------------------------------------------------------------------------
(* End effectors                                                           *)

\* Types infer_end_effector_type or the parameters give; a hand has many joints.
EndTypes == {"unknown", "picker", "dahuan", "hand"}

\* build_end_effector_move_command and the checks of execute_end_effector_control
EndCommandBuilt(arms, types) ==
    /\ \A a \in arms : types[a] \notin {"unknown", "hand"}
    /\ \A a, b \in arms : types[a] = types[b]

\* Mutant: only when every arm of the command ran an ABS_POSE.
PreferServoAll(arms) == arms \subseteq used

\* should_prefer_servo_end_effector_path: some arm of the command did.
PreferServo(arms) == arms \intersect used # {}

----------------------------------------------------------------------------
(* Flows and nodes                                                         *)

Step(c) == ctl' = c

Fails == ctl' = "idle" /\ skill' = NoSkill

\* write_node_variables: the entry of a node, with the arms of its ABS_POSE, under its
\* output_var, which another node may have too: then that one's entry is gone.
WritesNode(moved) ==
    /\ \E gone \in {{}} \union {{a} : a \in Arms} : used' = (used \ gone) \union moved
    /\ lost' = lost \union (used \ used')
    /\ UNCHANGED <<posed, mixed>>

BeginFlow ==
    /\ ctl = "idle" /\ load.skills # {}
    /\ Step("next")
    /\ used' = {} /\ posed' = {} /\ lost' = {} /\ mixed' = {}
    /\ UNCHANGED <<other, owner, load, owed, skill, plan, outcome>>

EndFlow ==
    /\ ctl = "next"
    /\ Step("idle")
    /\ UNCHANGED <<other, owner, load, owed, skill, plan, outcome, evidence>>

\* SkillRuntime.run: an unknown skill, or parameters that do not resolve or parse.
NodeRefused ==
    /\ ctl = "next"
    /\ Fails
    /\ UNCHANGED <<other, owner, load, owed, plan, outcome, evidence>>

\* AssignSkill only writes variables.
AssignSkill ==
    /\ ctl = "next" /\ "assign" \in load.skills
    /\ WritesNode({})
    /\ UNCHANGED <<other, owner, load, owed, ctl, skill, plan, outcome>>

\* ForceControlSkillGdk parses its parameters and always raises.
ForceControlSkill ==
    /\ ctl = "next" /\ "force" \in load.skills
    /\ Fails
    /\ UNCHANGED <<other, owner, load, owed, plan, outcome, evidence>>

Run(kind, arms, m, c) ==
    /\ ctl = "next" /\ kind \in load.skills
    /\ skill' = [kind |-> kind, arms |-> arms, map |-> m]
    /\ Step(c)
    /\ UNCHANGED <<other, owner, load, owed, plan, outcome, evidence>>

\* validate_abs_joint_targets: any parts; the waist alone moves no arm.
JointTargets == SUBSET Arms

\* validate_abs_pose_targets: exactly one arm.
PoseTargets == {{a} : a \in Arms}

\* parse_end_effector_params: left_tool, right_tool or dual_tool.
EndTargets == SUBSET Arms \ {{}}

\* MotionPlanSkillGdk
MotionPlanSkill ==
    \/ \E arms \in JointTargets : Run("joint", arms, None, "gate")
    \/ \E arms \in PoseTargets : Run("pose", arms, None, "gate")

\* EndEffectorSkillGdk
EndEffectorSkill == \E arms \in EndTargets : Run("gripper", arms, None, "gate")

\* ScriptSkillGdk; the arms a script that controls the robot will move.
ScriptSkill == \E arms \in EndTargets : Run("script", arms, None, "script")

\* run_code_script: unknown or not loadable, run here to its end, or for the worker.
RunCodeScript ==
    /\ ctl = "script"
    /\ \/ Fails /\ UNCHANGED evidence
       \/ Step("next") /\ skill' = NoSkill /\ WritesNode({})
       \/ Step("gate") /\ UNCHANGED <<skill, evidence>>
    /\ UNCHANGED <<other, owner, load, owed, plan, outcome>>

\* QrPoseSkillGdk
QrPoseSkill ==
    \E a \in Arms, m \in Maps \union {None} : Run("locate", {a}, m, "locate")

----------------------------------------------------------------------------
(* The way of a command to the worker and back                             *)

\* Safety gate, then recovery gate; then the lease is awaited.
Gate(kinds) ==
    /\ ctl = "gate" /\ skill.kind \in kinds
    /\ IF load.confirmed /\ ~owed THEN Step("lease") /\ UNCHANGED skill ELSE Fails
    /\ UNCHANGED <<other, owner, load, owed, plan, outcome, evidence>>

MotionGate      == Gate({"joint", "pose", "locate"})
EndEffectorGate == Gate({"gripper"})
ScriptGate      == Gate({"script"})

Acquire ==
    /\ ctl = "lease" /\ owner = "none"
    /\ owner' = "control"
    /\ Step("run")
    /\ UNCHANGED <<other, load, owed, skill, plan, outcome, evidence>>

\* The result of a command; an exception in the worker is one that failed.
Done(o) == outcome' = o /\ Step("finish")

\* ensure_gdk_ready, the robot's state and its control mode: refused before a call.
NotReady ==
    /\ ctl = "run"
    /\ Done("failed")
    /\ UNCHANGED <<other, owner, load, owed, skill, plan, evidence>>

\* execute_abs_joint_targets: waist and arms in the order of the targets.
\* QR localisation returns to the initial photo pose by the same call.
RunAbsJoint ==
    /\ ctl = "run" /\ skill.kind \in {"joint", "locate"}
    /\ \E o \in {"ok", "failed"} : Done(o)
    /\ UNCHANGED <<other, owner, load, owed, skill, plan, evidence>>

\* execute_abs_pose_target, up to the first point.
PlanAbsPose ==
    /\ ctl = "run" /\ skill.kind = "pose"
    /\ \E d \in Distances, r \in Rotations :
          IF WithinLimits(d, r) /\ FitsBudget(PosePlan(d, r))
          THEN plan' = PosePlan(d, r) /\ Step("servo") /\ UNCHANGED outcome
          ELSE Done("failed") /\ UNCHANGED plan
    /\ UNCHANGED <<other, owner, load, owed, skill, evidence>>

\* execute_end_effector_control
RunEndEffector ==
    /\ ctl = "run" /\ skill.kind = "gripper"
    /\ \E types \in [Arms -> EndTypes] :
          IF ~EndCommandBuilt(skill.arms, types)
          THEN Done("failed") /\ UNCHANGED <<plan, mixed>>
          ELSE IF PreferServo(skill.arms)
          THEN plan' = GripperPlan /\ Step("servo") /\ UNCHANGED <<outcome, mixed>>
          ELSE /\ mixed' = mixed \union (skill.arms \intersect posed)
               /\ UNCHANGED plan /\ \E o \in {"ok", "failed"} : Done(o)
    /\ UNCHANGED <<other, owner, load, owed, skill, used, posed, lost>>

\* move_end_effector.py, through run_script_safely: always move_ee_pos.
RunScript ==
    /\ ctl = "run" /\ skill.kind = "script"
    /\ \E types \in [Arms -> EndTypes] :
          \/ Done("failed")
          \/ EndCommandBuilt(skill.arms, types) /\ Done("ok")
    /\ UNCHANGED <<other, owner, load, owed, skill, plan, evidence>>

\* One end_effector_pose_control; an error code ends the trajectory where it is.
ServoStep(kind) ==
    /\ ctl = "servo" /\ skill.kind = kind /\ plan.sent < plan.moves + plan.hold
    /\ plan' = [plan EXCEPT !.sent = @ + 1]
    /\ posed' = IF kind = "pose" THEN posed \union skill.arms ELSE posed
    /\ \/ UNCHANGED <<ctl, outcome>>
       \/ Done("failed")
    /\ UNCHANGED <<other, owner, load, owed, skill, used, lost, mixed>>

PoseStep    == ServoStep("pose")
GripperStep == ServoStep("gripper")

ServoDone ==
    /\ ctl = "servo" /\ plan.sent = plan.moves + plan.hold
    /\ Done("ok")
    /\ UNCHANGED <<other, owner, load, owed, skill, plan, evidence>>

\* A timeout or a cancel: the worker is killed and the command reported so.
Interrupted ==
    /\ ctl \in {"run", "servo"}
    /\ Done("interrupted")
    /\ UNCHANGED <<other, owner, load, owed, skill, plan, evidence>>

\* maybe_mark_gdk_recovery_required, the lease, and the outputs of the node.
Finish ==
    /\ ctl = "finish"
    /\ owed' = (owed \/ outcome = "interrupted")
    /\ owner' = "none"
    /\ plan' = NoPlan /\ outcome' = "none"
    /\ IF outcome # "ok" THEN Fails /\ UNCHANGED evidence
       ELSE IF skill.kind = "locate" THEN Step("sample") /\ UNCHANGED <<skill, evidence>>
       ELSE /\ Step("next") /\ skill' = NoSkill
            /\ WritesNode(IF skill.kind = "pose" THEN skill.arms ELSE {})
    /\ UNCHANGED <<other, load>>

----------------------------------------------------------------------------
(* QrPoseService.locate                                                    *)

\* The status that refuses; a manifest that cannot be read has none.
RecordingDirty == Manifest.status = "recording_dirty"

\* A waypoint with the targets of its tf_tag_ee.json.
Usable(w) == tags[w] # None /\ \E t \in Targets : tags[w][t] # "none"

LocateReads ==
    /\ ctl = "locate"
    /\ \E w \in Waypoints :
          IF ~RecordingDirty /\ Resources(skill.map) # {} /\ Usable(w)
          THEN \E m \in Resources(skill.map) :
                  skill' = [skill EXCEPT !.map = m] /\ Step("return")
          ELSE Fails
    /\ UNCHANGED <<other, owner, load, owed, plan, outcome, evidence>>

\* _return_to_initial_photo_pose: not asked for, by a motion plan of its own, or
\* without the recorded joints.
ReturnToInitialPhoto ==
    /\ ctl = "return"
    /\ \/ \E c \in {"gate", "sample"} : Step(c) /\ UNCHANGED skill
       \/ Fails
    /\ UNCHANGED <<other, owner, load, owed, plan, outcome, evidence>>

\* collect_point_recording_gdk_snapshot does not wait for the lease.
LocateSamples ==
    /\ ctl = "sample"
    /\ IF owner = "none" THEN owner' = "control" /\ Step("sampling") /\ UNCHANGED skill
                         ELSE Fails /\ UNCHANGED owner
    /\ UNCHANGED <<other, load, owed, plan, outcome, evidence>>

LocateSampled ==
    /\ ctl = "sampling"
    /\ owner' = "none"
    /\ \/ Step("sdk") /\ UNCHANGED skill
       \/ Fails
    /\ UNCHANGED <<other, load, owed, plan, outcome, evidence>>

\* run_qr_localize_sdk reads the map again, which may be gone by now.
LocateAnswers ==
    /\ ctl = "sdk"
    /\ \/ maps[skill.map] = "built" /\ Step("next") /\ skill' = NoSkill /\ WritesNode({})
       \/ Fails /\ UNCHANGED evidence
    /\ UNCHANGED <<other, owner, load, owed, plan, outcome>>

----------------------------------------------------------------------------
NodeSteps   == AssignSkill \/ ForceControlSkill \/ MotionPlanSkill \/ EndEffectorSkill
                 \/ ScriptSkill \/ RunCodeScript \/ QrPoseSkill
GateSteps   == MotionGate \/ EndEffectorGate \/ ScriptGate \/ Acquire
WorkerSteps == NotReady \/ RunAbsJoint \/ PlanAbsPose \/ RunEndEffector \/ RunScript
                 \/ PoseStep \/ GripperStep \/ ServoDone \/ Interrupted \/ Finish
LocateSteps == LocateReads \/ ReturnToInitialPhoto \/ LocateSamples \/ LocateSampled
                 \/ LocateAnswers

ControlNext == BeginFlow \/ EndFlow \/ NodeRefused \/ NodeSteps \/ GateSteps \/ WorkerSteps
                 \/ LocateSteps
=============================================================================
