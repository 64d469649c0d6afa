------------------------- MODULE RobotStateRequests -------------------------
(***************************************************************************)
(* The requests of the robot state topics (mqtt/robot_state.py and         *)
(* mqtt/robot_state_models.py): how a message finds its handler, what the  *)
(* handler's parser refuses, and the reads of the robot.  Together with    *)
(* the captures, the project requests and the control thread this is the   *)
(* executor as it runs: one thread serves the requests, one runs the       *)
(* taskflows, each capture has a child and a monitor, and all of them      *)
(* share one lease of the robot and one project directory.                 *)
(***************************************************************************)
EXTENDS ProjectRequests, Sequences

CONSTANT
    Loads       \* what the clients of an executor ask for and start from

vars == <<disk, thread, owner, captures, control>>

----------------------------------------------------------------------------
(* Requests                                                                *)

PointOps  == <<"save_target", "save_initial", "delete_target", "delete_initial", "submit">>
QrOps     == <<"qr_start", "qr_stop", "build", "delete_map", "pcd", "list", "snapshot", "path">>
CameraOps == <<"camera_start", "camera_stop", "identity", "calibration", "frame">>

\* The order in which handle_robot_state_request tries the operations; each
\* has a type and a topic.  A recovery has only a type, and what matches
\* nothing asks for the current pose.
Tried  == <<"maps">> \o PointOps \o QrOps \o CameraOps
Topics == {Tried[n] : n \in DOMAIN Tried} \union {"pose"}
Types  == Topics \union {"recovery"}

\* A request: its type, if any, its topic, the field that is missing (or "bad":
\* all there, but the handler refuses a value), and what it is about.
Faults   == {"ok", "bad", "requestId", "sessionId", "robotSerial", "projectName",
             "pointName", "arm", "mapId"}
Requests == [type : Types \union {None, "other"}, topic : Topics, fields : Faults,
             target : Targets, waypoint : Waypoints, map : Maps \union {None}]
NoRequest == [type |-> None, topic |-> "pose", fields |-> "ok", target |-> None,
              waypoint |-> None, map |-> None]

ASSUME LoadsAssumption ==
    Loads \subseteq [clients : SUBSET Requests, skills : SUBSET Kinds,
                     confirmed : BOOLEAN, map : Maps \union {None}]

\* handle_robot_state_request: the first operation of that type or topic.
Handled(r) ==
    LET matches == {n \in DOMAIN Tried : Tried[n] \in {r.type, r.topic}}
    IN  IF r.type = "recovery" THEN "recovery"
        ELSE IF matches = {} THEN "pose"
        ELSE Tried[CHOOSE n \in matches : \A m \in matches : n <= m]

----------------------------------------------------------------------------
(* The parsers                                                             *)

\* Mutant: whatever type the message claims to be.
ParsesAnyType(r, k, needed) == r.fields \notin needed

\* A message of another type is refused, also when its topic led here.
Parses(r, k, needed) == r.type \in {None, k} /\ r.fields \notin needed

Project == {"requestId", "robotSerial", "projectName"}
Point   == Project \union {"pointName"}
Session == {"requestId", "sessionId"}

ParseCurrentPose(r) == Parses(r, "pose", {"requestId"})
ParseRecovery(r) == Parses(r, "recovery", {"requestId"})
ParseIdentity(r) == Parses(r, "identity", {"requestId"})
ParseCameraFrame(r) == Parses(r, "frame", {"requestId"})
ParseCalibration(r) == Parses(r, "calibration", {"requestId"})
ParseCameraStart(r) == Parses(r, "camera_start", Session)
ParseCameraStop(r) == Parses(r, "camera_stop", Session)
ParseHighPrecisionMaps(r) == Parses(r, "maps", {"requestId", "mapId"})
ParseProjectPath(r) == Parses(r, "path", Project)
ParseProjectSnapshot(r) == Parses(r, "snapshot", Project)
ParseProjectList(r) == Parses(r, "list", {"requestId", "robotSerial"})
ParseQrStart(r) == Parses(r, "qr_start", Project \union Session)
ParseQrStop(r) == Parses(r, "qr_stop", Session)
ParseBuildMap(r) == Parses(r, "build", Project) /\ r.map # None
ParseDeleteMap(r) == Parses(r, "delete_map", Project) /\ r.map # None
ParsePcdPreview(r) == Parses(r, "pcd", Project) /\ r.map # None
ParseSaveTarget(r) == Parses(r, "save_target", Point \union {"arm"})
ParseSaveInitial(r) == Parses(r, "save_initial", Point \union {"arm"})
ParseDeleteTarget(r) == Parses(r, "delete_target", Point)
ParseDeleteInitial(r) == Parses(r, "delete_initial", Point)
ParseSubmit(r) == Parses(r, "submit", Project)

----------------------------------------------------------------------------
(* The thread that serves the requests                                     *)

Receive ==
    /\ at = "idle"
    /\ req' \in load.clients
    /\ at' = "received" /\ answer' = NoAnswer
    /\ UNCHANGED <<disk, owner, others>>

\* A handler: INVALID_REQUEST on its own response topic, or its operation.
Handles(k, parsed) ==
    /\ at = "received" /\ Handled(req) = k
    /\ IF parsed THEN Goto(k) ELSE Answer(FALSE, 0)
    /\ UNCHANGED <<disk, owner, others>>

HandleCurrentPose == Handles("pose", ParseCurrentPose(req))
HandleRecovery == Handles("recovery", ParseRecovery(req))
HandleIdentity == Handles("identity", ParseIdentity(req))
HandleCameraFrame == Handles("frame", ParseCameraFrame(req))
HandleCalibration == Handles("calibration", ParseCalibration(req))
HandleCameraStart == Handles("camera_start", ParseCameraStart(req))
HandleCameraStop == Handles("camera_stop", ParseCameraStop(req))
HandleHighPrecisionMaps == Handles("maps", ParseHighPrecisionMaps(req))
HandleProjectPath == Handles("path", ParseProjectPath(req))
HandleProjectSnapshot == Handles("snapshot", ParseProjectSnapshot(req))
HandleProjectList == Handles("list", ParseProjectList(req))
HandleQrStart == Handles("qr_start", ParseQrStart(req))
HandleQrStop == Handles("qr_stop", ParseQrStop(req))
HandleBuildMap == Handles("build", ParseBuildMap(req))
HandleDeleteMap == Handles("delete_map", ParseDeleteMap(req))
HandlePcdPreview == Handles("pcd", ParsePcdPreview(req))
HandleSaveTarget == Handles("save_target", ParseSaveTarget(req))
HandleSaveInitial == Handles("save_initial", ParseSaveInitial(req))
HandleDeleteTarget == Handles("delete_target", ParseDeleteTarget(req))
HandleDeleteInitial == Handles("delete_initial", ParseDeleteInitial(req))
HandleSubmit == Handles("submit", ParseSubmit(req))

\* publish_response
Respond ==
    /\ at = "respond"
    /\ at' = "idle" /\ req' = NoRequest /\ answer' = NoAnswer
    /\ UNCHANGED <<disk, owner, others>>

----------------------------------------------------------------------------
(* The reads of the robot                                                  *)

\* Parameters first, then the lease, which is not waited for.
Reads(k) ==
    /\ at = k
    /\ IF ~Refused /\ owner = "none"
       THEN owner' = "thread" /\ Goto("reading")
       ELSE Answer(FALSE, 0) /\ UNCHANGED owner
    /\ UNCHANGED <<disk, others>>

ReadCurrentPose   == Reads("pose")
ReadIdentity      == Reads("identity")
ReadCameraFrame   == Reads("frame")
ReadCalibration   == Reads("calibration")
ReadPrecisionMaps == Reads("maps")

\* run_gdk_subprocess: a result, a timeout with the child killed, or no result.
ReadEnds ==
    /\ at = "reading"
    /\ owner' = "none"
    /\ \E ok \in BOOLEAN : Answer(ok, 0)
    /\ UNCHANGED <<disk, others>>

\* run_gdk_recovery_confirmation_snapshot: samples of the current pose, each under
\* a lease of its own (two here), then the decision.
SampleRecovery ==
    \E last \in BOOLEAN :
        /\ at = IF last THEN "recovery_again" ELSE "recovery"
        /\ IF owner = "none"
           THEN owner' = "thread" /\ Goto(IF last THEN "sampling_last" ELSE "sampling")
           ELSE Answer(FALSE, 0) /\ UNCHANGED owner
        /\ UNCHANGED <<disk, others>>

SampledRecovery ==
    /\ at \in {"sampling", "sampling_last"}
    /\ owner' = "none"
    /\ \/ Goto(IF at = "sampling" THEN "recovery_again" ELSE "decide")
       \/ Answer(FALSE, 0)
    /\ UNCHANGED <<disk, others>>

DecideRecovery ==
    /\ at = "decide"
    /\ \E stable \in BOOLEAN :
          owed' = (owed /\ ~stable) /\ Answer(~owed \/ stable, 0)
    /\ UNCHANGED <<disk, owner, captures, load, ctl, skill, plan, outcome, evidence>>

----------------------------------------------------------------------------
(* The executor                                                            *)

Init ==
    /\ load \in Loads
    /\ ProjectInit(load.map) /\ CaptureInit /\ ControlInit
    /\ at = "idle" /\ req = NoRequest /\ answer = NoAnswer

HandlePoint  == HandleSaveTarget \/ HandleSaveInitial \/ HandleDeleteTarget
                  \/ HandleDeleteInitial \/ HandleSubmit
HandleQr     == HandleQrStart \/ HandleQrStop \/ HandleBuildMap \/ HandleDeleteMap
                  \/ HandlePcdPreview \/ HandleProjectList \/ HandleProjectSnapshot
                  \/ HandleProjectPath
HandleCamera == HandleCameraStart \/ HandleCameraStop \/ HandleIdentity
                  \/ HandleCalibration \/ HandleCameraFrame
HandleOther  == HandleHighPrecisionMaps \/ HandleRecovery \/ HandleCurrentPose
Handle       == HandlePoint \/ HandleQr \/ HandleCamera \/ HandleOther

ReadSteps     == ReadCurrentPose \/ ReadIdentity \/ ReadCameraFrame \/ ReadCalibration
                   \/ ReadPrecisionMaps \/ ReadEnds
RecoverySteps == SampleRecovery \/ SampledRecovery \/ DecideRecovery

\* Everything the thread does once it has taken a request.
Serve ==
    \/ Handle \/ ProjectRequest \/ ReadSteps \/ RecoverySteps \/ Respond
    \/ (QrParent \/ CameraParent) /\ UNCHANGED control

Monitor(s) ==
    /\ IF s = "qr" THEN QrMonitor ELSE CameraMonitor
    /\ UNCHANGED control

Children == (QrChildSteps \/ CameraChildSteps) /\ UNCHANGED control

Next ==
    \/ Receive
    \/ Serve
    \/ \E s \in Sessions : Monitor(s)
    \/ Children
    \/ ControlNext

\* The thread and the monitors are scheduled; a child may hang, a client may stay away.
Fairness == WF_vars(Serve) /\ \A s \in Sessions : WF_vars(Monitor(s))

Spec == Init /\ [][Next]_vars /\ Fairness

----------------------------------------------------------------------------
(* Properties                                                              *)

\* Where the request thread uses the robot.
ThreadReads == {"calibrate", "reading", "sampling", "sampling_last", "target_sampling",
                "photo_sampling"}

\* The values of the variables of the whole executor.
TypeOK ==
    /\ ProjectTypeOK /\ CaptureTypeOK /\ ControlTypeOK
    /\ load \in Loads /\ req \in load.clients \union {NoRequest}

\* Who works with the robot: a capture child for as long as it lives, the request thread
\* during a read or a sample, the control thread during a command.
Working ==
    {s \in Sessions : Alive(s)}
      \union {s \in {"thread"} : at \in ThreadReads}
      \union {s \in {"control"} : ctl \in InWorker}

Gdk == INSTANCE GdkSession WITH
    Services <- Owners \ {"none"}, Nobody <- "none", lease <- owner, working <- Working

\* The captures, the reads, the recordings and the control thread share the robot as
\* GdkSession asks: one user at a time, who holds the lease for all of the work, also
\* when a child crashes, hangs or is killed, and no lease goes from one to the next.
SessionSpec == Gdk!Spec

\* manifest.json is written by the request thread and by the capture child without a
\* lock between the processes; a write is never begun inside one of the other.
OneManifestWriter == \E w \in Writers : writing[w] = None

\* A message changes only what its type asks for, whatever topic it came on; only an
\* explicit confirmation opens the recovery gate (handle_gdk_recovery_confirm_request).
ChangesOnlyAsked ==
    [][ /\ owed /\ ~owed' => req.type = "recovery"
        /\ ~(targets' \subseteq targets) => req.type \in {None, "save_target"}
        /\ ~(targets \subseteq targets') => req.type \in {None, "delete_target"}
        /\ scan' # scan => req.type \in {None, "save_initial", "delete_initial"}
        /\ ~(Built' \subseteq Built) => req.type \in {None, "build"}
        /\ ~(Built \subseteq Built') => req.type \in {None, "delete_map"} ]_vars

\* The answer to a capture stop names the images that are in images/, also when the
\* child crashed, was killed or counted fewer than it wrote.
StopTellsImages ==
    at = "respond" /\ Handled(req) = "qr_stop" /\ answer.ok => answer.images = images

\* A waypoint names an outdated target only while that target is being saved or
\* deleted, and a recording is declared complete only when every waypoint has been
\* localised against exactly the targets there are.
RecordingConsistent ==
    /\ (\E w \in Waypoints : tags[w] # None /\ \E t \in Targets : tags[w][t] = "stale")
          => at \in {"untag_saved", "untag_deleted"}
    /\ writing["thread"] # None /\ writing["thread"].status = "recorded" =>
          \A w \in Waypoints :
              scan[w] # None => /\ tags[w] # None
                                /\ \A t \in Targets : (tags[w][t] = "current") <=> t \in targets

\* An end effector node sends move_ee_pos to an arm that an ABS_POSE of the flow has
\* moved only when another node with the same output_var has overwritten the result of
\* the ABS_POSE: nothing else makes should_prefer_servo_end_effector_path miss it.  And
\* no cycle of an ABS_POSE asks for more than the speed that was given, nor for a cycle
\* past the timeout of the node.
ArmCommands ==
    /\ mixed \subseteq lost
    /\ ctl = "servo" /\ skill.kind = "pose" =>
          /\ plan.dist <= plan.moves * MaxStep /\ plan.rot <= plan.moves
          /\ plan.sent <= Budget

\* Every request taken from the queue is answered, whatever a child or the SDK does.
RequestsAnswered == at # "idle" ~> at = "idle"

\* A capture that was told to stop, or whose child died, gives the lease back.
CaptureReturnsLease ==
    \A s \in Sessions :
        (stopping[s] \/ (session[s] = "active" /\ ~Alive(s))) ~> owner # s

\* "标记 dirty，要求用户提交录制后再允许应用二维码定位消费": a recording that was changed
\* is dirty until it is submitted (point_recording_service.py:238).
DirtyUntilSubmitted == unsubmitted /\ Legible => manifest.status = "recording_dirty"
=============================================================================
