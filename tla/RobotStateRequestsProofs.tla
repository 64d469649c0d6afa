---------------------- MODULE RobotStateRequestsProofs ----------------------
(***************************************************************************)
(* Proofs about the lease and the manifest in RobotStateRequests, for any  *)
(* project, any requests, any skills and any bound.                        *)
(***************************************************************************)
EXTENDS RobotStateRequests, TLAPS

Starting == {"starting", "manifest", "opening"}
Holding  == {"starting", "active"}

\* The functions the steps update, with their domains.
Shapes ==
    /\ session \in [Sessions -> {"none", "starting", "active", "released"}]
    /\ child \in [Sessions -> {"none", "starting", "manifest", "opening", "capturing",
                               "closing", "closed", "failing", "gone"}]
    /\ stopping \in [Sessions -> BOOLEAN]
    /\ ready \in [Sessions -> {"none", "started", "failed"}]
    /\ DOMAIN writing = Writers
    /\ writing = [w \in Writers |-> writing[w]]

\* A child lives only in a session that holds the lease.
Users ==
    /\ \A s \in Sessions : Alive(s) => session[s] \in Holding
    /\ \A s \in Sessions : session[s] \in Holding => owner = s
    /\ at = "ready" => session["qr"] = "starting"
    /\ at \in ThreadReads => owner = "thread"
    /\ ctl \in InWorker => owner = "control"

\* The capture child writes while the request thread waits for it: to be ready, or to stop.
Writing ==
    /\ writing["thread"] # None => at \in {"written", "recording_written"}
    /\ writing["child"] # None => child["qr"] \in {"manifest", "closing"}
    /\ child["qr"] \in Starting => at = "ready" /\ ready["qr"] # "started"
    /\ child["qr"] = "closing" => stopping["qr"]
    /\ stopping["qr"] /\ Alive("qr") => at = "join_qr"

LeaseInv == Shapes /\ Users /\ Writing

----------------------------------------------------------------------------
USE DEF disk, points, thread, captures, control, evidence, others, other, Sessions, Writers,
    ThreadReads, InWorker, Starting, Holding

LEMMA LeaseInit == Init => LeaseInv
  BY DEF Init, ProjectInit, CaptureInit, ControlInit, LeaseInv, Shapes, Users, Writing, Alive

LEMMA StopSteps ==
    /\ JoinOf["qr"] = "join_qr" /\ JoinOf["camera"] = "join_camera"
    /\ CompleteOf["qr"] = "complete_qr" /\ CompleteOf["camera"] = "complete_camera"
  BY DEF JoinOf, CompleteOf

LEMMA QrParentStep ==
    ASSUME LeaseInv, QrParent, UNCHANGED control
    PROVE  LeaseInv'
<1> USE DEF LeaseInv, Shapes, Users, Writing, Alive, Goto, Answer
<1>1. CASE QrStart
  BY <1>1 DEF QrStart
<1>2. CASE QrCalibrate
  BY <1>2 DEF QrCalibrate
<1>3. CASE QrSpawn
  <2>1. CASE owner = "none"
    <3> USE <1>3, <2>1 DEF QrSpawn, Open, Child
    <3>1. Shapes'
      <4>1. stopping' \in [Sessions -> BOOLEAN]
        <5>1. stopping' = [stopping EXCEPT !["qr"] = FALSE]
          OBVIOUS
        <5>. QED BY <5>1, Zenon
      <4>2. ready' \in [Sessions -> {"none", "started", "failed"}]
        OBVIOUS
      <4>3. child' \in [Sessions -> {"none", "starting", "manifest", "opening", "capturing",
                                     "closing", "closed", "failing", "gone"}]
        OBVIOUS
      <4>4. session' \in [Sessions -> {"none", "starting", "active", "released"}]
        OBVIOUS
      <4>5. DOMAIN writing' = Writers /\ writing' = [w \in Writers |-> writing'[w]]
        OBVIOUS
      <4>. QED BY <4>1, <4>2, <4>3, <4>4, <4>5
    <3>2. Users'
      OBVIOUS
    <3>3. Writing'
      OBVIOUS
    <3>. QED BY <3>1, <3>2, <3>3
  <2>2. CASE owner # "none"
    BY <1>3, <2>2 DEF QrSpawn
  <2>. QED BY <2>1, <2>2
<1>4. CASE QrStarted
  BY <1>4 DEF QrStarted
<1>5. CASE QrNotStarted
  BY <1>5 DEF QrNotStarted, Child, DropWrite
<1>6. CASE QrStop
  <2> USE <1>6, StopSteps DEF QrStop, Stops
  <2>1. CASE session["qr"] \in {"active", "released"} /\ req.fields # "bad"
    <3>1. at' = "join_qr" /\ stopping' = [stopping EXCEPT !["qr"] = TRUE]
      BY <2>1, Zenon
    <3>2. stopping' \in [Sessions -> BOOLEAN] /\ stopping'["qr"]
      BY <3>1, Zenon
    <3>. QED BY <3>1, <3>2
  <2>2. CASE ~(session["qr"] \in {"active", "released"} /\ req.fields # "bad")
    BY <2>2
  <2>. QED BY <2>1, <2>2
<1>7. CASE QrJoin
  BY <1>7, StopSteps DEF QrJoin, Joins, Killed, Child, DropWrite
<1>8. CASE QrStopAnswer
  BY <1>8, StopSteps DEF QrStopAnswer, StopAnswers
<1>. QED BY <1>1, <1>2, <1>3, <1>4, <1>5, <1>6, <1>7, <1>8 DEF QrParent

LEMMA CameraParentStep ==
    ASSUME LeaseInv, CameraParent, UNCHANGED control
    PROVE  LeaseInv'
<1> USE DEF LeaseInv, Shapes, Users, Writing, Alive, Goto, Answer
<1>1. CASE CameraStart
  <2> USE <1>1 DEF CameraStart
  <2>1. CASE owner = "none" /\ at' = "respond" /\ Open("camera", "active")
    <3> USE <2>1 DEF Open, Child
    <3>1. stopping' = [stopping EXCEPT !["camera"] = FALSE]
      OBVIOUS
    <3>2. stopping' \in [Sessions -> BOOLEAN] /\ stopping'["qr"] = stopping["qr"]
      BY <3>1, Zenon
    <3>. QED BY <3>2
  <2>2. CASE at' = "respond" /\ UNCHANGED <<owner, captures>>
    BY <2>2
  <2>. QED BY <2>1, <2>2
<1>2. CASE CameraStop
  <2> USE <1>2, StopSteps DEF CameraStop, Stops
  <2>1. CASE session["camera"] \in {"active", "released"} /\ req.fields # "bad"
    <3>1. at' = "join_camera" /\ stopping' = [stopping EXCEPT !["camera"] = TRUE]
      BY <2>1, Zenon
    <3>2. stopping' \in [Sessions -> BOOLEAN] /\ stopping'["qr"] = stopping["qr"]
      BY <3>1, Zenon
    <3>. QED BY <3>1, <3>2
  <2>2. CASE ~(session["camera"] \in {"active", "released"} /\ req.fields # "bad")
    BY <2>2
  <2>. QED BY <2>1, <2>2
<1>3. CASE CameraJoin
  BY <1>3, StopSteps DEF CameraJoin, Joins, Killed, Child
<1>4. CASE CameraStopAnswer
  BY <1>4, StopSteps DEF CameraStopAnswer, StopAnswers
<1>. QED BY <1>1, <1>2, <1>3, <1>4
    DEF CameraParent

\* The monitors give back the lease of a child that is gone.
LEMMA MonitorStep ==
    ASSUME LeaseInv, NEW s \in Sessions, Monitor(s)
    PROVE  LeaseInv'
<1> USE DEF LeaseInv, Shapes, Users, Writing, Alive
<1>1. UNCHANGED control /\ (Releases(s) \/ Forgets(s))
  BY DEF Monitor, QrMonitor, CameraMonitor
<1>2. CASE Releases(s)
  <2>1. CASE s = "qr"
    BY <1>1, <1>2, <2>1 DEF Releases
  <2>2. CASE s = "camera"
    BY <1>1, <1>2, <2>2 DEF Releases
  <2>. QED BY <2>1, <2>2
<1>3. CASE Forgets(s)
  <2>1. CASE s = "qr"
    BY <1>1, <1>3, <2>1 DEF Forgets, Child
  <2>2. CASE s = "camera"
    BY <1>1, <1>3, <2>2 DEF Forgets, Child
  <2>. QED BY <2>1, <2>2
<1>. QED BY <1>1, <1>2, <1>3

LEMMA QrChildStep ==
    ASSUME LeaseInv, QrChildSteps, UNCHANGED control
    PROVE  LeaseInv'
<1> USE DEF LeaseInv, Shapes, Users, Writing, Alive, Child, QrChild
<1>1. CASE QrChildConnects
  BY <1>1 DEF QrChildConnects, BeginCaptureManifest, BeginWrite
<1>2. CASE QrChildWrites
  BY <1>2 DEF QrChildWrites, EndWrite
<1>3. CASE QrChildOpensCamera
  BY <1>3 DEF QrChildOpensCamera
<1>4. CASE QrChildFails
  BY <1>4 DEF QrChildFails
<1>5. CASE QrChildSaves
  BY <1>5 DEF QrChildSaves
<1>6. CASE QrChildRepeats
  BY <1>6 DEF QrChildRepeats, Repeated
<1>7. CASE QrChildStops
  BY <1>7 DEF QrChildStops, BeginCaptureManifest, BeginWrite
<1>8. CASE QrChildEnds
  BY <1>8 DEF QrChildEnds
<1>9. CASE QrChildCrashes
  BY <1>9 DEF QrChildCrashes, Crashes, Killed, DropWrite
<1>. QED BY <1>1, <1>2, <1>3, <1>4, <1>5, <1>6, <1>7, <1>8, <1>9
    DEF QrChildSteps

LEMMA CameraChildStep ==
    ASSUME LeaseInv, CameraChildSteps, UNCHANGED control
    PROVE  LeaseInv'
<1> USE DEF LeaseInv, Shapes, Users, Writing, Alive, Child
<1>1. CASE CameraChildOpens
  BY <1>1 DEF CameraChildOpens
<1>2. CASE CameraChildShows
  BY <1>2 DEF CameraChildShows
<1>3. CASE CameraChildRepeats
  BY <1>3 DEF CameraChildRepeats, Repeated
<1>4. CASE CameraChildEnds
  BY <1>4 DEF CameraChildEnds
<1>5. CASE CameraChildCrashes
  BY <1>5 DEF CameraChildCrashes, Crashes, Killed
<1>. QED BY <1>1, <1>2, <1>3, <1>4, <1>5
    DEF CameraChildSteps

\* The control thread, up to its wait for the lease.
LEMMA NodeStep ==
    ASSUME LeaseInv, BeginFlow \/ EndFlow \/ NodeRefused \/ NodeSteps
    PROVE  LeaseInv'
<1> USE DEF LeaseInv, Shapes, Users, Writing, Alive, Step, Fails, Done, Run
<1>1. CASE BeginFlow
  BY <1>1 DEF BeginFlow
<1>2. CASE EndFlow
  BY <1>2 DEF EndFlow
<1>3. CASE NodeRefused
  BY <1>3 DEF NodeRefused
<1>4. CASE AssignSkill
  BY <1>4 DEF AssignSkill
<1>5. CASE ForceControlSkill
  BY <1>5 DEF ForceControlSkill
<1>6. CASE MotionPlanSkill
  BY <1>6 DEF MotionPlanSkill
<1>7. CASE EndEffectorSkill
  BY <1>7 DEF EndEffectorSkill
<1>8. CASE ScriptSkill
  BY <1>8 DEF ScriptSkill
<1>9. CASE RunCodeScript
  BY <1>9 DEF RunCodeScript
<1>10. CASE QrPoseSkill
  BY <1>10 DEF QrPoseSkill
<1>. QED BY <1>1, <1>2, <1>3, <1>4, <1>5, <1>6, <1>7, <1>8, <1>9, <1>10
    DEF NodeSteps

LEMMA GateStep ==
    ASSUME LeaseInv, GateSteps
    PROVE  LeaseInv'
<1> USE DEF LeaseInv, Shapes, Users, Writing, Alive, Step, Fails, Done, Run
<1>1. CASE MotionGate
  BY <1>1 DEF MotionGate, Gate
<1>2. CASE EndEffectorGate
  BY <1>2 DEF EndEffectorGate, Gate
<1>3. CASE ScriptGate
  BY <1>3 DEF ScriptGate, Gate
<1>4. CASE Acquire
  BY <1>4 DEF Acquire
<1>. QED BY <1>1, <1>2, <1>3, <1>4
    DEF GateSteps

\* The commands in the worker; only the end of one gives the lease back.
LEMMA WorkerStep ==
    ASSUME LeaseInv, WorkerSteps
    PROVE  LeaseInv'
<1> USE DEF LeaseInv, Shapes, Users, Writing, Alive, Step, Fails, Done, Run
<1>1. CASE NotReady
  BY <1>1 DEF NotReady
<1>2. CASE RunAbsJoint
  BY <1>2 DEF RunAbsJoint
<1>3. CASE PlanAbsPose
  BY <1>3 DEF PlanAbsPose
<1>4. CASE RunEndEffector
  BY <1>4 DEF RunEndEffector
<1>5. CASE RunScript
  BY <1>5 DEF RunScript
<1>6. CASE PoseStep
  BY <1>6 DEF PoseStep, ServoStep
<1>7. CASE GripperStep
  BY <1>7 DEF GripperStep, ServoStep
<1>8. CASE ServoDone
  BY <1>8 DEF ServoDone
<1>9. CASE Interrupted
  BY <1>9 DEF Interrupted
<1>10. CASE Finish
  BY <1>10 DEF Finish
<1>. QED BY <1>1, <1>2, <1>3, <1>4, <1>5, <1>6, <1>7, <1>8, <1>9, <1>10
    DEF WorkerSteps

LEMMA LocateStep ==
    ASSUME LeaseInv, LocateSteps
    PROVE  LeaseInv'
<1> USE DEF LeaseInv, Shapes, Users, Writing, Alive, Step, Fails, Done, Run
<1>1. CASE LocateReads
  BY <1>1 DEF LocateReads
<1>2. CASE ReturnToInitialPhoto
  BY <1>2 DEF ReturnToInitialPhoto
<1>3. CASE LocateSamples
  BY <1>3 DEF LocateSamples
<1>4. CASE LocateSampled
  BY <1>4 DEF LocateSampled
<1>5. CASE LocateAnswers
  BY <1>5 DEF LocateAnswers
<1>. QED BY <1>1, <1>2, <1>3, <1>4, <1>5
    DEF LocateSteps

USE DEF Goto, Answer

\* The project requests: they write only while no capture child does.
LEMMA ProjectStep ==
    ASSUME LeaseInv, ProjectSteps \/ BuildSteps
    PROVE  LeaseInv'
<1> USE DEF LeaseInv, Shapes, Users, Writing, Alive
<1>1. CASE ProjectPath
  BY <1>1 DEF ProjectPath, Tells
<1>2. CASE ListProjects
  BY <1>2 DEF ListProjects, Tells
<1>3. CASE ProjectSnapshot
  BY <1>3 DEF ProjectSnapshot, Tells
<1>4. CASE PcdPreview
  BY <1>4 DEF PcdPreview, Tells
<1>5. CASE BuildMap
  BY <1>5 DEF BuildMap
<1>6. CASE RunMappingSdk
  BY <1>6 DEF RunMappingSdk
<1>7. CASE BuiltManifest
  BY <1>7 DEF BuiltManifest, Writes, BeginWrite, BeginBuildManifest
<1>8. CASE DeleteMap
  BY <1>8 DEF DeleteMap
<1>9. CASE UnlinkedManifest
  BY <1>9 DEF UnlinkedManifest, Writes, BeginWrite, BeginDeleteMapManifest
<1>10. CASE NoProjectDirectory
  BY <1>10 DEF NoProjectDirectory, Tells
<1>. QED BY <1>1, <1>2, <1>3, <1>4, <1>5, <1>6, <1>7, <1>8, <1>9, <1>10
    DEF ProjectSteps, BuildSteps

LEMMA PointStep ==
    ASSUME LeaseInv, TargetSteps \/ PhotoSteps
    PROVE  LeaseInv'
<1> USE DEF LeaseInv, Shapes, Users, Writing, Alive
<1>1. CASE SaveTargetRefused
  BY <1>1 DEF SaveTargetRefused, Tells
<1>2. CASE SaveTargetSamples
  BY <1>2 DEF SaveTargetSamples, Samples
<1>3. CASE SaveTargetSampled
  BY <1>3 DEF SaveTargetSampled, Sampled
<1>4. CASE SaveGraspPoint
  BY <1>4 DEF SaveGraspPoint
<1>5. CASE SavedTargetManifest
  BY <1>5 DEF SavedTargetManifest, Writes, BeginWrite, BeginTargetManifest
<1>6. CASE DeleteTargetPoint
  BY <1>6 DEF DeleteTargetPoint
<1>7. CASE DeletedTargetManifest
  BY <1>7 DEF DeletedTargetManifest, Writes, BeginWrite, BeginDeleteTargetManifest
<1>8. CASE RemoveFromWaypoint
  BY <1>8 DEF RemoveFromWaypoint
<1>9. CASE SaveInitialPhoto
  BY <1>9 DEF SaveInitialPhoto
<1>10. CASE SaveInitialSamples
  BY <1>10 DEF SaveInitialSamples, Samples
<1>11. CASE SaveInitialSampled
  BY <1>11 DEF SaveInitialSampled, Sampled
<1>12. CASE WriteScanFiles
  BY <1>12 DEF WriteScanFiles
<1>13. CASE InitialManifest
  BY <1>13 DEF InitialManifest, Writes, BeginWrite, BeginPhotoManifest
<1>14. CASE DeleteInitialPhoto
  BY <1>14 DEF DeleteInitialPhoto
<1>15. CASE DeletedInitialManifest
  BY <1>15 DEF DeletedInitialManifest, Writes, BeginWrite, BeginDeletePhotoManifest
<1>. QED BY <1>1, <1>2, <1>3, <1>4, <1>5, <1>6, <1>7, <1>8, <1>9, <1>10, <1>11, <1>12,
   <1>13, <1>14, <1>15
    DEF TargetSteps, PhotoSteps

LEMMA SubmitStep ==
    ASSUME LeaseInv, SubmitSteps \/ Written
    PROVE  LeaseInv'
<1> USE DEF LeaseInv, Shapes, Users, Writing, Alive
<1>1. CASE Submit
  BY <1>1 DEF Submit
<1>2. CASE BuildWaypoint
  BY <1>2 DEF BuildWaypoint
<1>3. CASE RunLocalizeSdk
  BY <1>3 DEF RunLocalizeSdk
<1>4. CASE SubmittedManifest
  BY <1>4 DEF SubmittedManifest, Writes, BeginWrite, BeginSubmitManifest
<1>5. CASE Written
  BY <1>5 DEF Written, EndWrite
<1>. QED BY <1>1, <1>2, <1>3, <1>4, <1>5
    DEF SubmitSteps

\* A handler leads from the message to its operation or to its answer.
LEMMA HandleStep ==
    ASSUME LeaseInv, Receive \/ Handle \/ Respond
    PROVE  LeaseInv'
<1>1. at \in {"idle", "received", "respond"} /\ UNCHANGED <<disk, owner, captures, control>>
  BY DEF Receive, Respond, Handle, HandlePoint, HandleQr, HandleCamera, HandleOther, Handles,
     HandleSaveTarget, HandleSaveInitial, HandleDeleteTarget, HandleDeleteInitial,
     HandleSubmit, HandleQrStart, HandleQrStop, HandleBuildMap,
     HandleDeleteMap, HandlePcdPreview, HandleProjectList, HandleProjectSnapshot,
     HandleProjectPath, HandleCameraStart, HandleCameraStop, HandleIdentity,
     HandleCalibration, HandleCameraFrame, HandleHighPrecisionMaps, HandleRecovery,
     HandleCurrentPose
<1>2. at' \notin ThreadReads \union {"ready"}
  BY DEF Receive, Respond, Handle, HandlePoint, HandleQr, HandleCamera, HandleOther, Handles,
     HandleSaveTarget, HandleSaveInitial, HandleDeleteTarget, HandleDeleteInitial,
     HandleSubmit, HandleQrStart, HandleQrStop, HandleBuildMap,
     HandleDeleteMap, HandlePcdPreview, HandleProjectList, HandleProjectSnapshot,
     HandleProjectPath, HandleCameraStart, HandleCameraStop, HandleIdentity,
     HandleCalibration, HandleCameraFrame, HandleHighPrecisionMaps, HandleRecovery,
     HandleCurrentPose
<1>. QED BY <1>1, <1>2 DEF LeaseInv, Shapes, Users, Writing, Alive

LEMMA ReadStep ==
    ASSUME LeaseInv, ReadSteps
    PROVE  LeaseInv'
<1> USE DEF LeaseInv, Shapes, Users, Writing, Alive, Reads
<1>1. CASE ReadCurrentPose
  BY <1>1 DEF ReadCurrentPose
<1>2. CASE ReadIdentity
  BY <1>2 DEF ReadIdentity
<1>3. CASE ReadCameraFrame
  BY <1>3 DEF ReadCameraFrame
<1>4. CASE ReadCalibration
  BY <1>4 DEF ReadCalibration
<1>5. CASE ReadPrecisionMaps
  BY <1>5 DEF ReadPrecisionMaps
<1>6. CASE ReadEnds
  BY <1>6 DEF ReadEnds
<1>. QED BY <1>1, <1>2, <1>3, <1>4, <1>5, <1>6
    DEF ReadSteps

LEMMA RecoveryStep ==
    ASSUME LeaseInv, RecoverySteps
    PROVE  LeaseInv'
<1> USE DEF LeaseInv, Shapes, Users, Writing, Alive
<1>1. CASE SampleRecovery
  BY <1>1 DEF SampleRecovery
<1>2. CASE SampledRecovery
  BY <1>2 DEF SampledRecovery
<1>3. CASE DecideRecovery
  BY <1>3 DEF DecideRecovery
<1>. QED BY <1>1, <1>2, <1>3
    DEF RecoverySteps

LEMMA LeaseStep ==
    ASSUME LeaseInv, [Next]_vars
    PROVE  LeaseInv'
<1>1. CASE Serve \/ Receive
  BY <1>1, ProjectStep, PointStep, SubmitStep, HandleStep, ReadStep, RecoveryStep,
     QrParentStep, CameraParentStep DEF Serve, ProjectRequest
<1>2. CASE \E s \in Sessions : Monitor(s)
  BY <1>2, MonitorStep
<1>3. CASE Children
  BY <1>3, QrChildStep, CameraChildStep DEF Children
<1>4. CASE ControlNext
  BY <1>4, NodeStep, GateStep, WorkerStep, LocateStep DEF ControlNext
<1>5. CASE UNCHANGED vars
  BY <1>5 DEF vars, LeaseInv, Shapes, Users, Writing, Alive
<1>. QED BY <1>1, <1>2, <1>3, <1>4, <1>5 DEF Next

\* The lease, the children and the writers of the manifest stay in step.
THEOREM LeaseInvariant == Spec => []LeaseInv
<1>. QED BY LeaseInit, LeaseStep, PTL DEF Spec

\* No two of the capture children, the request thread and the control thread use the
\* robot at once, and whoever uses it holds the lease (GdkSessionManager).
THEOREM OneUser == Spec => [](Working \subseteq {owner})
<1>1. LeaseInv => Working \subseteq {owner}
  BY DEF LeaseInv, Users, Working, Holding
<1>. QED BY <1>1, LeaseInvariant, PTL

\* OneManifestWriter: the request thread and a capture child never have manifest.json
\* truncated at once (write_project_manifest, update_manifest_after_build, ...).
THEOREM OneWriter == Spec => []OneManifestWriter
<1>1. LeaseInv => OneManifestWriter
  BY DEF LeaseInv, Shapes, Users, Writing, Alive, OneManifestWriter
<1>. QED BY <1>1, LeaseInvariant, PTL
=============================================================================
