------------------------ MODULE RobotStateTypesProofs ------------------------
(***************************************************************************)
(* Proofs about the values of the variables in RobotStateRequests, and     *)
(* about what their types and the request being served imply.              *)
(***************************************************************************)
EXTENDS RobotStateRequestsProofs

\* The waypoints that lose a tag have tags.
Untagging ==
    at \in {"untag_saved", "untag_deleted"} => \A w \in todo : tags[w] \in TagFiles

\* Only a request of the clients is served, and the child counts no more than it saved.
Served ==
    /\ at # "idle" => req \in Requests
    /\ saved <= images
    /\ Untagging

TypeInv == TypeOK /\ Served

AnswerOK == answer \in [ok : BOOLEAN, images : 0 .. MaxImages]
SessionsOK ==
    /\ owner \in Owners
    /\ session \in [Sessions -> {"none", "starting", "active", "released"}]
    /\ child \in [Sessions -> {"none", "starting", "manifest", "opening", "capturing",
                               "closing", "closed", "failing", "gone"}]
    /\ stopping \in [Sessions -> BOOLEAN]
    /\ ready \in [Sessions -> {"none", "started", "failed"}]
    /\ repeats \in [Sessions -> 0 .. Stale + 1]
    /\ saved \in 0 .. MaxImages
    /\ summary \in 0 .. MaxImages \union {None}

----------------------------------------------------------------------------
USE ProjectAssumption, StaleAssumption, ControlAssumption, LoadsAssumption
    DEF disk, points, thread, captures, control, evidence, others, other, Sessions, Writers, Owners,
        Kinds, InWorker

LEMMA TypeInit == Init => TypeInv
<1> SUFFICES ASSUME Init PROVE TypeInv
  OBVIOUS
<1> USE DEF Init
<1>1. load \in Loads /\ load.map \in Maps \union {None}
  OBVIOUS
<1>2. ProjectTypeOK
  <2> USE <1>1 DEF ProjectInit
  <2>1. manifest \in Manifests
    BY DEF Manifests, Blank, Statuses
  <2>2. writing \in [Writers -> Manifests \union {None}]
    OBVIOUS
  <2>3. images \in 0 .. MaxImages /\ calibrated \in BOOLEAN
    OBVIOUS
  <2>4. maps \in [Maps -> {"none", "leftover", "built"}]
    OBVIOUS
  <2>5. scan \in [Waypoints -> Maps \union {None}] /\ tags \in [Waypoints -> TagFiles \union {None}]
    OBVIOUS
  <2>6. targets \subseteq Targets /\ todo \subseteq Waypoints /\ unsubmitted \in BOOLEAN
    OBVIOUS
  <2>. QED BY <2>1, <2>2, <2>3, <2>4, <2>5, <2>6, Zenon DEF ProjectTypeOK
<1>3. CaptureTypeOK
  BY DEF CaptureInit, CaptureTypeOK, NoAnswer
<1>4. ControlTypeOK
  BY DEF ControlInit, ControlTypeOK, NoPlan, NoSkill
<1>5. Served
  BY DEF ProjectInit, CaptureInit, Served, Untagging
<1>. QED BY <1>1, <1>2, <1>3, <1>4, <1>5 DEF TypeInv, TypeOK

\* The control thread changes nothing but its own variables and the lease.
LEMMA ControlTypes ==
    ASSUME TypeInv, ControlNext
    PROVE  ControlTypeOK' /\ owner' \in Owners /\ UNCHANGED <<other, load>>
<1> USE DEF TypeInv, TypeOK, ControlTypeOK, CaptureTypeOK, Step, Fails, Done, Run, NoPlan, NoSkill,
       WritesNode
<1>1. CASE BeginFlow
  BY <1>1 DEF BeginFlow
<1>2. CASE EndFlow
  BY <1>2 DEF EndFlow
<1>3. CASE NodeRefused
  BY <1>3 DEF NodeRefused
<1>4. CASE AssignSkill
  BY <1>4 DEF AssignSkill
<1>5. CASE ForceControlSkill
  BY <1>5 DEF ForceControlSkill
<1>6. CASE MotionPlanSkill
  BY <1>6 DEF MotionPlanSkill, JointTargets, PoseTargets
<1>7. CASE EndEffectorSkill
  BY <1>7 DEF EndEffectorSkill, EndTargets
<1>8. CASE ScriptSkill
  BY <1>8 DEF ScriptSkill, EndTargets
<1>9. CASE RunCodeScript
  BY <1>9 DEF RunCodeScript
<1>10. CASE QrPoseSkill
  BY <1>10 DEF QrPoseSkill
<1>11. CASE MotionGate
  BY <1>11 DEF MotionGate, Gate
<1>12. CASE EndEffectorGate
  BY <1>12 DEF EndEffectorGate, Gate
<1>13. CASE ScriptGate
  BY <1>13 DEF ScriptGate, Gate
<1>14. CASE Acquire
  BY <1>14 DEF Acquire
<1>15. CASE NotReady
  BY <1>15 DEF NotReady
<1>16. CASE RunAbsJoint
  BY <1>16 DEF RunAbsJoint
<1>17. CASE PlanAbsPose
  BY <1>17 DEF PlanAbsPose, PosePlan, Larger, CeilDiv
<1>18. CASE RunEndEffector
  BY <1>18 DEF RunEndEffector, GripperPlan
<1>19. CASE RunScript
  BY <1>19 DEF RunScript
<1>20. CASE PoseStep
  BY <1>20 DEF PoseStep, ServoStep
<1>21. CASE GripperStep
  BY <1>21 DEF GripperStep, ServoStep
<1>22. CASE ServoDone
  BY <1>22 DEF ServoDone
<1>23. CASE Interrupted
  BY <1>23 DEF Interrupted
<1>24. CASE Finish
  BY <1>24 DEF Finish
<1>25. CASE LocateReads
  BY <1>25 DEF LocateReads, Resources, Resolved, Built
<1>26. CASE ReturnToInitialPhoto
  BY <1>26 DEF ReturnToInitialPhoto
<1>27. CASE LocateSamples
  BY <1>27 DEF LocateSamples
<1>28. CASE LocateSampled
  BY <1>28 DEF LocateSampled
<1>29. CASE LocateAnswers
  BY <1>29 DEF LocateAnswers
<1>. QED BY <1>1, <1>2, <1>3, <1>4, <1>5, <1>6, <1>7, <1>8, <1>9, <1>10, <1>11, <1>12,
   <1>13, <1>14, <1>15, <1>16, <1>17, <1>18, <1>19, <1>20, <1>21, <1>22, <1>23, <1>24, <1>25,
   <1>26, <1>27, <1>28, <1>29
    DEF ControlNext, NodeSteps, GateSteps, WorkerSteps, LocateSteps

\* Every step of a project request keeps the types of the files.
LEMMA ReadTypes ==
    ASSUME TypeInv
    PROVE  /\ Manifest \in Manifests
           /\ Manifest.points \subseteq Targets /\ Manifest.photos \subseteq Waypoints
           /\ Built \subseteq Maps /\ \A m : Resolved(m) \subseteq Maps
  BY DEF TypeInv, TypeOK, ProjectTypeOK, Manifest, Manifests, Blank, Statuses, Built, Resolved

\* A manifest with other contents is a manifest.
LEMMA WriteTypes ==
    ASSUME TypeInv, NEW w \in Writers, NEW c \in Manifests, BeginWrite(w, c)
    PROVE  writing' \in [Writers -> Manifests \union {None}] /\ manifest' \in Manifests
  BY DEF TypeInv, TypeOK, ProjectTypeOK, BeginWrite, Manifests, Blank, Statuses

\* Whatever is answered is an answer.
LEMMA AnswerTypes ==
    ASSUME AnswerOK
    PROVE  /\ UNCHANGED answer => AnswerOK'
           /\ \A ok \in BOOLEAN, n \in 0 .. MaxImages : Answer(ok, n) => AnswerOK'
<1>1. UNCHANGED answer => AnswerOK'
  BY DEF AnswerOK
<1>2. ASSUME NEW ok \in BOOLEAN, NEW n \in 0 .. MaxImages, Answer(ok, n)
      PROVE  AnswerOK'
  BY <1>2, Zenon DEF AnswerOK, Answer
<1>. QED BY <1>1, <1>2

LEMMA ProjectAnswers ==
    ASSUME TypeInv, ProjectRequest
    PROVE  AnswerOK'
<1>1. AnswerOK /\ images \in 0 .. MaxImages /\ 0 \in 0 .. MaxImages /\ 1 \in 0 .. MaxImages
  BY DEF TypeInv, TypeOK, ProjectTypeOK, CaptureTypeOK, AnswerOK
<1>2. CASE ProjectSteps
  BY <1>1, <1>2, AnswerTypes
     DEF ProjectSteps, ProjectPath, ListProjects, ProjectSnapshot, PcdPreview, Tells
<1>3. CASE BuildSteps
  BY <1>1, <1>3, AnswerTypes
     DEF BuildSteps, BuildMap, RunMappingSdk, BuiltManifest, DeleteMap, UnlinkedManifest,
         NoProjectDirectory, Tells, Writes, Goto
<1>4. CASE TargetSteps
  BY <1>1, <1>4, AnswerTypes
     DEF TargetSteps, SaveTargetRefused, SaveTargetSamples, SaveTargetSampled, SaveGraspPoint,
         SavedTargetManifest, DeleteTargetPoint, DeletedTargetManifest, RemoveFromWaypoint,
         Samples, Sampled, Tells, Writes, Goto
<1>5. CASE PhotoSteps
  BY <1>1, <1>5, AnswerTypes
     DEF PhotoSteps, SaveInitialPhoto, SaveInitialSamples, SaveInitialSampled, WriteScanFiles,
         InitialManifest, DeleteInitialPhoto, DeletedInitialManifest, Samples, Sampled,
         Writes, Goto
<1>6. CASE SubmitSteps \/ Written
  BY <1>1, <1>6, AnswerTypes
     DEF SubmitSteps, Submit, BuildWaypoint, RunLocalizeSdk, SubmittedManifest, Written,
         Writes, Goto
<1>. QED BY <1>2, <1>3, <1>4, <1>5, <1>6 DEF ProjectRequest

LEMMA ManifestEdits ==
    ASSUME NEW m \in Manifests, NEW s \in Statuses, NEW a \in Maps \union {None},
           NEW P \in SUBSET Targets, NEW W \in SUBSET Waypoints
    PROVE  /\ [m EXCEPT !.status = s] \in Manifests
           /\ [m EXCEPT !.status = s, !.active = a] \in Manifests
           /\ [m EXCEPT !.status = s, !.points = P] \in Manifests
           /\ [m EXCEPT !.status = s, !.photos = W] \in Manifests
           /\ [m EXCEPT !.status = s, !.points = P, !.photos = W] \in Manifests
<1>1. [m EXCEPT !.status = s] \in Manifests
  BY DEF Manifests
<1>2. [m EXCEPT !.status = s, !.active = a] \in Manifests
  BY DEF Manifests
<1>3. [m EXCEPT !.status = s, !.points = P] \in Manifests
  BY DEF Manifests
<1>4. [m EXCEPT !.status = s, !.photos = W] \in Manifests
  BY DEF Manifests
<1>5. [m EXCEPT !.status = s, !.points = P, !.photos = W] \in Manifests
  BY DEF Manifests
<1>. QED BY <1>1, <1>2, <1>3, <1>4, <1>5

LEMMA ProjectTypes ==
    ASSUME TypeInv, ProjectSteps \/ BuildSteps
    PROVE  ProjectTypeOK' /\ owner' \in Owners /\ UNCHANGED <<images, req, others>> /\ Untagging'
<1> USE DEF TypeInv, TypeOK, CaptureTypeOK, ProjectTypeOK, Goto, Answer, Served, Untagging, Requests
<1>1. CASE ProjectPath
  BY <1>1 DEF ProjectPath, Tells
<1>2. CASE ListProjects
  BY <1>2 DEF ListProjects, Tells
<1>3. CASE ProjectSnapshot
  BY <1>3 DEF ProjectSnapshot, Tells
<1>4. CASE PcdPreview
  BY <1>4 DEF PcdPreview, Tells
<1>5. CASE BuildMap
  BY <1>5 DEF BuildMap, WriteIntrinsics
<1>6. CASE RunMappingSdk
  BY <1>6 DEF RunMappingSdk, SdkBuilds
<1>7. CASE BuiltManifest
  <2>1. PICK c \in Manifests : BeginWrite("thread", c)
    BY <1>7, ReadTypes, ManifestEdits, Zenon
       DEF BuiltManifest, BeginBuildManifest, Writes, Statuses
  <2>. QED BY <1>7, <2>1, WriteTypes DEF BuiltManifest, Writes
<1>8. CASE DeleteMap
  BY <1>8 DEF DeleteMap, UnlinkMap
<1>9. CASE UnlinkedManifest
  <2>1. /\ (IF Built # {} THEN "mapped" ELSE IF images > 0 THEN "captured" ELSE "empty") \in Statuses
       /\ (IF Manifest.active = req.map THEN None ELSE Manifest.active) \in Maps \union {None}
    BY <1>9, ReadTypes DEF Manifests, Statuses
  <2>2. PICK c \in Manifests : BeginWrite("thread", c)
    BY <1>9, <2>1, ReadTypes, ManifestEdits, Zenon
       DEF UnlinkedManifest, BeginDeleteMapManifest, Writes, Statuses
  <2>. QED BY <1>9, <2>2, WriteTypes DEF UnlinkedManifest, Writes
<1>10. CASE NoProjectDirectory
  BY <1>10 DEF NoProjectDirectory, Tells
<1>. QED BY <1>1, <1>2, <1>3, <1>4, <1>5, <1>6, <1>7, <1>8, <1>9, <1>10
    DEF ProjectSteps, BuildSteps

LEMMA PointTypes ==
    ASSUME TypeInv, TargetSteps \/ PhotoSteps
    PROVE  ProjectTypeOK' /\ owner' \in Owners /\ UNCHANGED <<images, req, others>> /\ Untagging'
<1> USE DEF TypeInv, TypeOK, CaptureTypeOK, ProjectTypeOK, Goto, Answer, Served, Untagging, Requests
<1>1. CASE SaveTargetRefused
  BY <1>1 DEF SaveTargetRefused, Tells
<1>2. CASE SaveTargetSamples
  BY <1>2 DEF SaveTargetSamples, Samples
<1>3. CASE SaveTargetSampled
  BY <1>3 DEF SaveTargetSampled, Sampled
<1>4. CASE SaveGraspPoint
  BY <1>4 DEF SaveGraspPoint, SaveTarget, Tagged, TagFiles
<1>5. CASE SavedTargetManifest
  <2>1. Manifest.points \union {req.target} \in SUBSET Targets
    BY <1>5, ReadTypes DEF SavedTargetManifest, Writes
  <2>2. PICK c \in Manifests : BeginWrite("thread", c)
    BY <1>5, <2>1, ReadTypes, ManifestEdits, Zenon
       DEF SavedTargetManifest, BeginTargetManifest, Writes, Statuses
  <2>. QED BY <1>5, <2>2, WriteTypes DEF SavedTargetManifest, Writes
<1>6. CASE DeleteTargetPoint
  BY <1>6 DEF DeleteTargetPoint, RemoveTarget, Tagged, TagFiles
<1>7. CASE DeletedTargetManifest
  <2>1. PICK c \in Manifests : BeginWrite("thread", c)
    BY <1>7, ReadTypes, ManifestEdits, Zenon
       DEF DeletedTargetManifest, BeginDeleteTargetManifest, Writes, Statuses, StatusAfterDelete
  <2>. QED BY <1>7, <2>1, WriteTypes DEF DeletedTargetManifest, Writes
<1>8. CASE RemoveFromWaypoint
  BY <1>8 DEF RemoveFromWaypoint, RemoveTag, TagFiles
<1>9. CASE SaveInitialPhoto
  BY <1>9 DEF SaveInitialPhoto, RemoveWaypoint
<1>10. CASE SaveInitialSamples
  BY <1>10 DEF SaveInitialSamples, Samples
<1>11. CASE SaveInitialSampled
  BY <1>11 DEF SaveInitialSampled, Sampled
<1>12. CASE WriteScanFiles
  BY <1>12, ReadTypes DEF WriteScanFiles, WriteScan
<1>13. CASE InitialManifest
  <2>1. Manifest.photos \union {req.waypoint} \in SUBSET Waypoints
    BY <1>13, ReadTypes DEF InitialManifest, Writes
  <2>2. PICK c \in Manifests : BeginWrite("thread", c)
    BY <1>13, <2>1, ReadTypes, ManifestEdits, Zenon
       DEF InitialManifest, BeginPhotoManifest, Writes, Statuses
  <2>. QED BY <1>13, <2>2, WriteTypes DEF InitialManifest, Writes
<1>14. CASE DeleteInitialPhoto
  BY <1>14 DEF DeleteInitialPhoto, RemoveWaypoint
<1>15. CASE DeletedInitialManifest
  <2>1. PICK c \in Manifests : BeginWrite("thread", c)
    BY <1>15, ReadTypes, ManifestEdits, Zenon
       DEF DeletedInitialManifest, BeginDeletePhotoManifest, Writes, Statuses, StatusAfterDelete
  <2>. QED BY <1>15, <2>1, WriteTypes DEF DeletedInitialManifest, Writes
<1>. QED BY <1>1, <1>2, <1>3, <1>4, <1>5, <1>6, <1>7, <1>8, <1>9, <1>10, <1>11, <1>12,
     <1>13, <1>14, <1>15
    DEF TargetSteps, PhotoSteps

LEMMA SubmitTypes ==
    ASSUME TypeInv, SubmitSteps \/ Written
    PROVE  ProjectTypeOK' /\ owner' \in Owners /\ UNCHANGED <<images, req, others>> /\ Untagging'
<1> USE DEF TypeInv, TypeOK, CaptureTypeOK, ProjectTypeOK, Goto, Answer, Served, Untagging, Requests
<1>1. CASE Submit
  BY <1>1 DEF Submit
<1>2. CASE BuildWaypoint
  BY <1>2 DEF BuildWaypoint, ClearOutputs
<1>3. CASE RunLocalizeSdk
  BY <1>3 DEF RunLocalizeSdk, SdkLocalizes, TagFiles
<1>4. CASE SubmittedManifest
  <2>1. PICK c \in Manifests : BeginWrite("thread", c)
    BY <1>4, ReadTypes, ManifestEdits, Zenon
       DEF SubmittedManifest, BeginSubmitManifest, Writes, Statuses
  <2>. QED BY <1>4, <2>1, WriteTypes DEF SubmittedManifest, Writes
<1>5. CASE Written
  BY <1>5 DEF Written, EndWrite
<1>. QED BY <1>1, <1>2, <1>3, <1>4, <1>5
    DEF SubmitSteps

\* A capture keeps the types of its session, and counts no more than it saves.
LEMMA CaptureAnswers ==
    ASSUME TypeInv, QrParent \/ CameraParent \/ (\E t \in Sessions : Monitor(t))
               \/ QrChildSteps \/ CameraChildSteps
    PROVE  AnswerOK'
<1>1. AnswerOK /\ 0 \in 0 .. MaxImages /\ Reported \in 0 .. MaxImages
  BY DEF TypeInv, TypeOK, ProjectTypeOK, CaptureTypeOK, AnswerOK, Reported
<1>2. CASE QrParent
  BY <1>1, <1>2, AnswerTypes
     DEF QrParent, QrStart, QrCalibrate, QrSpawn, QrStarted, QrNotStarted, QrStop, QrJoin,
         QrStopAnswer, Stops, Joins, StopAnswers, Goto
<1>3. CASE CameraParent
  BY <1>1, <1>3, AnswerTypes
     DEF CameraParent, CameraStart, CameraStop, CameraJoin, CameraStopAnswer, Stops, Joins,
         StopAnswers, Goto
<1>4. CASE \E t \in Sessions : Monitor(t)
  BY <1>1, <1>4, AnswerTypes
     DEF Monitor, QrMonitor, CameraMonitor, Releases, Forgets
<1>5. CASE QrChildSteps
  BY <1>1, <1>5, AnswerTypes
     DEF QrChildSteps, QrChildConnects, QrChildWrites, QrChildOpensCamera, QrChildFails,
         QrChildSaves, QrChildRepeats, Repeated, QrChildStops, QrChildEnds, QrChildCrashes,
         Crashes
<1>6. CASE CameraChildSteps
  BY <1>1, <1>6, AnswerTypes
     DEF CameraChildSteps, CameraChildOpens, CameraChildShows, CameraChildRepeats, Repeated,
         CameraChildEnds, CameraChildCrashes, Crashes
<1>. QED BY <1>2, <1>3, <1>4, <1>5, <1>6

LEMMA QrParentTypes ==
    ASSUME TypeInv, QrParent
    PROVE  ProjectTypeOK' /\ SessionsOK' /\ req' = req /\ saved' <= images' /\ Untagging'
<1> USE DEF TypeInv, TypeOK, CaptureTypeOK, SessionsOK, ProjectTypeOK, Goto, Answer, Served, Untagging
<1>1. CASE QrStart
  BY <1>1 DEF QrStart
<1>2. CASE QrCalibrate
  BY <1>2 DEF QrCalibrate
<1>3. CASE QrSpawn
  <2>1. stopping' = [stopping EXCEPT !["qr"] = FALSE] \/ stopping' = stopping
    BY <1>3 DEF QrSpawn, Open
  <2>2. stopping' \in [Sessions -> BOOLEAN]
    BY <2>1, Zenon
  <2>. QED BY <1>3, <2>2 DEF QrSpawn, Open, Child
<1>4. CASE QrStarted
  BY <1>4 DEF QrStarted
<1>5. CASE QrNotStarted
  BY <1>5 DEF QrNotStarted, Child, DropWrite
<1>6. CASE QrStop
  <2>1. stopping' = [stopping EXCEPT !["qr"] = TRUE] \/ stopping' = stopping
    BY <1>6 DEF QrStop, Stops
  <2>2. stopping' \in [Sessions -> BOOLEAN]
    BY <2>1, Zenon
  <2>. QED BY <1>6, <2>2, StopSteps DEF QrStop, Stops
<1>7. CASE QrJoin
  BY <1>7, StopSteps DEF QrJoin, Joins, Killed, Child, DropWrite
<1>8. CASE QrStopAnswer
  BY <1>8 DEF QrStopAnswer, StopAnswers
<1>. QED BY <1>1, <1>2, <1>3, <1>4, <1>5, <1>6, <1>7, <1>8
    DEF QrParent

LEMMA CameraParentTypes ==
    ASSUME TypeInv, CameraParent
    PROVE  ProjectTypeOK' /\ SessionsOK' /\ req' = req /\ saved' <= images' /\ Untagging'
<1> USE DEF TypeInv, TypeOK, CaptureTypeOK, SessionsOK, ProjectTypeOK, Goto, Answer, Served, Untagging
<1>1. CASE CameraStart
  <2>1. stopping' = [stopping EXCEPT !["camera"] = FALSE] \/ stopping' = stopping
    BY <1>1 DEF CameraStart, Open
  <2>2. stopping' \in [Sessions -> BOOLEAN]
    BY <2>1, Zenon
  <2>. QED BY <1>1, <2>2 DEF CameraStart, Open, Child
<1>2. CASE CameraStop
  <2>1. stopping' = [stopping EXCEPT !["camera"] = TRUE] \/ stopping' = stopping
    BY <1>2 DEF CameraStop, Stops
  <2>2. stopping' \in [Sessions -> BOOLEAN]
    BY <2>1, Zenon
  <2>. QED BY <1>2, <2>2, StopSteps DEF CameraStop, Stops
<1>3. CASE CameraJoin
  BY <1>3, StopSteps DEF CameraJoin, Joins, Killed, Child, DropWrite
<1>4. CASE CameraStopAnswer
  BY <1>4 DEF CameraStopAnswer, StopAnswers
<1>. QED BY <1>1, <1>2, <1>3, <1>4
    DEF CameraParent

LEMMA MonitorTypes ==
    ASSUME TypeInv, NEW t \in Sessions, Monitor(t)
    PROVE  ProjectTypeOK' /\ SessionsOK' /\ req' = req /\ saved' <= images' /\ Untagging'
<1> USE DEF TypeInv, TypeOK, CaptureTypeOK, SessionsOK, ProjectTypeOK, Goto, Answer, Served, Untagging
<1>1. CASE Releases(t)
  BY <1>1 DEF Releases
<1>2. CASE Forgets(t)
  BY <1>2 DEF Forgets, Child
<1>. QED BY <1>1, <1>2
    DEF Monitor, QrMonitor, CameraMonitor

LEMMA QrChildTypes ==
    ASSUME TypeInv, QrChildSteps
    PROVE  ProjectTypeOK' /\ SessionsOK' /\ req' = req /\ saved' <= images' /\ Untagging'
<1> USE DEF TypeInv, TypeOK, CaptureTypeOK, SessionsOK, ProjectTypeOK, Goto, Answer, Served, Untagging
<1>1. CASE QrChildConnects
  BY <1>1, ReadTypes, ManifestEdits, WriteTypes DEF QrChildConnects,
     BeginCaptureManifest, QrChild, Child, Statuses
<1>2. CASE QrChildWrites
  BY <1>2 DEF QrChildWrites, EndWrite, QrChild, Child
<1>3. CASE QrChildOpensCamera
  BY <1>3 DEF QrChildOpensCamera, QrChild, Child
<1>4. CASE QrChildFails
  BY <1>4 DEF QrChildFails, QrChild, Child
<1>5. CASE QrChildSaves
  BY <1>5 DEF QrChildSaves
<1>6. CASE QrChildRepeats
  BY <1>6 DEF QrChildRepeats, Repeated
<1>7. CASE QrChildStops
  BY <1>7, ReadTypes, ManifestEdits, WriteTypes DEF QrChildStops, BeginCaptureManifest,
     QrChild, Child, Statuses
<1>8. CASE QrChildEnds
  BY <1>8 DEF QrChildEnds, QrChild, Child
<1>9. CASE QrChildCrashes
  BY <1>9 DEF QrChildCrashes, Crashes, Killed, Child, DropWrite
<1>. QED BY <1>1, <1>2, <1>3, <1>4, <1>5, <1>6, <1>7, <1>8, <1>9
    DEF QrChildSteps

LEMMA CameraChildTypes ==
    ASSUME TypeInv, CameraChildSteps
    PROVE  ProjectTypeOK' /\ SessionsOK' /\ req' = req /\ saved' <= images' /\ Untagging'
<1> USE DEF TypeInv, TypeOK, CaptureTypeOK, SessionsOK, ProjectTypeOK, Goto, Answer, Served, Untagging
<1>1. CASE CameraChildOpens
  BY <1>1 DEF CameraChildOpens, Child
<1>2. CASE CameraChildShows
  BY <1>2 DEF CameraChildShows
<1>3. CASE CameraChildRepeats
  BY <1>3 DEF CameraChildRepeats, Repeated
<1>4. CASE CameraChildEnds
  BY <1>4 DEF CameraChildEnds, Child
<1>5. CASE CameraChildCrashes
  BY <1>5 DEF CameraChildCrashes, Crashes, Killed, Child, DropWrite
<1>. QED BY <1>1, <1>2, <1>3, <1>4, <1>5
    DEF CameraChildSteps

\* A request comes from the clients; a handler leads to its operation or its answer.
LEMMA HandleTypes ==
    ASSUME TypeInv, Handle
    PROVE  /\ UNCHANGED <<disk, owner, req, captures, control>> /\ AnswerOK'
           /\ at' \notin {"untag_saved", "untag_deleted"} /\ at = "received"
<1>1. AnswerOK /\ 0 \in 0 .. MaxImages
  BY DEF TypeInv, TypeOK, CaptureTypeOK, AnswerOK
<1>2. \A k : k \notin {"untag_saved", "untag_deleted"} =>
          \A parsed : Handles(k, parsed) =>
              /\ UNCHANGED <<disk, owner, req, captures, control>> /\ AnswerOK'
              /\ at' \notin {"untag_saved", "untag_deleted"} /\ at = "received"
  BY <1>1, AnswerTypes DEF Handles, Goto, Answer
<1>. QED BY <1>2
     DEF Handle, HandlePoint, HandleQr, HandleCamera, HandleOther,
         HandleSaveTarget, HandleSaveInitial, HandleDeleteTarget, HandleDeleteInitial,
         HandleSubmit, HandleQrStart, HandleQrStop, HandleBuildMap,
         HandleDeleteMap, HandlePcdPreview, HandleProjectList, HandleProjectSnapshot,
         HandleProjectPath, HandleCameraStart, HandleCameraStop, HandleIdentity,
         HandleCalibration, HandleCameraFrame, HandleHighPrecisionMaps, HandleRecovery,
         HandleCurrentPose

LEMMA ReadingTypes ==
    ASSUME TypeInv, ReadSteps \/ RecoverySteps
    PROVE  /\ UNCHANGED <<disk, req, captures>> /\ owner' \in Owners /\ ControlTypeOK'
           /\ load' = load /\ at' \notin {"untag_saved", "untag_deleted"} /\ at # "idle"
<1> USE DEF TypeInv, TypeOK, CaptureTypeOK, ControlTypeOK, Goto, Answer
<1>1. CASE ReadCurrentPose
  BY <1>1 DEF ReadCurrentPose, Reads
<1>2. CASE ReadIdentity
  BY <1>2 DEF ReadIdentity, Reads
<1>3. CASE ReadCameraFrame
  BY <1>3 DEF ReadCameraFrame, Reads
<1>4. CASE ReadCalibration
  BY <1>4 DEF ReadCalibration, Reads
<1>5. CASE ReadPrecisionMaps
  BY <1>5 DEF ReadPrecisionMaps, Reads
<1>6. CASE ReadEnds
  BY <1>6 DEF ReadEnds
<1>7. CASE SampleRecovery
  BY <1>7 DEF SampleRecovery
<1>8. CASE SampledRecovery
  BY <1>8 DEF SampledRecovery
<1>9. CASE DecideRecovery
  BY <1>9 DEF DecideRecovery
<1>. QED BY <1>1, <1>2, <1>3, <1>4, <1>5, <1>6, <1>7, <1>8, <1>9
    DEF ReadSteps, RecoverySteps

LEMMA Busy ==
    ASSUME ProjectRequest
    PROVE  at # "idle"
  BY DEF ProjectRequest, ProjectSteps, BuildSteps, TargetSteps, PhotoSteps, SubmitSteps,
     ProjectPath, ListProjects, ProjectSnapshot, PcdPreview, Tells, BuildMap, RunMappingSdk,
     BuiltManifest, DeleteMap, UnlinkedManifest, NoProjectDirectory, SaveTargetRefused,
     SaveTargetSamples, SaveTargetSampled, Samples, Sampled, SaveGraspPoint,
     SavedTargetManifest, DeleteTargetPoint, DeletedTargetManifest, RemoveFromWaypoint,
     SaveInitialPhoto, SaveInitialSamples, SaveInitialSampled, WriteScanFiles,
     InitialManifest, DeleteInitialPhoto, DeletedInitialManifest, Submit, BuildWaypoint,
     RunLocalizeSdk, SubmittedManifest, Writes, Written

LEMMA CaptureBusy ==
    ASSUME QrParent \/ CameraParent \/ QrChildSteps \/ CameraChildSteps
               \/ \E t \in Sessions : Monitor(t)
    PROVE  at # "idle" \/ at' = at
<1>1. CASE QrParent \/ CameraParent
  BY <1>1, StopSteps DEF QrParent, CameraParent, QrStart, QrCalibrate, QrSpawn, QrStarted,
     QrNotStarted, QrStop, QrJoin, QrStopAnswer, CameraStart, CameraStop, CameraJoin,
     CameraStopAnswer, Stops, Joins, StopAnswers
<1>2. CASE QrChildSteps \/ CameraChildSteps \/ \E t \in Sessions : Monitor(t)
  BY <1>2 DEF QrChildSteps, CameraChildSteps, Monitor, QrMonitor, CameraMonitor, Releases,
     Forgets, QrChildConnects, QrChildWrites, QrChildOpensCamera, QrChildFails, QrChildSaves,
     QrChildRepeats, Repeated, QrChildStops, QrChildEnds, QrChildCrashes, Crashes,
     CameraChildOpens, CameraChildShows, CameraChildRepeats, CameraChildEnds,
     CameraChildCrashes
<1>. QED BY <1>1, <1>2

LEMMA ReadAnswers ==
    ASSUME TypeInv, ReadSteps \/ RecoverySteps
    PROVE  AnswerOK'
<1>1. AnswerOK /\ 0 \in 0 .. MaxImages /\ owed \in BOOLEAN
  BY DEF TypeInv, TypeOK, CaptureTypeOK, ControlTypeOK, AnswerOK
<1>2. CASE ReadSteps
  BY <1>1, <1>2, AnswerTypes
     DEF ReadSteps, ReadCurrentPose, ReadIdentity, ReadCameraFrame, ReadCalibration,
         ReadPrecisionMaps, Reads, ReadEnds, Goto
<1>3. CASE RecoverySteps
  BY <1>1, <1>3, AnswerTypes
     DEF RecoverySteps, SampleRecovery, SampledRecovery, DecideRecovery, Goto
<1>. QED BY <1>2, <1>3

LEMMA TypeStep ==
    ASSUME TypeInv, [Next]_vars
    PROVE  TypeInv'
<1>1. load \in Loads /\ load.clients \subseteq Requests
  BY DEF TypeInv, TypeOK
<1>2. CASE Receive \/ Respond
  <2>1. AnswerOK'
    <3>1. answer' = NoAnswer /\ 0 \in 0 .. MaxImages
      BY <1>2 DEF Receive, Respond
    <3>. QED BY <3>1, Zenon DEF AnswerOK, NoAnswer
  <2>2. UNCHANGED <<disk, owner, captures, control>>
    BY <1>2 DEF Receive, Respond
  <2>3. /\ req' \in load.clients \union {NoRequest} /\ at' \in {"received", "idle"}
        /\ at' # "idle" => req' \in load.clients
    BY <1>2 DEF Receive, Respond
  <2>. QED BY <1>1, <2>1, <2>2, <2>3 DEF TypeInv, TypeOK, ProjectTypeOK, CaptureTypeOK,
          ControlTypeOK, AnswerOK, Served, Untagging
<1>3. CASE Handle \/ ReadSteps \/ RecoverySteps
  <2>1. /\ UNCHANGED <<disk, req, captures>> /\ owner' \in Owners /\ ControlTypeOK'
        /\ load' = load /\ at' \notin {"untag_saved", "untag_deleted"} /\ at # "idle"
    <3>1. CASE Handle
      BY <3>1, HandleTypes DEF TypeInv, TypeOK, CaptureTypeOK, ControlTypeOK
    <3>. QED BY <3>1, <1>3, ReadingTypes
  <2>2. AnswerOK'
    BY <1>3, HandleTypes, ReadAnswers
  <2>. QED BY <1>1, <2>1, <2>2 DEF TypeInv, TypeOK, ProjectTypeOK, CaptureTypeOK, AnswerOK,
          Served, Untagging
<1>4. CASE ProjectRequest
  <2>1. /\ ProjectTypeOK' /\ owner' \in Owners /\ UNCHANGED <<images, req, others>>
        /\ Untagging' /\ AnswerOK'
    BY <1>4, ProjectTypes, PointTypes, SubmitTypes, ProjectAnswers DEF ProjectRequest
  <2>2. at # "idle"
    BY <1>4, Busy
  <2>. QED BY <1>1, <2>1, <2>2 DEF TypeInv, TypeOK, CaptureTypeOK, ControlTypeOK, AnswerOK, Served
<1>5. CASE /\ UNCHANGED control
           /\ QrParent \/ CameraParent \/ QrChildSteps \/ CameraChildSteps
              \/ \E t \in Sessions : Monitor(t)
  <2>1. ProjectTypeOK' /\ SessionsOK' /\ req' = req /\ saved' <= images' /\ Untagging' /\ AnswerOK'
    BY <1>5, QrParentTypes, CameraParentTypes, QrChildTypes, CameraChildTypes, MonitorTypes,
       CaptureAnswers
  <2>2. at # "idle" \/ at' = at
    BY <1>5, CaptureBusy
  <2>3. CaptureTypeOK'
    BY <2>1 DEF SessionsOK, AnswerOK, CaptureTypeOK
  <2>4. ControlTypeOK' /\ load' = load
    BY <1>5 DEF TypeInv, TypeOK, ControlTypeOK
  <2>5. Served'
    BY <1>1, <2>1, <2>2 DEF TypeInv, Served
  <2>. QED BY <1>1, <2>1, <2>3, <2>4, <2>5 DEF TypeInv, TypeOK
<1>6. CASE ControlNext
  <2>1. ControlTypeOK' /\ owner' \in Owners /\ UNCHANGED other /\ load' = load
    BY <1>6, ControlTypes
  <2>. QED BY <1>1, <2>1 DEF TypeInv, TypeOK, ProjectTypeOK, CaptureTypeOK, Served, Untagging
<1>7. CASE UNCHANGED vars
  BY <1>7 DEF vars, TypeInv, TypeOK, ProjectTypeOK, CaptureTypeOK, ControlTypeOK, Served,
     Untagging
<1>. QED BY <1>2, <1>3, <1>4, <1>5, <1>6, <1>7 DEF Next, Serve, Children, Monitor

\* The variables keep their types, and only a request of the clients is served.
THEOREM TypeInvariant == Spec => []TypeInv
<1>. QED BY TypeInit, TypeStep, PTL DEF Spec

\* TypeOK: the values of all variables of the executor.
THEOREM TypeCorrect == Spec => []TypeOK
<1>1. TypeInv => TypeOK
  BY DEF TypeInv
<1>. QED BY <1>1, TypeInvariant, PTL
==============================================================================
