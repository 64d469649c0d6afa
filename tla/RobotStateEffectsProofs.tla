----------------------- MODULE RobotStateEffectsProofs -----------------------
(***************************************************************************)
(* Proofs about what the executor tells and changes in RobotStateRequests: *)
(* the images a capture stop reports, the recording that a submit declares *)
(* complete, the files a request may change, and the commands an arm gets; *)
(* about the bounds within which requests and captures end; and that the   *)
(* users of the robot implement GdkSession.                                *)
(***************************************************************************)
EXTENDS RobotStateTypesProofs, SequenceTheorems, FiniteSetTheorems, WellFoundedInduction

----------------------------------------------------------------------------
(* The recording                                                           *)

\* The tags of w are those of the targets there are.
Localised(w) ==
    /\ tags[w] # None
    /\ \A t \in Targets : (tags[w][t] = "current") <=> t \in targets

\* Where the request thread changes the points of a recording.
Recorder == {"untag_saved", "untag_deleted", "building", "localizing", "recording_written"}

\* An outdated tag is still to be removed by the request that outdated it.
Outdated ==
    \A w \in Waypoints, t \in Targets :
        tags[w] # None /\ tags[w][t] = "stale" =>
            /\ at \in {"untag_saved", "untag_deleted"}
            /\ w \in todo /\ t = req.target

\* A submit has localised the waypoints it has done with.
Submitting ==
    /\ at \in {"building", "localizing"} =>
          \A w \in Waypoints : scan[w] # None => w \in todo \/ Localised(w)
    /\ at = "localizing" => todo # {}
    /\ writing["thread"] # None /\ writing["thread"].status = "recorded" =>
          /\ at = "recording_written"
          /\ \A w \in Waypoints : scan[w] # None => Localised(w)

RecordInv == Outdated /\ Submitting

\* Steps that leave the points alone, and do not happen inside a change of them.
Apart ==
    /\ UNCHANGED <<targets, scan, tags, todo>>
    /\ \/ UNCHANGED <<at, req>>
       \/ at \notin Recorder /\ at' \notin Recorder
    /\ \/ UNCHANGED <<at, req>> /\ writing'["thread"] = writing["thread"]
       \/ writing'["thread"] = None
       \/ writing'["thread"].status # "recorded"

----------------------------------------------------------------------------
USE ProjectAssumption, NoneAssumption
    DEF disk, points, thread, captures, control, evidence, others, other, Sessions, Writers

LEMMA ApartStep ==
    ASSUME RecordInv, Apart
    PROVE  RecordInv'
  BY DEF RecordInv, Outdated, Submitting, Localised, Apart, Recorder

\* Who writes and from where, out of the lease invariant.
LEMMA WriterFree ==
    ASSUME LeaseInv
    PROVE  /\ at \notin {"written", "recording_written"} => writing["thread"] = None
           /\ DOMAIN writing = Writers
  BY DEF LeaseInv, Shapes, Writing

LEMMA CaptureApart ==
    ASSUME LeaseInv,
           QrParent \/ CameraParent \/ QrChildSteps \/ CameraChildSteps
             \/ \E s \in Sessions : Monitor(s)
    PROVE  Apart
<1> USE WriterFree, StopSteps DEF Apart, Recorder, Goto, Answer
<1>1. CASE QrParent
  BY <1>1 DEF QrParent, QrStart, QrCalibrate, QrSpawn, QrStarted, QrNotStarted, QrStop, QrJoin,
     QrStopAnswer, Stops, Joins, StopAnswers, Killed, DropWrite
<1>2. CASE CameraParent
  BY <1>2 DEF CameraParent, CameraStart, CameraStop, CameraJoin, CameraStopAnswer, Stops, Joins,
     StopAnswers, Killed
<1>3. CASE QrChildSteps
  BY <1>3 DEF QrChildSteps, QrChildConnects, QrChildWrites, QrChildOpensCamera, QrChildFails,
     QrChildSaves, QrChildRepeats, Repeated, QrChildStops, QrChildEnds, QrChildCrashes,
     Crashes, Killed, DropWrite, BeginCaptureManifest, BeginWrite, EndWrite
<1>4. CASE CameraChildSteps
  BY <1>4 DEF CameraChildSteps, CameraChildOpens, CameraChildShows, CameraChildRepeats, Repeated,
     CameraChildEnds, CameraChildCrashes, Crashes, Killed
<1>5. CASE \E s \in Sessions : Monitor(s)
  BY <1>5 DEF Monitor, QrMonitor, CameraMonitor, Releases, Forgets
<1>. QED BY <1>1, <1>2, <1>3, <1>4, <1>5

LEMMA ReadApart ==
    ASSUME LeaseInv, Receive \/ Respond \/ Handle \/ ReadSteps \/ RecoverySteps
    PROVE  Apart
<1> USE WriterFree DEF Apart, Recorder, Goto, Answer
<1>1. CASE Receive \/ Respond
  BY <1>1 DEF Receive, Respond
<1>2. CASE Handle
  <2>1. \A k : k \notin Recorder =>
            \A parsed : Handles(k, parsed) =>
                UNCHANGED <<disk, req>> /\ at = "received" /\ at' \notin Recorder
    BY DEF Handles
  <2>2. UNCHANGED <<disk, req>> /\ at = "received" /\ at' \notin Recorder
    BY <1>2, <2>1
       DEF Handle, HandlePoint, HandleQr, HandleCamera, HandleOther,
           HandleSaveTarget, HandleSaveInitial, HandleDeleteTarget, HandleDeleteInitial,
           HandleSubmit, HandleQrStart, HandleQrStop, HandleBuildMap,
           HandleDeleteMap, HandlePcdPreview, HandleProjectList, HandleProjectSnapshot,
           HandleProjectPath, HandleCameraStart, HandleCameraStop, HandleIdentity,
           HandleCalibration, HandleCameraFrame, HandleHighPrecisionMaps, HandleRecovery,
           HandleCurrentPose
  <2>. QED BY <2>2
<1>3. CASE ReadSteps
  BY <1>3 DEF ReadSteps, ReadCurrentPose, ReadIdentity, ReadCameraFrame, ReadCalibration,
     ReadPrecisionMaps, Reads, ReadEnds
<1>4. CASE RecoverySteps
  BY <1>4 DEF RecoverySteps, SampleRecovery, SampledRecovery, DecideRecovery
<1>. QED BY <1>1, <1>2, <1>3, <1>4

\* The manifests of a map are never those of a recording.
LEMMA BuildApart ==
    ASSUME LeaseInv, TypeInv, ProjectSteps \/ BuildSteps
    PROVE  Apart
<1> USE WriterFree DEF Apart, Recorder, Goto, Answer
<1>1. CASE ProjectSteps
  BY <1>1 DEF ProjectSteps, ProjectPath, ListProjects, ProjectSnapshot, PcdPreview, Tells
<1>2. CASE BuildMap \/ RunMappingSdk \/ DeleteMap \/ NoProjectDirectory
  BY <1>2 DEF BuildMap, RunMappingSdk, DeleteMap, NoProjectDirectory, Tells
<1>3. CASE BuiltManifest
  <2>1. writing'["thread"].status # "recorded"
    BY <1>3, ReadTypes DEF BuiltManifest, Writes, BeginBuildManifest, BeginWrite, Manifests
  <2>. QED BY <1>3, <2>1 DEF BuiltManifest, Writes
<1>4. CASE UnlinkedManifest
  <2>1. writing'["thread"].status # "recorded"
    BY <1>4, ReadTypes DEF UnlinkedManifest, Writes, BeginDeleteMapManifest, BeginWrite, Manifests
  <2>. QED BY <1>4, <2>1 DEF UnlinkedManifest, Writes
<1>. QED BY <1>1, <1>2, <1>3, <1>4 DEF BuildSteps

\* Saving and deleting a target: what it outdates is removed before its manifest.
LEMMA TargetRecord ==
    ASSUME RecordInv, LeaseInv, TypeInv, TargetSteps
    PROVE  RecordInv'
<1> USE WriterFree DEF Goto, Answer
<1>1. req.target \in Targets /\ tags \in [Waypoints -> TagFiles \union {None}]
  BY DEF TypeInv, TypeOK, Served, Requests, ProjectTypeOK, TargetSteps, SaveTargetRefused,
     SaveTargetSamples, SaveTargetSampled, SaveGraspPoint, SavedTargetManifest,
     DeleteTargetPoint, DeletedTargetManifest, RemoveFromWaypoint, Samples, Sampled, Tells,
     Writes
<1>2. CASE SaveTargetRefused \/ SaveTargetSamples \/ SaveTargetSampled
  <2>1. Apart
    BY <1>2 DEF SaveTargetRefused, SaveTargetSamples, SaveTargetSampled, Samples, Sampled, Tells,
       Apart, Recorder
  <2>. QED BY <2>1, ApartStep
<1>3. CASE SaveGraspPoint
  BY <1>1, <1>3 DEF SaveGraspPoint, SaveTarget, Tagged, TagFiles, RecordInv, Outdated, Submitting
<1>4. CASE DeleteTargetPoint
  BY <1>1, <1>4 DEF DeleteTargetPoint, RemoveTarget, Tagged, TagFiles, RecordInv, Outdated,
     Submitting
<1>5. CASE RemoveFromWaypoint
  <2>1. PICK w \in todo : RemoveTag(w, req.target)
    BY <1>5 DEF RemoveFromWaypoint
  <2>2. w \in Waypoints /\ tags[w] \in TagFiles
    BY <1>5, <2>1 DEF RemoveFromWaypoint, TypeInv, TypeOK, Served, Untagging, ProjectTypeOK
  <2>. QED BY <1>1, <1>5, <2>1, <2>2
     DEF RemoveFromWaypoint, RemoveTag, TagFiles, RecordInv, Outdated, Submitting
<1>6. CASE SavedTargetManifest
  <2>1. writing'["thread"].status # "recorded"
    BY <1>6, ReadTypes DEF SavedTargetManifest, Writes, BeginTargetManifest, BeginWrite, Manifests
  <2>. QED BY <1>6, <2>1 DEF SavedTargetManifest, Writes, RecordInv, Outdated, Submitting
<1>7. CASE DeletedTargetManifest
  <2>1. writing'["thread"].status # "recorded"
    BY <1>7, ReadTypes DEF DeletedTargetManifest, Writes, BeginDeleteTargetManifest, BeginWrite,
       Manifests, StatusAfterDelete
  <2>. QED BY <1>7, <2>1 DEF DeletedTargetManifest, Writes, RecordInv, Outdated, Submitting
<1>. QED BY <1>2, <1>3, <1>4, <1>5, <1>6, <1>7 DEF TargetSteps

\* A photo point that is recorded again or deleted has no tags.
LEMMA PhotoRecord ==
    ASSUME RecordInv, LeaseInv, TypeInv, PhotoSteps
    PROVE  RecordInv'
<1> USE WriterFree DEF Goto, Answer, RecordInv, Outdated, Submitting
<1>1. tags \in [Waypoints -> TagFiles \union {None}]
  BY DEF TypeInv, TypeOK, ProjectTypeOK
<1>2. CASE SaveInitialPhoto
  BY <1>1, <1>2 DEF SaveInitialPhoto, RemoveWaypoint
<1>3. CASE SaveInitialSamples \/ SaveInitialSampled
  BY <1>3 DEF SaveInitialSamples, SaveInitialSampled, Samples, Sampled
<1>4. CASE WriteScanFiles
  BY <1>1, <1>4 DEF WriteScanFiles, WriteScan
<1>5. CASE DeleteInitialPhoto
  BY <1>1, <1>5 DEF DeleteInitialPhoto, RemoveWaypoint
<1>6. CASE InitialManifest
  <2>1. writing'["thread"].status # "recorded"
    BY <1>6, ReadTypes DEF InitialManifest, Writes, BeginPhotoManifest, BeginWrite, Manifests
  <2>. QED BY <1>6, <2>1 DEF InitialManifest, Writes
<1>7. CASE DeletedInitialManifest
  <2>1. writing'["thread"].status # "recorded"
    BY <1>7, ReadTypes DEF DeletedInitialManifest, Writes, BeginDeletePhotoManifest, BeginWrite,
       Manifests, StatusAfterDelete
  <2>. QED BY <1>7, <2>1 DEF DeletedInitialManifest, Writes
<1>. QED BY <1>2, <1>3, <1>4, <1>5, <1>6, <1>7 DEF PhotoSteps

\* A submit takes one waypoint after the other and declares the recording at the end.
LEMMA SubmitRecord ==
    ASSUME RecordInv, LeaseInv, TypeInv, SubmitSteps \/ Written
    PROVE  RecordInv'
<1> USE WriterFree DEF Goto, Answer, RecordInv, Outdated, Submitting
<1>1. /\ tags \in [Waypoints -> TagFiles \union {None}]
      /\ targets \subseteq Targets /\ todo \subseteq Waypoints
  BY DEF TypeInv, TypeOK, ProjectTypeOK
<1>2. todo # {} => Current \in todo
  BY DEF Current
<1>3. CASE Submit
  BY <1>1, <1>3 DEF Submit
<1>4. CASE BuildWaypoint
  BY <1>1, <1>2, <1>4 DEF BuildWaypoint, ClearOutputs, Localised
<1>5. CASE RunLocalizeSdk
  BY <1>1, <1>2, <1>5 DEF RunLocalizeSdk, SdkLocalizes, Localised, TagFiles
<1>6. CASE SubmittedManifest
  BY <1>1, <1>6 DEF SubmittedManifest, Writes, BeginSubmitManifest, BeginWrite, Localised
<1>7. CASE Written
  BY <1>1, <1>7 DEF Written, EndWrite
<1>. QED BY <1>3, <1>4, <1>5, <1>6, <1>7 DEF SubmitSteps

LEMMA RecordStep ==
    ASSUME RecordInv, LeaseInv, TypeInv, [Next]_vars
    PROVE  RecordInv'
<1>1. CASE Receive \/ Handle \/ Respond \/ ReadSteps \/ RecoverySteps
  BY <1>1, ReadApart, ApartStep
<1>2. CASE ProjectRequest
  BY <1>2, BuildApart, ApartStep, TargetRecord, PhotoRecord, SubmitRecord DEF ProjectRequest
<1>3. CASE QrParent \/ CameraParent \/ QrChildSteps \/ CameraChildSteps
             \/ \E s \in Sessions : Monitor(s)
  BY <1>3, CaptureApart, ApartStep
<1>4. CASE ControlNext \/ UNCHANGED vars
  <2>1. UNCHANGED other
    BY <1>4, ControlTypes DEF vars
  <2>2. Apart
    BY <2>1 DEF Apart
  <2>. QED BY <2>2, ApartStep
<1>. QED BY <1>1, <1>2, <1>3, <1>4 DEF Next, Serve, Children

LEMMA RecordInit == Init => RecordInv
  BY DEF Init, ProjectInit, RecordInv, Outdated, Submitting

LEMMA RecordAlways == Spec => []RecordInv
<1>1. RecordInv /\ LeaseInv /\ TypeInv /\ [Next]_vars => RecordInv'
  BY RecordStep
<1>. QED BY <1>1, RecordInit, LeaseInvariant, TypeInvariant, PTL DEF Spec

\* RecordingConsistent: outdated tags live only inside the request that outdates them,
\* and submit_recording declares only what it has localised
\* (remove_target_from_initial_waypoints, submit_recording).
THEOREM RecordingComplete == Spec => []RecordingConsistent
<1>1. RecordInv => RecordingConsistent
  BY DEF RecordInv, Outdated, Submitting, Localised, RecordingConsistent
<1>. QED BY <1>1, RecordAlways, PTL

----------------------------------------------------------------------------
(* The answer to a stop                                                    *)

\* Where a stop of the QR capture may be.
AnyRequest == {"idle", "received", "respond", "qr_stop", "join_qr", "complete_qr"}

\* The child is gone before the answer is made, and a stop is answered nowhere else.
StopInv ==
    /\ at \notin AnyRequest => Handled(req) # "qr_stop"
    /\ at = "complete_qr" => ~Alive("qr")
    /\ summary # None => summary <= images
    /\ at = "respond" /\ Handled(req) = "qr_stop" /\ answer.ok =>
          ~Alive("qr") /\ answer.images = images

\* Steps that serve another request, or none.
Elsewhere ==
    /\ UNCHANGED <<images, summary, child, req>>
    /\ \/ UNCHANGED <<at, answer>>
       \/ at \notin AnyRequest /\ at' # "complete_qr"

LEMMA ElsewhereStep ==
    ASSUME StopInv, Elsewhere
    PROVE  StopInv'
  BY DEF StopInv, Elsewhere, AnyRequest, Alive

LEMMA ProjectElsewhere ==
    ASSUME ProjectRequest
    PROVE  Elsewhere
<1> USE DEF Elsewhere, AnyRequest, Goto, Answer
<1>1. CASE ProjectSteps \/ BuildSteps
  BY <1>1 DEF ProjectSteps, ProjectPath, ListProjects, ProjectSnapshot, PcdPreview, Tells,
     BuildSteps, BuildMap, RunMappingSdk, BuiltManifest, DeleteMap, UnlinkedManifest,
     NoProjectDirectory, Writes
<1>2. CASE TargetSteps
  BY <1>2 DEF TargetSteps, SaveTargetRefused, SaveTargetSamples, SaveTargetSampled,
     SaveGraspPoint, SavedTargetManifest, DeleteTargetPoint, DeletedTargetManifest,
     RemoveFromWaypoint, Samples, Sampled, Tells, Writes
<1>3. CASE PhotoSteps
  BY <1>3 DEF PhotoSteps, SaveInitialPhoto, SaveInitialSamples, SaveInitialSampled,
     WriteScanFiles, InitialManifest, DeleteInitialPhoto, DeletedInitialManifest, Samples,
     Sampled, Writes
<1>4. CASE SubmitSteps \/ Written
  BY <1>4 DEF SubmitSteps, Submit, BuildWaypoint, RunLocalizeSdk, SubmittedManifest, Writes,
     Written
<1>. QED BY <1>1, <1>2, <1>3, <1>4 DEF ProjectRequest

LEMMA ReadElsewhere ==
    ASSUME ReadSteps \/ RecoverySteps
    PROVE  Elsewhere
  BY DEF Elsewhere, AnyRequest, Goto, Answer, ReadSteps, ReadCurrentPose, ReadIdentity,
     ReadCameraFrame, ReadCalibration, ReadPrecisionMaps, Reads, ReadEnds, RecoverySteps,
     SampleRecovery, SampledRecovery, DecideRecovery

\* A handler answers with a refusal, or goes to the operation the message is about.
LEMMA HandleStop ==
    ASSUME StopInv, Receive \/ Respond \/ Handle
    PROVE  StopInv'
<1> USE DEF StopInv, AnyRequest, Alive
<1>1. CASE Receive \/ Respond
  BY <1>1 DEF Receive, Respond
<1>2. CASE Handle
  <2>1. \A k : k # "complete_qr" =>
            \A parsed : Handles(k, parsed) =>
                /\ UNCHANGED <<images, summary, child, req>>
                /\ \/ at' = Handled(req) /\ at' # "complete_qr"
                   \/ at' = "respond" /\ answer'.ok = FALSE
    BY DEF Handles, Goto, Answer
  <2>2. /\ UNCHANGED <<images, summary, child, req>>
        /\ \/ at' = Handled(req) /\ at' # "complete_qr"
           \/ at' = "respond" /\ answer'.ok = FALSE
    BY <1>2, <2>1
       DEF Handle, HandlePoint, HandleQr, HandleCamera, HandleOther,
           HandleSaveTarget, HandleSaveInitial, HandleDeleteTarget, HandleDeleteInitial,
           HandleSubmit, HandleQrStart, HandleQrStop, HandleBuildMap,
           HandleDeleteMap, HandlePcdPreview, HandleProjectList, HandleProjectSnapshot,
           HandleProjectPath, HandleCameraStart, HandleCameraStop, HandleIdentity,
           HandleCalibration, HandleCameraFrame, HandleHighPrecisionMaps, HandleRecovery,
           HandleCurrentPose
  <2>. QED BY <2>2
<1>. QED BY <1>1, <1>2

LEMMA ParentStop ==
    ASSUME StopInv, TypeInv, QrParent \/ CameraParent
    PROVE  StopInv'
<1> USE StopSteps DEF StopInv, AnyRequest, Alive, Goto, Child
<1>1. /\ images \in Nat /\ summary \in 0 .. MaxImages \union {None}
      /\ child \in [Sessions -> {"none", "starting", "manifest", "opening", "capturing",
                                 "closing", "closed", "failing", "gone"}]
  BY DEF TypeInv, TypeOK, ProjectTypeOK, CaptureTypeOK
<1>2. CASE QrStart \/ QrCalibrate \/ QrStarted \/ QrNotStarted
  BY <1>1, <1>2 DEF QrStart, QrCalibrate, QrStarted, QrNotStarted, Answer
<1>3. CASE QrSpawn
  BY <1>1, <1>3 DEF QrSpawn, Open, Answer
<1>4. CASE QrStop
  BY <1>4 DEF QrStop, Stops, Answer
<1>5. CASE QrJoin
  BY <1>1, <1>5 DEF QrJoin, Joins, Killed
<1>6. CASE QrStopAnswer
  <2>1. Reported = images
    BY <1>1 DEF Reported
  <2>. QED BY <1>6, <2>1 DEF QrStopAnswer, StopAnswers, Answer
<1>7. CASE CameraParent
  <2>1. child'["qr"] = child["qr"] /\ UNCHANGED <<images, summary, req>>
    BY <1>1, <1>7 DEF CameraParent, CameraStart, CameraStop, CameraJoin, CameraStopAnswer,
       Open, Stops, Joins, StopAnswers, Killed, Answer
  <2>2. at \notin AnyRequest /\ at' # "complete_qr"
    BY <1>7 DEF CameraParent, CameraStart, CameraStop, CameraJoin, CameraStopAnswer,
       Stops, Joins, StopAnswers, Answer
  <2>. QED BY <2>1, <2>2
<1>. QED BY <1>2, <1>3, <1>4, <1>5, <1>6, <1>7 DEF QrParent

\* A child that is gone saves nothing more; its summary never exceeds its images.
LEMMA ChildStop ==
    ASSUME StopInv, TypeInv, \/ QrChildSteps \/ CameraChildSteps
                             \/ \E s \in Sessions : Monitor(s)
    PROVE  StopInv'
<1> USE DEF StopInv, AnyRequest, Alive, Child
<1>1. /\ images \in Nat /\ summary \in 0 .. MaxImages \union {None} /\ saved <= images
      /\ child \in [Sessions -> {"none", "starting", "manifest", "opening", "capturing",
                                 "closing", "closed", "failing", "gone"}]
  BY DEF TypeInv, TypeOK, ProjectTypeOK, CaptureTypeOK, Served
<1>2. CASE QrChildSaves
  BY <1>1, <1>2 DEF QrChildSaves
<1>3. CASE QrChildEnds
  BY <1>1, <1>3 DEF QrChildEnds, QrChild
<1>4. CASE QrChildConnects \/ QrChildWrites \/ QrChildOpensCamera \/ QrChildFails
             \/ QrChildRepeats \/ QrChildStops \/ QrChildCrashes
  BY <1>1, <1>4 DEF QrChildConnects, QrChildWrites, QrChildOpensCamera, QrChildFails,
     QrChildRepeats, Repeated, QrChildStops, QrChildCrashes, Crashes, Killed, QrChild
<1>5. CASE CameraChildSteps \/ \E s \in Sessions : Monitor(s)
  <2>1. UNCHANGED <<images, summary, req, at, answer>>
    BY <1>5 DEF CameraChildSteps, CameraChildOpens, CameraChildShows, CameraChildRepeats,
       Repeated, CameraChildEnds, CameraChildCrashes, Crashes, Monitor, QrMonitor,
       CameraMonitor, Releases, Forgets
  <2>2. child'["qr"] = child["qr"] \/ child'["qr"] = "none"
    BY <1>1, <1>5 DEF CameraChildSteps, CameraChildOpens, CameraChildShows, CameraChildRepeats,
       Repeated, CameraChildEnds, CameraChildCrashes, Crashes, Killed, Monitor, QrMonitor,
       CameraMonitor, Releases, Forgets
  <2>. QED BY <2>1, <2>2
<1>. QED BY <1>2, <1>3, <1>4, <1>5 DEF QrChildSteps

LEMMA StopStep ==
    ASSUME StopInv, TypeInv, [Next]_vars
    PROVE  StopInv'
<1>1. CASE ControlNext \/ UNCHANGED vars
  <2>1. UNCHANGED other
    BY <1>1, ControlTypes DEF vars
  <2>2. Elsewhere
    BY <2>1 DEF Elsewhere
  <2>. QED BY <2>2, ElsewhereStep
<1>2. CASE Receive \/ Serve
  BY <1>2, HandleStop, ProjectElsewhere, ReadElsewhere, ElsewhereStep, ParentStop DEF Serve
<1>3. CASE Children \/ \E s \in Sessions : Monitor(s)
  BY <1>3, ChildStop DEF Children
<1>. QED BY <1>1, <1>2, <1>3 DEF Next

LEMMA StopInit == Init => StopInv
  BY DEF Init, ProjectInit, CaptureInit, StopInv, AnyRequest

\* StopTellsImages: the answer to a QR capture stop names the images in images/
\* (QrCaptureService.stop, reconcile_stop_result_with_filesystem).
THEOREM StopTells == Spec => []StopTellsImages
<1>1. StopInv => StopTellsImages
  BY DEF StopInv, StopTellsImages
<1>2. StopInv /\ TypeInv /\ [Next]_vars => StopInv'
  BY StopStep
<1>. QED BY <1>1, <1>2, StopInit, TypeInvariant, PTL DEF Spec

----------------------------------------------------------------------------
(* What a request may change                                               *)

\* The steps of the operations that change a file or the gate.
StepsOf(k) ==
    CASE k = "recovery"       -> {"recovery", "sampling", "recovery_again", "sampling_last",
                                  "decide"}
      [] k = "save_target"    -> {"save_target", "target_sampling", "target_sampled"}
      [] k = "delete_target"  -> {"delete_target"}
      [] k = "save_initial"   -> {"save_initial", "photo", "photo_sampling", "photo_sampled"}
      [] k = "delete_initial" -> {"delete_initial"}
      [] k = "build"          -> {"build", "mapping"}
      [] k = "delete_map"     -> {"delete_map"}

Changing == {"save_target", "delete_target", "save_initial", "delete_initial", "build",
             "delete_map"}

\* An operation is only where a message of its type, or an untyped one, leads.
AskedInv ==
    /\ \A k \in Changing : at \in StepsOf(k) => req.type \in {None, k}
    /\ at \in StepsOf("recovery") => req.type = "recovery"

\* A nonempty set of numbers has a least one.
LEMMA Least ==
    ASSUME NEW S \in SUBSET Nat, S # {}
    PROVE  \E n \in S : \A m \in S : n <= m
<1> DEFINE less == {p \in Nat \X Nat : p[1] < p[2]}
<1>1. IsWellFoundedOn(less, Nat)
  BY NatLessThanWellFounded DEF OpToRel
<1>2. PICK n \in S : \A m \in S : ~(<<m, n>> \in less)
  <2> HIDE DEF less
  <2>. QED BY <1>1, WFMin
<1>3. ASSUME NEW m \in S PROVE n <= m
  <2>1. <<m, n>> \in Nat \X Nat /\ <<m, n>>[1] = m /\ <<m, n>>[2] = n
    OBVIOUS
  <2>2. ~(m < n)
    BY <1>2, <2>1
  <2>. QED BY <2>2
<1>. QED BY <1>3

LEMMA Joined ==
    ASSUME NEW S, NEW s \in Seq(S), NEW t \in Seq(S)
    PROVE  s \o t \in Seq(S) /\ Len(s \o t) = Len(s) + Len(t)
  BY ConcatProperties, Zenon

\* The table of operations does not hold the recovery.
LEMMA TriedOps ==
    /\ DOMAIN Tried = 1 .. 19
    /\ \A n \in 1 .. 19 : Tried[n] # "recovery"
<1> DEFINE Ops == {"maps", "save_target", "save_initial", "delete_target", "delete_initial",
                   "submit", "qr_start", "qr_stop", "build", "delete_map", "pcd", "list",
                   "snapshot", "path", "camera_start", "camera_stop", "identity",
                   "calibration", "frame"}
<1> DEFINE First == <<"maps">>
<1>1. First \in Seq(Ops) /\ Len(First) = 1
  OBVIOUS
<1>2. PointOps \in Seq(Ops) /\ Len(PointOps) = 5
  BY DEF PointOps
<1>3. QrOps \in Seq(Ops) /\ Len(QrOps) = 8
  BY DEF QrOps
<1>4. CameraOps \in Seq(Ops) /\ Len(CameraOps) = 5
  BY DEF CameraOps
<1> DEFINE Second == First \o PointOps
           Third  == Second \o QrOps
           Fourth == Third \o CameraOps
<1> HIDE DEF Ops, First
<1>5. Second \in Seq(Ops) /\ Len(Second) = 6
  <2>1. Second \in Seq(Ops) /\ Len(Second) = Len(First) + Len(PointOps)
    BY <1>1, <1>2, Joined, Zenon
  <2>. QED BY <1>1, <1>2, <2>1
<1> HIDE DEF Second
<1>6. Third \in Seq(Ops) /\ Len(Third) = 14
  <2>1. Third \in Seq(Ops) /\ Len(Third) = Len(Second) + Len(QrOps)
    BY <1>3, <1>5, Joined, Zenon
  <2>. QED BY <1>3, <1>5, <2>1
<1> HIDE DEF Third
<1>7. Fourth \in Seq(Ops) /\ Len(Fourth) = 19
  <2>1. Fourth \in Seq(Ops) /\ Len(Fourth) = Len(Third) + Len(CameraOps)
    BY <1>4, <1>6, Joined, Zenon
  <2>. QED BY <1>4, <1>6, <2>1
<1> HIDE DEF Fourth
<1>8. Tried = Fourth
  BY DEF Tried, Fourth, Third, Second, First
<1>9. DOMAIN Tried = 1 .. 19 /\ \A n \in 1 .. 19 : Tried[n] \in Ops
  BY <1>7, <1>8, ElementOfSeq, LenProperties
<1>. QED BY <1>9 DEF Ops

\* Only the type of a message leads to the recovery.
LEMMA RecoveryByType ==
    ASSUME NEW r, Handled(r) = "recovery"
    PROVE  r.type = "recovery"
<1> SUFFICES ASSUME r.type # "recovery" PROVE FALSE
  OBVIOUS
<1> DEFINE matches == {n \in DOMAIN Tried : Tried[n] \in {r.type, r.topic}}
<1>1. matches # {} /\ matches \subseteq 1 .. 19
  BY TriedOps DEF Handled
<1>2. PICK n \in matches : \A m \in matches : n <= m
  <2> HIDE DEF matches
  <2>1. matches \in SUBSET Nat
    BY <1>1
  <2>. QED BY <1>1, <2>1, Least
<1>3. (CHOOSE i \in matches : \A m \in matches : i <= m) \in matches
  BY <1>2
<1>4. Handled(r) = Tried[CHOOSE i \in matches : \A m \in matches : i <= m]
  BY <1>1 DEF Handled
<1>. QED BY <1>1, <1>3, <1>4, TriedOps

\* The steps of the operations, as one set each.
LEMMA Places ==
    /\ StepsOf("recovery") = {"recovery", "sampling", "recovery_again", "sampling_last", "decide"}
    /\ StepsOf("save_target") = {"save_target", "target_sampling", "target_sampled"}
    /\ StepsOf("delete_target") = {"delete_target"}
    /\ StepsOf("save_initial") = {"save_initial", "photo", "photo_sampling", "photo_sampled"}
    /\ StepsOf("delete_initial") = {"delete_initial"}
    /\ StepsOf("build") = {"build", "mapping"}
    /\ StepsOf("delete_map") = {"delete_map"}
  BY DEF StepsOf

\* Steps of an operation that no message leads to.
Later == {"target_sampling", "target_sampled", "photo", "photo_sampling", "photo_sampled",
          "mapping", "sampling", "recovery_again", "sampling_last", "decide"}

\* Every handler that leads to an operation has parsed a message of its type.
LEMMA HandleAsked ==
    ASSUME AskedInv, Handle
    PROVE  AskedInv'
<1>1. ASSUME NEW k, NEW needed, Handles(k, Parses(req, k, needed)),
             k \notin Later
      PROVE  AskedInv'
  <2> USE Places DEF AskedInv, Changing, Later
  <2>1. req' = req /\ Handled(req) = k
    BY <1>1 DEF Handles, Goto, Answer
  <2>2. CASE at' = "respond"
    BY <2>2
  <2>3. CASE at' = k /\ req.type \in {None, k}
    <3>1. k = "recovery" => req.type = "recovery"
      BY <2>1, RecoveryByType
    <3>2. at' \in StepsOf("recovery") => k = "recovery"
      BY <1>1, <2>3
    <3>3. \A c \in Changing : at' \in StepsOf(c) => c = k
      BY <1>1, <2>3
    <3>. QED BY <2>1, <2>3, <3>1, <3>2, <3>3
  <2>. QED BY <1>1, <2>2, <2>3 DEF Handles, Parses, Goto, Answer
<1>2. ASSUME NEW k \in {"build", "delete_map", "pcd"},
             Handles(k, Parses(req, k, Project) /\ req.map # None)
      PROVE  AskedInv'
  <2> USE Places DEF AskedInv, Changing
  <2>1. req' = req /\ at' \in {"respond", k} /\ (at' = k => req.type \in {None, k})
    BY <1>2 DEF Handles, Parses, Goto, Answer
  <2>. QED BY <1>2, <2>1
<1>3. CASE HandlePoint
  BY <1>1, <1>3 DEF Later, HandlePoint, HandleSaveTarget, HandleSaveInitial, HandleDeleteTarget,
     HandleDeleteInitial, HandleSubmit, ParseSaveTarget, ParseSaveInitial, ParseDeleteTarget,
     ParseDeleteInitial, ParseSubmit
<1>4. CASE HandleQr
  BY <1>1, <1>2, <1>4 DEF Later, HandleQr, HandleQrStart, HandleQrStop, HandleBuildMap,
     HandleDeleteMap,
     HandlePcdPreview, HandleProjectList, HandleProjectSnapshot, HandleProjectPath,
     ParseQrStart, ParseQrStop, ParseBuildMap, ParseDeleteMap, ParsePcdPreview,
     ParseProjectList, ParseProjectSnapshot, ParseProjectPath
<1>5. CASE HandleCamera \/ HandleOther
  BY <1>1, <1>5 DEF Later, HandleCamera, HandleOther, HandleCameraStart, HandleCameraStop,
     HandleIdentity, HandleCalibration, HandleCameraFrame, HandleHighPrecisionMaps,
     HandleRecovery, HandleCurrentPose, ParseCameraStart, ParseCameraStop, ParseIdentity,
     ParseCalibration, ParseCameraFrame, ParseHighPrecisionMaps, ParseRecovery,
     ParseCurrentPose
<1>. QED BY <1>3, <1>4, <1>5 DEF Handle

LEMMA ServeAsked ==
    ASSUME AskedInv, ProjectRequest \/ ReadSteps \/ RecoverySteps
    PROVE  AskedInv'
<1> USE Places DEF AskedInv, Changing, Goto, Answer
<1>1. CASE ProjectSteps \/ BuildSteps
  BY <1>1 DEF ProjectSteps, ProjectPath, ListProjects, ProjectSnapshot, PcdPreview, Tells,
     BuildSteps, BuildMap, RunMappingSdk, BuiltManifest, DeleteMap, UnlinkedManifest,
     NoProjectDirectory, Writes
<1>2. CASE TargetSteps
  BY <1>2 DEF TargetSteps, SaveTargetRefused, SaveTargetSamples, SaveTargetSampled,
     SaveGraspPoint, SavedTargetManifest, DeleteTargetPoint, DeletedTargetManifest,
     RemoveFromWaypoint, Samples, Sampled, Tells, Writes
<1>3. CASE PhotoSteps
  BY <1>3 DEF PhotoSteps, SaveInitialPhoto, SaveInitialSamples, SaveInitialSampled,
     WriteScanFiles, InitialManifest, DeleteInitialPhoto, DeletedInitialManifest, Samples,
     Sampled, Writes
<1>4. CASE SubmitSteps \/ Written
  BY <1>4 DEF SubmitSteps, Submit, BuildWaypoint, RunLocalizeSdk, SubmittedManifest, Writes,
     Written
<1>5. CASE ReadSteps
  BY <1>5 DEF ReadSteps, ReadCurrentPose, ReadIdentity, ReadCameraFrame, ReadCalibration,
     ReadPrecisionMaps, Reads, ReadEnds
<1>6. CASE RecoverySteps
  BY <1>6 DEF RecoverySteps, SampleRecovery, SampledRecovery, DecideRecovery
<1>. QED BY <1>1, <1>2, <1>3, <1>4, <1>5, <1>6 DEF ProjectRequest

LEMMA CaptureAsked ==
    ASSUME AskedInv, \/ QrParent \/ CameraParent \/ QrChildSteps \/ CameraChildSteps
                     \/ \E s \in Sessions : Monitor(s)
    PROVE  AskedInv'
<1> USE Places, StopSteps DEF AskedInv, Changing, Goto, Answer
<1>1. CASE QrParent \/ CameraParent
  BY <1>1 DEF QrParent, QrStart, QrCalibrate, QrSpawn, QrStarted, QrNotStarted, QrStop, QrJoin,
     QrStopAnswer, CameraParent, CameraStart, CameraStop, CameraJoin, CameraStopAnswer, Stops,
     Joins, StopAnswers
<1>2. CASE QrChildSteps \/ CameraChildSteps \/ \E s \in Sessions : Monitor(s)
  BY <1>2 DEF QrChildSteps, CameraChildSteps, Monitor, QrMonitor, CameraMonitor, Releases,
     Forgets, QrChildConnects, QrChildWrites, QrChildOpensCamera, QrChildFails, QrChildSaves,
     QrChildRepeats, Repeated, QrChildStops, QrChildEnds, QrChildCrashes, Crashes,
     CameraChildOpens, CameraChildShows, CameraChildRepeats, CameraChildEnds,
     CameraChildCrashes
<1>. QED BY <1>1, <1>2

LEMMA AskedStep ==
    ASSUME AskedInv, TypeInv, [Next]_vars
    PROVE  AskedInv'
<1>1. CASE Receive \/ Respond
  BY <1>1, Places DEF AskedInv, Changing, Receive, Respond
<1>2. CASE Handle \/ ProjectRequest \/ ReadSteps \/ RecoverySteps
  BY <1>2, HandleAsked, ServeAsked
<1>3. CASE QrParent \/ CameraParent \/ QrChildSteps \/ CameraChildSteps
             \/ \E s \in Sessions : Monitor(s)
  BY <1>3, CaptureAsked
<1>4. CASE ControlNext \/ UNCHANGED vars
  <2>1. UNCHANGED thread
    BY <1>4, ControlTypes DEF vars
  <2>. QED BY <2>1, Places DEF AskedInv, Changing
<1>. QED BY <1>1, <1>2, <1>3, <1>4 DEF Next, Serve, Children

LEMMA AskedInit == Init => AskedInv
  BY Places DEF Init, AskedInv, Changing

\* The action of ChangesOnlyAsked, part by part.
Asked ==
    /\ owed /\ ~owed' => req.type = "recovery"
    /\ ~(targets' \subseteq targets) => req.type \in {None, "save_target"}
    /\ ~(targets \subseteq targets') => req.type \in {None, "delete_target"}
    /\ scan' # scan => req.type \in {None, "save_initial", "delete_initial"}
    /\ ~(Built' \subseteq Built) => req.type \in {None, "build"}
    /\ ~(Built \subseteq Built') => req.type \in {None, "delete_map"}

LEMMA KeepAsked ==
    ASSUME UNCHANGED <<targets, scan, maps>>, owed => owed'
    PROVE  Asked
  BY DEF Asked, Built

LEMMA RecorderAsked ==
    ASSUME AskedInv, TargetSteps \/ PhotoSteps \/ SubmitSteps \/ Written
    PROVE  Asked
<1> USE Places DEF AskedInv, Changing
<1>1. CASE SaveGraspPoint
  BY <1>1 DEF SaveGraspPoint, SaveTarget, Asked, Built
<1>2. CASE DeleteTargetPoint
  BY <1>2 DEF DeleteTargetPoint, RemoveTarget, Asked, Built
<1>3. CASE SaveInitialPhoto \/ WriteScanFiles \/ DeleteInitialPhoto
  <2>1. UNCHANGED <<targets, maps, owed>>
    BY <1>3 DEF SaveInitialPhoto, WriteScanFiles, DeleteInitialPhoto
  <2>2. req.type \in {None, "save_initial", "delete_initial"}
    BY <1>3 DEF SaveInitialPhoto, WriteScanFiles, DeleteInitialPhoto
  <2>. QED BY <2>1, <2>2 DEF Asked, Built
<1>4. CASE \/ SaveTargetRefused \/ SaveTargetSamples \/ SaveTargetSampled
           \/ SavedTargetManifest \/ DeletedTargetManifest \/ RemoveFromWaypoint
           \/ SaveInitialSamples \/ SaveInitialSampled \/ InitialManifest
           \/ DeletedInitialManifest \/ SubmitSteps \/ Written
  <2>1. UNCHANGED <<targets, scan, maps, owed>>
    BY <1>4 DEF SaveTargetRefused, SaveTargetSamples, SaveTargetSampled,
       SavedTargetManifest, DeletedTargetManifest, RemoveFromWaypoint, SaveInitialSamples,
       SaveInitialSampled, InitialManifest, DeletedInitialManifest, SubmitSteps, Submit,
       BuildWaypoint, RunLocalizeSdk, SubmittedManifest, Written, Samples, Sampled, Tells,
       Writes
  <2>. QED BY <2>1, KeepAsked
<1>. QED BY <1>1, <1>2, <1>3, <1>4 DEF TargetSteps, PhotoSteps

LEMMA BuilderAsked ==
    ASSUME AskedInv, TypeInv, ProjectSteps \/ BuildSteps
    PROVE  Asked
<1> USE Places DEF AskedInv, Changing
<1>1. maps \in [Maps -> {"none", "leftover", "built"}]
  BY DEF TypeInv, TypeOK, ProjectTypeOK
<1>2. CASE BuildMap
  BY <1>1, <1>2 DEF BuildMap, MayBuild, WriteIntrinsics, Asked, Built
<1>3. CASE RunMappingSdk
  <2>1. targets' = targets /\ scan' = scan /\ owed' = owed /\ req.type \in {None, "build"}
    BY <1>3 DEF RunMappingSdk
  <2>2. maps' = maps \/ maps' = [maps EXCEPT ![req.map] = "built"]
    BY <1>3 DEF RunMappingSdk, SdkBuilds
  <2>3. Built \subseteq Built'
    BY <1>1, <2>2 DEF Built
  <2>. QED BY <2>1, <2>3 DEF Asked
<1>4. CASE DeleteMap
  <2>1. targets' = targets /\ scan' = scan /\ owed' = owed /\ req.type \in {None, "delete_map"}
    BY <1>4 DEF DeleteMap
  <2>2. maps' = maps \/ maps' = [maps EXCEPT ![req.map] = "none"]
    BY <1>4 DEF DeleteMap, UnlinkMap
  <2>3. Built' \subseteq Built
    BY <1>1, <2>2 DEF Built
  <2>. QED BY <2>1, <2>3 DEF Asked
<1>5. CASE ProjectSteps \/ BuiltManifest \/ UnlinkedManifest \/ NoProjectDirectory
  BY <1>5, KeepAsked DEF ProjectSteps, ProjectPath, ListProjects, ProjectSnapshot, PcdPreview,
     BuiltManifest, UnlinkedManifest, NoProjectDirectory, Tells, Writes
<1>. QED BY <1>2, <1>3, <1>4, <1>5 DEF BuildSteps

\* Nobody but a confirmation opens the gate: a command can only close it.
LEMMA ControlAsked ==
    ASSUME TypeInv, ControlNext
    PROVE  Asked
<1>1. UNCHANGED other
  BY ControlTypes
<1>2. owed => owed'
  BY DEF ControlNext, BeginFlow, EndFlow, NodeRefused, NodeSteps, AssignSkill,
     ForceControlSkill, MotionPlanSkill, EndEffectorSkill, ScriptSkill, RunCodeScript,
     QrPoseSkill, Run, GateSteps, MotionGate, EndEffectorGate, ScriptGate, Gate, Acquire,
     WorkerSteps, NotReady, RunAbsJoint, PlanAbsPose, RunEndEffector, RunScript, PoseStep,
     GripperStep, ServoStep, ServoDone, Interrupted, Finish, LocateSteps, LocateReads,
     ReturnToInitialPhoto, LocateSamples, LocateSampled, LocateAnswers
<1>. QED BY <1>1, <1>2, KeepAsked

LEMMA NextAsked ==
    ASSUME AskedInv, TypeInv, [Next]_vars
    PROVE  Asked
<1>1. CASE Receive \/ Respond \/ ReadSteps
  <2>1. UNCHANGED <<targets, scan, maps, owed>>
    BY <1>1 DEF Receive, Respond, ReadSteps, ReadCurrentPose, ReadIdentity, ReadCameraFrame,
       ReadCalibration, ReadPrecisionMaps, Reads, ReadEnds
  <2>. QED BY <2>1, KeepAsked
<1>2. CASE Handle
  BY <1>2, HandleTypes, KeepAsked
<1>3. CASE RecoverySteps
  <2>1. CASE DecideRecovery
    BY <2>1, Places DEF DecideRecovery, AskedInv, Asked, Built
  <2>2. CASE SampleRecovery \/ SampledRecovery
    <3>1. UNCHANGED <<targets, scan, maps, owed>>
      BY <2>2 DEF SampleRecovery, SampledRecovery
    <3>. QED BY <3>1, KeepAsked
  <2>. QED BY <1>3, <2>1, <2>2 DEF RecoverySteps
<1>4. CASE ProjectRequest
  BY <1>4, RecorderAsked, BuilderAsked DEF ProjectRequest
<1>5. CASE (QrParent \/ CameraParent) /\ UNCHANGED control
  <2>1. UNCHANGED <<targets, scan, maps>>
    BY <1>5 DEF QrParent, QrStart, QrCalibrate, QrSpawn, QrStarted, QrNotStarted, QrStop,
       QrJoin, QrStopAnswer, CameraParent, CameraStart, CameraStop, CameraJoin,
       CameraStopAnswer, Stops, Joins, StopAnswers
  <2>. QED BY <1>5, <2>1, KeepAsked
<1>6. CASE Children \/ \E s \in Sessions : Monitor(s)
  <2>1. UNCHANGED <<targets, scan, maps>> /\ UNCHANGED control
    BY <1>6 DEF Children, QrChildSteps, CameraChildSteps, Monitor, QrMonitor, CameraMonitor,
       Releases, Forgets, QrChildConnects, QrChildWrites, QrChildOpensCamera, QrChildFails,
       QrChildSaves, QrChildRepeats, Repeated, QrChildStops, QrChildEnds, QrChildCrashes,
       Crashes, CameraChildOpens, CameraChildShows, CameraChildRepeats, CameraChildEnds,
       CameraChildCrashes
  <2>. QED BY <2>1, KeepAsked
<1>7. CASE ControlNext
  BY <1>7, ControlAsked
<1>8. CASE UNCHANGED vars
  BY <1>8, KeepAsked DEF vars
<1>. QED BY <1>1, <1>2, <1>3, <1>4, <1>5, <1>6, <1>7, <1>8 DEF Next, Serve

\* ChangesOnlyAsked: a message changes only what its type asks for, whatever the topic
\* (handle_robot_state_request and the parsers of robot_state_models.py).
THEOREM OnlyAsked == Spec => ChangesOnlyAsked
<1>1. AskedInv /\ TypeInv /\ [Next]_vars => AskedInv'
  BY AskedStep
<1>2. AskedInv /\ TypeInv /\ [Next]_vars => [Asked]_vars
  BY NextAsked
<1>3. Spec => [][Asked]_vars
  BY <1>1, <1>2, AskedInit, TypeInvariant, PTL DEF Spec
<1>. QED BY <1>3 DEF Asked, ChangesOnlyAsked

----------------------------------------------------------------------------
(* The commands an arm gets                                                *)

\* A trajectory under way keeps the speed and the time it was planned with.
ArmInv ==
    ctl = "servo" /\ skill.kind = "pose" =>
        /\ plan.dist <= plan.moves * MaxStep /\ plan.rot <= plan.moves
        /\ plan.moves + plan.hold <= Budget
        /\ plan.sent <= plan.moves + plan.hold

\* What a flow remembers of its ABS_POSEs: an arm they moved has a result in the variable
\* store, lost it to another node, or is still being moved.
PosedInv ==
    /\ mixed \subseteq lost
    /\ ctl # "idle" =>
          posed \subseteq used \union lost \union
             (IF ctl \in {"servo", "finish"} /\ skill.kind = "pose" THEN skill.arms ELSE {})

\* The steps of at most m that cover n.
LEMMA Covers ==
    ASSUME NEW n \in Nat, NEW m \in Nat \ {0}
    PROVE  CeilDiv(n, m) \in Nat /\ n <= CeilDiv(n, m) * m
<1> DEFINE q == (n + m - 1) \div m
<1>1. q \in Nat /\ n + m - 1 < m * (q + 1)
  OBVIOUS
<1>2. m * (q + 1) = q * m + m
  BY <1>1
<1>. QED BY <1>1, <1>2 DEF CeilDiv

\* More steps cover as much.
LEMMA MoreCovers ==
    ASSUME NEW a \in Nat, NEW b \in Nat, NEW m \in Nat, a <= b
    PROVE  a * m <= b * m
  OBVIOUS

LEMMA PosePlanFits ==
    ASSUME NEW d \in Nat, NEW r \in Nat, FitsBudget(PosePlan(d, r))
    PROVE  LET p == PosePlan(d, r) IN
           /\ p.dist <= p.moves * MaxStep /\ p.rot <= p.moves
           /\ p.moves + p.hold <= Budget /\ p.sent <= p.moves + p.hold
<1> DEFINE c == CeilDiv(d, MaxStep)
           moves == Larger(1, Larger(c, r))
<1>1. c \in Nat /\ d <= c * MaxStep
  BY Covers, ControlAssumption
<1>2. moves \in Nat /\ c <= moves /\ r <= moves
  BY <1>1 DEF Larger
<1>3. d <= moves * MaxStep
  <2> HIDE DEF c, moves
  <2>1. c * MaxStep <= moves * MaxStep
    BY <1>1, <1>2, MoreCovers, ControlAssumption
  <2>2. c * MaxStep \in Nat /\ moves * MaxStep \in Nat
    BY <1>1, <1>2, ControlAssumption
  <2>. QED BY <1>1, <2>1, <2>2
<1>4. PosePlan(d, r) = [dist |-> d, rot |-> r, hold |-> Hold, sent |-> 0, moves |-> moves]
  BY DEF PosePlan
<1> HIDE DEF moves
<1>5. moves + Hold <= Budget /\ 0 <= moves + Hold
  BY <1>2, <1>4, ControlAssumption DEF FitsBudget
<1>. QED BY <1>2, <1>3, <1>4, <1>5

\* What the control thread keeps of the arms.
arms == <<ctl, skill, plan, evidence>>

\* A request or a capture changes none of it.
LEMMA ArmsKept ==
    ASSUME TypeInv, Receive \/ Serve \/ Children \/ \E s \in Sessions : Monitor(s)
    PROVE  UNCHANGED arms
<1> USE DEF arms
<1>1. CASE Children \/ \E s \in Sessions : Monitor(s)
  BY <1>1 DEF Children, Monitor
<1>2. CASE Receive \/ Respond \/ ReadSteps
  BY <1>2 DEF Receive, Respond, ReadSteps, ReadCurrentPose, ReadIdentity, ReadCameraFrame,
     ReadCalibration, ReadPrecisionMaps, Reads, ReadEnds
<1>3. CASE RecoverySteps
  BY <1>3 DEF RecoverySteps, SampleRecovery, SampledRecovery, DecideRecovery
<1>4. CASE Handle \/ ProjectRequest
  BY <1>4, HandleTypes, ProjectTypes, PointTypes, SubmitTypes DEF ProjectRequest
<1>5. CASE (QrParent \/ CameraParent) /\ UNCHANGED control
  BY <1>5
<1>. QED BY <1>1, <1>2, <1>3, <1>4, <1>5 DEF Serve

\* Only a plan begins a trajectory, and only its points move it on.
LEMMA ArmStep ==
    ASSUME ArmInv, TypeInv, [Next]_vars
    PROVE  ArmInv'
<1>1. CASE UNCHANGED arms
  BY <1>1 DEF ArmInv, arms
<1>2. CASE PlanAbsPose
  <2>1. PICK d \in Distances, r \in Rotations :
            \/ ctl' = "finish"
            \/ FitsBudget(PosePlan(d, r)) /\ plan' = PosePlan(d, r)
    BY <1>2 DEF PlanAbsPose, Done, Step
  <2>2. d \in Nat /\ r \in Nat
    BY ControlAssumption
  <2>. QED BY <2>1, <2>2, PosePlanFits DEF ArmInv
<1>3. CASE PoseStep \/ GripperStep
  <2>1. skill' = skill /\ ctl = "servo" /\ plan' = [plan EXCEPT !.sent = plan.sent + 1]
    BY <1>3 DEF PoseStep, GripperStep, ServoStep
  <2>2. plan \in [dist : Nat, rot : Nat, moves : Nat, hold : Nat, sent : Nat]
    BY DEF TypeInv, TypeOK, ControlTypeOK
  <2>3. plan.sent + 1 <= plan.moves + plan.hold
    BY <1>3, <2>2 DEF PoseStep, GripperStep, ServoStep
  <2>4. /\ plan'.dist = plan.dist /\ plan'.rot = plan.rot /\ plan'.moves = plan.moves
        /\ plan'.hold = plan.hold /\ plan'.sent = plan.sent + 1
    BY <2>1, <2>2
  <2>. QED BY <2>1, <2>3, <2>4 DEF ArmInv
<1>4. CASE RunEndEffector
  <2>1. skill' = skill /\ skill.kind = "gripper"
    BY <1>4 DEF RunEndEffector
  <2>. QED BY <2>1 DEF ArmInv
<1>5. CASE \/ BeginFlow \/ EndFlow \/ NodeRefused \/ NodeSteps \/ GateSteps \/ LocateSteps
           \/ NotReady \/ RunAbsJoint \/ RunScript \/ ServoDone \/ Interrupted \/ Finish
  <2>1. ctl' # "servo"
    BY <1>5 DEF BeginFlow, EndFlow, NodeRefused, NodeSteps, AssignSkill, ForceControlSkill,
       MotionPlanSkill, EndEffectorSkill, ScriptSkill, RunCodeScript, QrPoseSkill, Run,
       GateSteps, MotionGate, EndEffectorGate, ScriptGate, Gate, Acquire, NotReady, RunAbsJoint,
       RunScript, ServoDone, Interrupted, Finish, LocateSteps, LocateReads,
       ReturnToInitialPhoto, LocateSamples, LocateSampled, LocateAnswers, Step, Fails, Done
  <2>. QED BY <2>1 DEF ArmInv
<1>. QED BY <1>1, <1>2, <1>3, <1>4, <1>5, ArmsKept DEF Next, ControlNext, WorkerSteps, vars, arms

\* The end of a node keeps what the flow knows of its arms, or records its loss.
LEMMA WritesKeep ==
    ASSUME NEW moved, WritesNode(moved), posed \subseteq used \union lost \union moved
    PROVE  /\ posed' \subseteq used' \union lost' /\ lost \subseteq lost'
           /\ mixed' = mixed
  BY DEF WritesNode

\* A node that is not an ABS_POSE under way leaves nothing unrecorded.
LEMMA PosedWrites ==
    ASSUME PosedInv, ctl \notin {"idle", "servo", "finish"}, WritesNode({})
    PROVE  PosedInv'
  BY WritesKeep DEF PosedInv

\* The steps up to the worker, and those of a localisation.
LEMMA PosedOutside ==
    ASSUME PosedInv, NodeRefused \/ EndFlow \/ NodeSteps \/ GateSteps \/ LocateSteps
    PROVE  PosedInv'
<1>1. ctl \notin {"idle", "servo", "finish"}
  BY DEF EndFlow, NodeRefused, NodeSteps, AssignSkill, ForceControlSkill, MotionPlanSkill,
     EndEffectorSkill, ScriptSkill, RunCodeScript, QrPoseSkill, Run, GateSteps, MotionGate,
     EndEffectorGate, ScriptGate, Gate, Acquire, LocateSteps, LocateReads,
     ReturnToInitialPhoto, LocateSamples, LocateSampled, LocateAnswers
<1>2. CASE UNCHANGED evidence
  BY <1>1, <1>2 DEF PosedInv
<1>3. CASE WritesNode({})
  BY <1>1, <1>3, PosedWrites
<1>4. UNCHANGED evidence \/ WritesNode({})
  BY DEF EndFlow, NodeRefused, NodeSteps, AssignSkill, ForceControlSkill, MotionPlanSkill,
     EndEffectorSkill, ScriptSkill, RunCodeScript, QrPoseSkill, Run, GateSteps, MotionGate,
     EndEffectorGate, ScriptGate, Gate, Acquire, LocateSteps, LocateReads,
     ReturnToInitialPhoto, LocateSamples, LocateSampled, LocateAnswers
<1>. QED BY <1>2, <1>3, <1>4

LEMMA PosedFinish ==
    ASSUME PosedInv, Finish
    PROVE  PosedInv'
<1> DEFINE moved == IF skill.kind = "pose" THEN skill.arms ELSE {}
<1>1. posed \subseteq used \union lost \union moved /\ mixed \subseteq lost
  BY DEF PosedInv, Finish
<1>2. CASE ctl' = "idle" /\ UNCHANGED evidence
  BY <1>1, <1>2 DEF PosedInv
<1>3. CASE skill.kind = "locate" /\ UNCHANGED <<skill, evidence>>
  BY <1>1, <1>3 DEF PosedInv
<1>4. CASE WritesNode(moved)
  <2> HIDE DEF moved
  <2>. QED BY <1>1, <1>4, WritesKeep DEF PosedInv
<1>. QED BY <1>2, <1>3, <1>4 DEF Finish, Fails

\* An end effector node that finds no result of an ABS_POSE for its arms.
LEMMA PosedGripper ==
    ASSUME PosedInv, RunEndEffector
    PROVE  PosedInv'
<1>1. posed \subseteq used \union lost /\ mixed \subseteq lost
  BY DEF PosedInv, RunEndEffector
<1>2. UNCHANGED <<used, posed, lost>>
  BY DEF RunEndEffector
<1>3. \/ mixed' = mixed
      \/ mixed' = mixed \union (skill.arms \intersect posed) /\ skill.arms \intersect used = {}
  BY DEF RunEndEffector, PreferServo
<1>4. mixed' \subseteq lost
  BY <1>1, <1>3
<1>. QED BY <1>1, <1>2, <1>4 DEF PosedInv

LEMMA PosedStep ==
    ASSUME PosedInv, TypeInv, [Next]_vars
    PROVE  PosedInv'
<1>1. CASE UNCHANGED arms
  BY <1>1 DEF PosedInv, arms
<1>2. CASE BeginFlow
  BY <1>2 DEF BeginFlow, PosedInv
<1>3. CASE EndFlow \/ NodeRefused \/ NodeSteps \/ GateSteps \/ LocateSteps
  BY <1>3, PosedOutside
<1>4. CASE NotReady \/ RunAbsJoint \/ PlanAbsPose \/ RunScript \/ ServoDone \/ Interrupted
  <2>1. UNCHANGED <<skill, evidence>> /\ ctl \in {"run", "servo"} /\ ctl' \in {"servo", "finish"}
    BY <1>4 DEF NotReady, RunAbsJoint, PlanAbsPose, RunScript, ServoDone, Interrupted, Done, Step
  <2>. QED BY <2>1 DEF PosedInv
<1>5. CASE PoseStep
  BY <1>5 DEF PoseStep, ServoStep, Done, Step, PosedInv
<1>6. CASE GripperStep
  BY <1>6 DEF GripperStep, ServoStep, PosedInv
<1>7. CASE RunEndEffector
  BY <1>7, PosedGripper
<1>8. CASE Finish
  BY <1>8, PosedFinish
<1>. QED BY <1>1, <1>2, <1>3, <1>4, <1>5, <1>6, <1>7, <1>8, ArmsKept
    DEF Next, ControlNext, WorkerSteps, vars, arms

LEMMA ArmInit == Init => ArmInv /\ PosedInv
  BY DEF Init, ControlInit, ArmInv, PosedInv

\* The timeout covers the cycles that were planned, hence those that were sent.
LEMMA ArmsEntail ==
    ASSUME ArmInv, PosedInv, TypeInv
    PROVE  ArmCommands
<1>1. /\ plan \in [dist : Nat, rot : Nat, moves : Nat, hold : Nat, sent : Nat]
      /\ Budget \in Nat
  BY ControlAssumption DEF TypeInv, TypeOK, ControlTypeOK
<1>2. ASSUME ctl = "servo", skill.kind = "pose"
      PROVE  plan.sent <= Budget
  <2>1. plan.sent <= plan.moves + plan.hold /\ plan.moves + plan.hold <= Budget
    BY <1>2 DEF ArmInv
  <2>. QED BY <1>1, <2>1
<1>. QED BY <1>2 DEF ArmInv, PosedInv, ArmCommands

\* ArmCommands: an end effector node sends move_ee_pos to an arm that an ABS_POSE moved
\* only when the result of the ABS_POSE was overwritten (should_prefer_servo_end_effector_path,
\* write_node_variables), and a trajectory keeps the speed and the timeout it was given
\* (build_abs_pose_trajectory_plan, ensure_abs_pose_timeout_budget).
THEOREM ArmsCommanded == Spec => []ArmCommands
<1>1. ArmInv /\ TypeInv /\ [Next]_vars => ArmInv'
  BY ArmStep
<1>2. PosedInv /\ TypeInv /\ [Next]_vars => PosedInv'
  BY PosedStep
<1>3. ArmInv /\ PosedInv /\ TypeInv => ArmCommands
  BY ArmsEntail
<1>. QED BY <1>1, <1>2, <1>3, ArmInit, TypeInvariant, PTL DEF Spec

----------------------------------------------------------------------------
(* Why every request is answered: each step of the thread that serves it    *)
(* brings the answer nearer, and no other thread, child or monitor moves    *)
(* it.  The rounds of its loops are counted by the waypoints that are left. *)

\* The steps of the thread until it is idle again.
StepsLeft(p) ==
    CASE p = "idle" -> 0
      [] p = "respond" -> 1
      [] p \in {"written", "recording_written", "reading", "decide", "ready", "complete_qr",
                "complete_camera", "camera_start", "path", "list", "snapshot", "pcd"} -> 2
      [] p \in {"built", "unlinked", "photo_written", "photo_deleted", "sampling_last", "spawn",
                "join_qr", "join_camera", "pose", "identity", "frame", "calibration",
                "maps"} -> 3
      [] p \in {"mapping", "delete_map", "photo_sampled", "delete_initial", "recovery_again",
                "calibrate", "qr_stop", "camera_stop"} -> 4
      [] p \in {"build", "photo_sampling", "sampling", "qr_start"} -> 5
      [] p \in {"photo", "recovery"} -> 6
      [] p = "save_initial" -> 7
      \* and the rounds of a loop besides
      [] p = "localizing" -> 2
      [] p \in {"untag_saved", "untag_deleted", "building"} -> 3
      [] p \in {"target_sampled", "delete_target", "submit"} -> 4
      [] p = "target_sampling" -> 5
      [] p = "save_target" -> 6
      [] p = "received" -> 8
      [] OTHER -> 0

InLoop     == {"localizing", "untag_saved", "untag_deleted", "building"}
BeforeLoop == {"target_sampled", "delete_target", "submit", "target_sampling", "save_target",
               "received"}

\* Two steps a round, of the rounds that are left or of as many as there can be.
Rounds == IF at \in InLoop THEN 2 * Cardinality(todo)
          ELSE IF at \in BeforeLoop THEN 2 * Cardinality(Waypoints)
          ELSE 0

RequestLeft == StepsLeft(at) + Rounds

\* handle_robot_state_request comes to its response: a request is answered in at most
\* 8 steps and two for every waypoint.
AnswerComes ==
    [][/\ RequestLeft' \in 0 .. 8 + 2 * Cardinality(Waypoints)
       /\ Serve => RequestLeft' < RequestLeft
       /\ ~Serve /\ at # "idle" => RequestLeft' = RequestLeft]_vars

LEMMA SizesAreNat ==
    ASSUME TypeInv
    PROVE  /\ Cardinality(Waypoints) \in Nat /\ Cardinality(todo) \in Nat
           /\ Cardinality(todo) <= Cardinality(Waypoints) /\ IsFiniteSet(todo)
<1>1. IsFiniteSet(Waypoints) /\ todo \in SUBSET Waypoints
  BY WaypointsAssumption DEF TypeInv, TypeOK, ProjectTypeOK
<1>. QED BY <1>1, FS_Subset, FS_CardinalityType

LEMMA StepsAreFew ==
    ASSUME NEW p
    PROVE  StepsLeft(p) \in 0 .. 8 /\ (p \in InLoop => StepsLeft(p) \in 2 .. 3)
  BY DEF StepsLeft, InLoop

LEMMA LeftIsNat ==
    ASSUME TypeInv
    PROVE  RequestLeft \in 0 .. 8 + 2 * Cardinality(Waypoints)
<1>1. \A m, n \in Nat, k \in 0 .. 8 : m <= n => k + 2 * m \in 0 .. 8 + 2 * n
  OBVIOUS
<1>2. Rounds = 2 * Cardinality(todo) \/ Rounds = 2 * Cardinality(Waypoints) \/ Rounds = 2 * 0
  BY DEF Rounds
<1>. QED BY <1>1, <1>2, SizesAreNat, StepsAreFew DEF RequestLeft

\* A step to a place that is nearer, of which the loops are not part.
LEMMA Nearer ==
    ASSUME TypeInv, StepsLeft(at') < StepsLeft(at), at' \notin InLoop,
           at' \in BeforeLoop => at \in BeforeLoop
    PROVE  RequestLeft' < RequestLeft
<1> DEFINE W == Cardinality(Waypoints)
           T == Cardinality(todo)
<1>1. W \in Nat /\ T \in Nat /\ StepsLeft(at) \in Nat /\ StepsLeft(at)' \in Nat
  BY SizesAreNat, StepsAreFew
<1>2. Rounds \in Nat /\ Rounds' \in {0, 2 * W} /\ (Rounds' = 2 * W => Rounds = 2 * W \/ W = 0)
  <2>1. Rounds' = IF at' \in BeforeLoop THEN 2 * W ELSE 0
    BY DEF Rounds
  <2>2. at' \in BeforeLoop => Rounds = 2 * W
    BY DEF Rounds, BeforeLoop, InLoop
  <2>3. Rounds \in {0, 2 * W, 2 * T}
    BY DEF Rounds
  <2>. HIDE DEF W, T
  <2>. QED BY <1>1, <2>1, <2>2, <2>3
<1>3. RequestLeft' = StepsLeft(at)' + Rounds' /\ RequestLeft = StepsLeft(at) + Rounds
  BY DEF RequestLeft
<1>4. ASSUME NEW a \in Nat, NEW b \in Nat, NEW r \in Nat, NEW q \in Nat,
             a < b, q = r \/ q = 0
      PROVE  a + q < b + r
  BY <1>4
<1>5. Rounds' = Rounds \/ Rounds' = 0
  <2>. HIDE DEF W, T
  <2>. QED BY <1>1, <1>2
<1>6. Rounds' \in Nat
  <2>. HIDE DEF W, T
  <2>. QED BY <1>1, <1>2
<1>. QED BY <1>1, <1>2, <1>3, <1>4, <1>5, <1>6

\* Inside a loop a round ends, and into one there are no more rounds than waypoints.
LEMMA Rounded ==
    ASSUME TypeInv, TypeInv', at' \in InLoop,
           \/ at \in BeforeLoop /\ StepsLeft(at') < StepsLeft(at)
           \/ at = "building" /\ at' = "localizing" /\ todo' = todo
           \/ /\ at \in InLoop /\ at' \in InLoop /\ StepsLeft(at') <= StepsLeft(at) + 1
              /\ \E w \in todo : todo' = todo \ {w}
    PROVE  RequestLeft' < RequestLeft
<1> DEFINE W == Cardinality(Waypoints)
           T == Cardinality(todo)
           U == Cardinality(todo')
<1>1. /\ W \in Nat /\ T \in Nat /\ U \in Nat /\ U <= W
      /\ StepsLeft(at) \in Nat /\ StepsLeft(at') \in Nat
  <2>1. Cardinality(todo)' \in Nat /\ Cardinality(todo)' <= Cardinality(Waypoints)
    <3>1. IsFiniteSet(Waypoints) /\ todo' \in SUBSET Waypoints
      BY WaypointsAssumption DEF TypeInv, TypeOK, ProjectTypeOK
    <3>. QED BY <3>1, FS_Subset, FS_CardinalityType
  <2>. QED BY <2>1, SizesAreNat, StepsAreFew
<1>2. RequestLeft' = StepsLeft(at') + 2 * U
  BY DEF RequestLeft, Rounds
<1>3. CASE at \in BeforeLoop /\ StepsLeft(at') < StepsLeft(at)
  <2>1. RequestLeft = StepsLeft(at) + 2 * W
    BY <1>3 DEF RequestLeft, Rounds, BeforeLoop, InLoop
  <2>. HIDE DEF W, T, U
  <2>. QED BY <1>1, <1>2, <1>3, <2>1
<1>4. CASE at = "building" /\ at' = "localizing" /\ todo' = todo
  <2>1. RequestLeft = 3 + 2 * T /\ U = T /\ StepsLeft(at') = 2
    BY <1>4 DEF RequestLeft, Rounds, InLoop, StepsLeft
  <2>. HIDE DEF W, T, U
  <2>. QED BY <1>1, <1>2, <2>1
<1>5. CASE /\ at \in InLoop /\ at' \in InLoop /\ StepsLeft(at') <= StepsLeft(at) + 1
           /\ \E w \in todo : todo' = todo \ {w}
  <2>1. RequestLeft = StepsLeft(at) + 2 * T
    BY <1>5 DEF RequestLeft, Rounds
  <2>2. U = T - 1
    BY <1>5, SizesAreNat, FS_RemoveElement
  <2>. HIDE DEF W, T, U
  <2>. QED BY <1>1, <1>2, <1>5, <2>1, <2>2
<1>. QED BY <1>3, <1>4, <1>5

\* A handler leads to the first step of its operation, or to the response.
LEMMA HandlesNearer ==
    ASSUME TypeInv, Handle
    PROVE  RequestLeft' < RequestLeft
<1>1. /\ at = "received"
      /\ \/ at' \in {"respond", "save_target", "save_initial", "delete_target", "delete_initial",
                     "submit"}
         \/ at' \in {"qr_start", "qr_stop", "build", "delete_map", "pcd", "list", "snapshot",
                     "path"}
         \/ at' \in {"camera_start", "camera_stop", "identity", "calibration", "frame", "maps",
                     "recovery", "pose"}
  <2>1. \A k : \A parsed : Handles(k, parsed) => at = "received" /\ at' \in {"respond", k}
    BY DEF Handles, Goto, Answer
  <2>2. CASE HandlePoint
    BY <2>1, <2>2 DEF HandlePoint, HandleSaveTarget, HandleSaveInitial, HandleDeleteTarget,
       HandleDeleteInitial, HandleSubmit
  <2>3. CASE HandleQr
    BY <2>1, <2>3 DEF HandleQr, HandleQrStart, HandleQrStop, HandleBuildMap, HandleDeleteMap,
       HandlePcdPreview, HandleProjectList, HandleProjectSnapshot, HandleProjectPath
  <2>4. CASE HandleCamera \/ HandleOther
    BY <2>1, <2>4 DEF HandleCamera, HandleOther, HandleCameraStart, HandleCameraStop,
       HandleIdentity, HandleCalibration, HandleCameraFrame, HandleHighPrecisionMaps,
       HandleRecovery, HandleCurrentPose
  <2>. QED BY <2>2, <2>3, <2>4 DEF Handle
<1>2. StepsLeft(at') < StepsLeft(at) /\ at' \notin InLoop /\ at \in BeforeLoop
  BY <1>1 DEF StepsLeft, InLoop, BeforeLoop
<1>. QED BY <1>2, Nearer

\* The reads, the recovery and the captures.
LEMMA ReadsNearer ==
    ASSUME TypeInv, ReadSteps \/ RecoverySteps \/ Respond \/ QrParent \/ CameraParent
    PROVE  RequestLeft' < RequestLeft
<1> USE DEF Goto, Answer, StepsLeft, InLoop, BeforeLoop
<1>1. CASE ReadSteps
  BY <1>1, Nearer DEF ReadSteps, ReadCurrentPose, ReadIdentity, ReadCameraFrame,
     ReadCalibration, ReadPrecisionMaps, Reads, ReadEnds
<1>2. CASE RecoverySteps
  BY <1>2, Nearer DEF RecoverySteps, SampleRecovery, SampledRecovery, DecideRecovery
<1>3. CASE Respond
  BY <1>3, Nearer DEF Respond
<1>4. CASE QrParent
  BY <1>4, Nearer, StopSteps DEF QrParent, QrStart, QrCalibrate, QrSpawn, QrStarted,
     QrNotStarted, QrStop, QrJoin, QrStopAnswer, Stops, Joins, StopAnswers
<1>5. CASE CameraParent
  BY <1>5, Nearer, StopSteps DEF CameraParent, CameraStart, CameraStop, CameraJoin,
     CameraStopAnswer, Stops, Joins, StopAnswers
<1>. QED BY <1>1, <1>2, <1>3, <1>4, <1>5

\* The operations on a project, without the rounds of their loops.
LEMMA PlainNearer ==
    ASSUME TypeInv, ProjectSteps \/ BuildSteps \/ PhotoSteps \/ Written
    PROVE  RequestLeft' < RequestLeft
<1> USE DEF Goto, Answer, StepsLeft, InLoop, BeforeLoop
<1>1. CASE ProjectSteps
  BY <1>1, Nearer DEF ProjectSteps, ProjectPath, ListProjects, ProjectSnapshot, PcdPreview, Tells
<1>2. CASE BuildSteps
  BY <1>2, Nearer DEF BuildSteps, BuildMap, RunMappingSdk, BuiltManifest, DeleteMap,
     UnlinkedManifest, NoProjectDirectory, Tells, Writes
<1>3. CASE PhotoSteps
  BY <1>3, Nearer DEF PhotoSteps, SaveInitialPhoto, SaveInitialSamples, SaveInitialSampled,
     WriteScanFiles, InitialManifest, DeleteInitialPhoto, DeletedInitialManifest, Samples,
     Sampled, Writes
<1>4. CASE Written
  BY <1>4, Nearer DEF Written
<1>. QED BY <1>1, <1>2, <1>3, <1>4

\* The operations with a loop over the waypoints.
LEMMA LoopsNearer ==
    ASSUME TypeInv, TypeInv', RecordInv, TargetSteps \/ SubmitSteps
    PROVE  RequestLeft' < RequestLeft
<1> USE DEF Goto, Answer, StepsLeft, InLoop, BeforeLoop
<1>1. CASE SaveTargetRefused \/ SaveTargetSamples \/ SaveTargetSampled
  BY <1>1, Nearer DEF SaveTargetRefused, SaveTargetSamples, SaveTargetSampled, Samples, Sampled,
     Tells
<1>2. CASE SaveGraspPoint
  BY <1>2, Rounded DEF SaveGraspPoint
<1>3. CASE DeleteTargetPoint
  <2>1. at = "delete_target" /\ at' \in {"respond", "untag_deleted"}
    BY <1>3 DEF DeleteTargetPoint
  <2>. QED BY <2>1, Nearer, Rounded
<1>4. CASE RemoveFromWaypoint
  <2>1. /\ at \in {"untag_saved", "untag_deleted"} /\ at' = at
        /\ \E w \in todo : todo' = todo \ {w}
    BY <1>4 DEF RemoveFromWaypoint, RemoveTag
  <2>. QED BY <2>1, Rounded
<1>5. CASE SavedTargetManifest \/ DeletedTargetManifest \/ SubmittedManifest
  BY <1>5, Nearer DEF SavedTargetManifest, DeletedTargetManifest, SubmittedManifest, Writes
<1>6. CASE Submit
  <2>1. at = "submit" /\ at' \in {"respond", "building"}
    BY <1>6 DEF Submit
  <2>. QED BY <2>1, Nearer, Rounded
<1>7. CASE BuildWaypoint
  <2>1. /\ at = "building"
        /\ at' = "respond" \/ (at' = "localizing" /\ todo' = todo)
    BY <1>7 DEF BuildWaypoint
  <2>. QED BY <2>1, Nearer, Rounded
<1>8. CASE RunLocalizeSdk
  <2>1. todo # {} /\ Current \in todo
    BY <1>8 DEF RunLocalizeSdk, RecordInv, Submitting, Current
  <2>2. /\ at = "localizing"
        /\ at' = "respond" \/ (at' = "building" /\ todo' = todo \ {Current})
    BY <1>8 DEF RunLocalizeSdk, SdkLocalizes
  <2>3. CASE at' = "respond"
    BY <2>2, <2>3, Nearer
  <2>4. CASE at' = "building" /\ todo' = todo \ {Current}
    BY <2>1, <2>2, <2>4, Rounded
  <2>. QED BY <2>2, <2>3, <2>4
<1>. QED BY <1>1, <1>2, <1>3, <1>4, <1>5, <1>6, <1>7, <1>8 DEF TargetSteps, SubmitSteps

\* Nobody else moves the request thread or changes the list of its loop.
LEMMA OthersStay ==
    ASSUME TypeInv, [Next]_vars, ~Serve, at # "idle"
    PROVE  at' = at /\ todo' = todo
<1>1. CASE Receive
  BY <1>1 DEF Receive
<1>2. CASE \E s \in Sessions : Monitor(s)
  BY <1>2 DEF Monitor, QrMonitor, CameraMonitor, Releases, Forgets
<1>3. CASE Children
  BY <1>3 DEF Children, QrChildSteps, CameraChildSteps, QrChildConnects, QrChildWrites,
     QrChildOpensCamera, QrChildFails, QrChildSaves, QrChildRepeats, Repeated, QrChildStops,
     QrChildEnds, QrChildCrashes, Crashes, CameraChildOpens, CameraChildShows,
     CameraChildRepeats, CameraChildEnds, CameraChildCrashes
<1>4. CASE ControlNext
  BY <1>4, ControlTypes
<1>5. CASE UNCHANGED vars
  BY <1>5 DEF vars
<1>. QED BY <1>1, <1>2, <1>3, <1>4, <1>5 DEF Next

\* AnswerComes: whatever the requests, the children and the control thread do, a request
\* that is being served has a bounded number of steps left, for any number of waypoints.
THEOREM RequestIsBounded == Spec => AnswerComes
<1>1. ASSUME TypeInv, RecordInv, TypeInv', [Next]_vars
      PROVE  /\ Serve => RequestLeft' < RequestLeft
             /\ ~Serve /\ at # "idle" => RequestLeft' = RequestLeft
  <2>1. CASE Serve
    BY <1>1, <2>1, HandlesNearer, ReadsNearer, PlainNearer, LoopsNearer
       DEF Serve, ProjectRequest
  <2>2. ASSUME ~Serve, at # "idle" PROVE RequestLeft' = RequestLeft
    <3>1. at' = at /\ todo' = todo
      BY <1>1, <2>2, OthersStay
    <3>. QED BY <3>1 DEF RequestLeft, Rounds
  <2>. QED BY <2>1, <2>2
<1>2. (TypeInv => RequestLeft \in 0 .. 8 + 2 * Cardinality(Waypoints))'
  BY LeftIsNat, PTL
<1>3. TypeInv /\ RecordInv /\ TypeInv' /\ [Next]_vars =>
        [/\ RequestLeft' \in 0 .. 8 + 2 * Cardinality(Waypoints)
         /\ Serve => RequestLeft' < RequestLeft
         /\ ~Serve /\ at # "idle" => RequestLeft' = RequestLeft]_vars
  BY <1>1, <1>2
<1>. QED BY <1>3, TypeInvariant, RecordAlways, PTL DEF Spec, AnswerComes

----------------------------------------------------------------------------
(* Why every capture gives the lease back                                  *)

\* A capture that has been told to stop, or whose child died, and still has the lease.
Due(s) ==
    /\ owner = s
    /\ stopping[s] \/ (session[s] = "active" /\ ~Alive(s))

\* The two steps between a stop or a crash and the return of the lease, the join and
\* the monitor's: each is the only one that is wanting, and nothing undoes it.
LeaseIsReturned ==
    [][\A s \in Sessions : Due(s) =>
         /\ session[s] = "active"
         /\ Alive(s) => at = JoinOf[s] /\ (Serve => ~Alive(s)')
         /\ ~Alive(s) => (Monitor(s) => owner' = "none")
         /\ owner' # s \/ (Due(s)' /\ (Alive(s)' => Alive(s)))]_vars

\* A capture has the lease only while its session holds it; a child that has been told
\* to stop lives no longer than the request thread waits to join it.
ReturnInv ==
    \A s \in Sessions :
        /\ owner = s => session[s] \in Holding
        /\ stopping[s] => session[s] # "starting"
        /\ stopping[s] /\ Alive(s) => at = JoinOf[s]

\* Steps that are not a session's own: they take no lease for one, and do not move the
\* thread while it joins a child.
NotOfSession ==
    /\ UNCHANGED captures
    /\ owner' \in {owner, "none", "thread", "control"}
    /\ at \in {"join_qr", "join_camera"} => at' = at

LEMMA OutsideSession ==
    ASSUME TypeInv, \/ Receive \/ Respond \/ Handle \/ ProjectRequest \/ ReadSteps
                    \/ RecoverySteps \/ ControlNext \/ UNCHANGED vars
    PROVE  NotOfSession
<1> USE DEF NotOfSession, Goto, Answer
<1>1. CASE Receive \/ Respond \/ UNCHANGED vars
  BY <1>1 DEF Receive, Respond, vars
<1>2. CASE Handle
  BY <1>2, HandleTypes
<1>3. CASE ReadSteps \/ RecoverySteps
  BY <1>3 DEF ReadSteps, ReadCurrentPose, ReadIdentity, ReadCameraFrame, ReadCalibration,
     ReadPrecisionMaps, Reads, ReadEnds, RecoverySteps, SampleRecovery, SampledRecovery,
     DecideRecovery
<1>4. CASE ProjectSteps \/ BuildSteps \/ Written
  BY <1>4 DEF ProjectSteps, ProjectPath, ListProjects, ProjectSnapshot, PcdPreview, Tells,
     BuildSteps, BuildMap, RunMappingSdk, BuiltManifest, DeleteMap, UnlinkedManifest,
     NoProjectDirectory, Writes, Written
<1>5. CASE TargetSteps
  BY <1>5 DEF TargetSteps, SaveTargetRefused, SaveTargetSamples, SaveTargetSampled,
     SaveGraspPoint, SavedTargetManifest, DeleteTargetPoint, DeletedTargetManifest,
     RemoveFromWaypoint, Samples, Sampled, Tells, Writes
<1>6. CASE PhotoSteps \/ SubmitSteps
  BY <1>6 DEF PhotoSteps, SaveInitialPhoto, SaveInitialSamples, SaveInitialSampled,
     WriteScanFiles, InitialManifest, DeleteInitialPhoto, DeletedInitialManifest, SubmitSteps,
     Submit, BuildWaypoint, RunLocalizeSdk, SubmittedManifest, Samples, Sampled, Writes
<1>7. CASE ControlNext
  <2>1. UNCHANGED other
    BY <1>7, ControlTypes
  <2>2. owner' \in {owner, "none", "thread", "control"}
    BY <1>7 DEF ControlNext, BeginFlow, EndFlow, NodeRefused, NodeSteps, AssignSkill,
       ForceControlSkill, MotionPlanSkill, EndEffectorSkill, ScriptSkill, RunCodeScript,
       QrPoseSkill, Run, GateSteps, MotionGate, EndEffectorGate, ScriptGate, Gate, Acquire,
       WorkerSteps, NotReady, RunAbsJoint, PlanAbsPose, RunEndEffector, RunScript, PoseStep,
       GripperStep, ServoStep, ServoDone, Interrupted, Finish, LocateSteps, LocateReads,
       ReturnToInitialPhoto, LocateSamples, LocateSampled, LocateAnswers
  <2>. QED BY <2>1, <2>2
<1>. QED BY <1>1, <1>2, <1>3, <1>4, <1>5, <1>6, <1>7 DEF ProjectRequest

\* What every step does to a session that has its lease to give back.
Returning(s) ==
    /\ session[s] = "active"
    /\ Alive(s) => at = JoinOf[s] /\ (Serve => ~Alive(s)')
    /\ ~Alive(s) => (Monitor(s) => owner' = "none")
    /\ owner' # s \/ (Due(s)' /\ (Alive(s)' => Alive(s)))

\* A stop and a join, and the other steps of the two services.
LEMMA ParentReturns ==
    ASSUME ReturnInv, LeaseInv, QrParent \/ CameraParent
    PROVE  /\ ReturnInv'
           /\ \A s \in Sessions : Due(s) => owner' # s \/ (Due(s)' /\ (Alive(s)' => Alive(s)))
<1> USE StopSteps DEF ReturnInv, LeaseInv, Shapes, Users, Writing, Due, Alive, Goto, Answer, Holding
<1>1. CASE QrStart \/ QrCalibrate
  BY <1>1 DEF QrStart, QrCalibrate
<1>2. CASE QrSpawn
  BY <1>2 DEF QrSpawn, Open, Child
<1>3. CASE QrStarted \/ QrNotStarted
  BY <1>3 DEF QrStarted, QrNotStarted, Child
<1>4. CASE QrStop \/ CameraStop
  BY <1>4 DEF QrStop, CameraStop, Stops
<1>5. CASE QrJoin \/ CameraJoin
  BY <1>5 DEF QrJoin, CameraJoin, Joins, Killed, Child
<1>6. CASE QrStopAnswer \/ CameraStopAnswer
  BY <1>6 DEF QrStopAnswer, CameraStopAnswer, StopAnswers
<1>7. CASE CameraStart
  BY <1>7 DEF CameraStart, Open, Child
<1>. QED BY <1>1, <1>2, <1>3, <1>4, <1>5, <1>6, <1>7 DEF QrParent, CameraParent

LEMMA MonitorReturns ==
    ASSUME ReturnInv, LeaseInv, NEW m \in Sessions, Monitor(m)
    PROVE  /\ ReturnInv'
           /\ \A s \in Sessions : Due(s) => owner' # s \/ (Due(s)' /\ (Alive(s)' => Alive(s)))
<1> USE StopSteps DEF ReturnInv, LeaseInv, Shapes, Users, Due, Alive, Holding
<1>1. CASE Releases(m)
  BY <1>1 DEF Releases
<1>2. CASE Forgets(m)
  BY <1>2 DEF Forgets, Child
<1>. QED BY <1>1, <1>2 DEF Monitor, QrMonitor, CameraMonitor

LEMMA ChildReturns ==
    ASSUME ReturnInv, LeaseInv, QrChildSteps \/ CameraChildSteps
    PROVE  /\ ReturnInv'
           /\ \A s \in Sessions : Due(s) => owner' # s \/ (Due(s)' /\ (Alive(s)' => Alive(s)))
<1>1. /\ UNCHANGED <<owner, session, stopping, at>>
      /\ \A s \in Sessions : Alive(s)' => Alive(s)
  <2> USE DEF LeaseInv, Shapes, Alive
  <2>1. CASE QrChildConnects \/ QrChildWrites \/ QrChildOpensCamera \/ QrChildFails
    BY <2>1 DEF QrChildConnects, QrChildWrites, QrChildOpensCamera, QrChildFails, QrChild, Child
  <2>2. CASE QrChildSaves \/ QrChildRepeats \/ QrChildStops \/ QrChildEnds
    BY <2>2 DEF QrChildSaves, QrChildRepeats, Repeated, QrChildStops, QrChildEnds, QrChild, Child
  <2>3. CASE QrChildCrashes \/ CameraChildCrashes
    BY <2>3 DEF QrChildCrashes, CameraChildCrashes, Crashes, Killed, Child
  <2>4. CASE CameraChildOpens \/ CameraChildShows \/ CameraChildRepeats \/ CameraChildEnds
    BY <2>4 DEF CameraChildOpens, CameraChildShows, CameraChildRepeats, Repeated,
       CameraChildEnds, Child
  <2>. QED BY <2>1, <2>2, <2>3, <2>4 DEF QrChildSteps, CameraChildSteps
<1>. QED BY <1>1 DEF ReturnInv, Due

LEMMA ReturnStep ==
    ASSUME ReturnInv, LeaseInv, TypeInv, [Next]_vars
    PROVE  /\ ReturnInv'
           /\ \A s \in Sessions : Due(s) => owner' # s \/ (Due(s)' /\ (Alive(s)' => Alive(s)))
<1>1. CASE \/ Receive \/ Respond \/ Handle \/ ProjectRequest \/ ReadSteps
           \/ RecoverySteps \/ ControlNext \/ UNCHANGED vars
  BY <1>1, OutsideSession, StopSteps DEF NotOfSession, ReturnInv, Due, Alive
<1>2. CASE QrParent \/ CameraParent
  BY <1>2, ParentReturns
<1>3. CASE \E m \in Sessions : Monitor(m)
  BY <1>3, MonitorReturns
<1>4. CASE QrChildSteps \/ CameraChildSteps
  BY <1>4, ChildReturns
<1>. QED BY <1>1, <1>2, <1>3, <1>4 DEF Next, Serve, Children

\* While it waits to join a child, the request thread does nothing but join it.
LEMMA JoinsKill ==
    ASSUME LeaseInv, NEW s \in Sessions, at = JoinOf[s], Serve
    PROVE  ~Alive(s)'
<1> USE StopSteps DEF Goto, Answer
<1>1. at \in {"join_qr", "join_camera"}
  OBVIOUS
<1>2. ~Handle /\ ~Respond
  <2>1. \A k : \A parsed : ~Handles(k, parsed)
    BY <1>1 DEF Handles
  <2>. QED BY <1>1, <2>1
     DEF Respond, Handle, HandlePoint, HandleQr, HandleCamera, HandleOther,
         HandleSaveTarget, HandleSaveInitial, HandleDeleteTarget, HandleDeleteInitial,
         HandleSubmit, HandleQrStart, HandleQrStop, HandleBuildMap,
         HandleDeleteMap, HandlePcdPreview, HandleProjectList, HandleProjectSnapshot,
         HandleProjectPath, HandleCameraStart, HandleCameraStop, HandleIdentity,
         HandleCalibration, HandleCameraFrame, HandleHighPrecisionMaps, HandleRecovery,
         HandleCurrentPose
<1>3. ~ReadSteps /\ ~RecoverySteps
  BY <1>1 DEF ReadSteps, ReadCurrentPose, ReadIdentity, ReadCameraFrame, ReadCalibration,
     ReadPrecisionMaps, Reads, ReadEnds, RecoverySteps, SampleRecovery, SampledRecovery,
     DecideRecovery
<1>4. ~ProjectSteps /\ ~BuildSteps /\ ~Written
  BY <1>1 DEF ProjectSteps, ProjectPath, ListProjects, ProjectSnapshot, PcdPreview, Tells,
     BuildSteps, BuildMap, RunMappingSdk, BuiltManifest, DeleteMap, UnlinkedManifest,
     NoProjectDirectory, Writes, Written
<1>5. ~TargetSteps /\ ~PhotoSteps /\ ~SubmitSteps
  BY <1>1 DEF TargetSteps, SaveTargetRefused, SaveTargetSamples, SaveTargetSampled,
     SaveGraspPoint, SavedTargetManifest, DeleteTargetPoint, DeletedTargetManifest,
     RemoveFromWaypoint, PhotoSteps, SaveInitialPhoto, SaveInitialSamples, SaveInitialSampled,
     WriteScanFiles, InitialManifest, DeleteInitialPhoto, DeletedInitialManifest, SubmitSteps,
     Submit, BuildWaypoint, RunLocalizeSdk, SubmittedManifest, Samples, Sampled, Tells, Writes
<1>6. CASE QrParent \/ CameraParent
  <2>1. Joins(s)
    BY <1>6 DEF QrParent, QrStart, QrCalibrate, QrSpawn, QrStarted, QrNotStarted, QrStop, QrJoin,
       QrStopAnswer, CameraParent, CameraStart, CameraStop, CameraJoin, CameraStopAnswer, Stops,
       StopAnswers, Joins
  <2>. QED BY <2>1 DEF Joins, Killed, Child, Alive, LeaseInv, Shapes
<1>. QED BY <1>2, <1>3, <1>4, <1>5, <1>6 DEF Serve, ProjectRequest

LEMMA ReturnInit == Init => ReturnInv
  BY DEF Init, CaptureInit, ReturnInv, Alive

\* CaptureReturnsLease, step by step: a capture that is stopped or has crashed has its
\* lease back after the join and the monitor's next step, and nothing comes between.
THEOREM LeaseReturns == Spec => LeaseIsReturned
<1>1. ReturnInv /\ LeaseInv /\ TypeInv /\ [Next]_vars => ReturnInv'
  BY ReturnStep
<1>2. ASSUME ReturnInv, LeaseInv, TypeInv, [Next]_vars, NEW s \in Sessions, Due(s)
      PROVE  Returning(s)
  <2>1. session[s] = "active" /\ (Alive(s) => at = JoinOf[s])
    BY <1>2 DEF ReturnInv, Due, Holding
  <2>2. Alive(s) /\ Serve => ~Alive(s)'
    BY <1>2, <2>1, JoinsKill
  <2>3. Monitor(s) => owner' = "none"
    BY <2>1 DEF Monitor, QrMonitor, CameraMonitor, Releases, Forgets
  <2>. QED BY <1>2, <2>1, <2>2, <2>3, ReturnStep DEF Returning
<1>3. ReturnInv /\ LeaseInv /\ TypeInv /\ [Next]_vars =>
        [\A s \in Sessions : Due(s) => Returning(s)]_vars
  BY <1>2
<1>4. Spec => [][\A s \in Sessions : Due(s) => Returning(s)]_vars
  BY <1>1, <1>3, ReturnInit, LeaseInvariant, TypeInvariant, PTL DEF Spec
<1>. QED BY <1>4 DEF Returning, LeaseIsReturned

----------------------------------------------------------------------------
(* The lease as a service                                                  *)

\* A step that frees the lease, takes a free one, or leaves it.
OneHand == owner = "none" \/ owner' \in {owner, "none"}

LEMMA ThreadHands ==
    ASSUME TypeInv, Receive \/ Respond \/ Handle \/ ProjectRequest
    PROVE  OneHand
<1> USE DEF OneHand
<1>1. CASE Receive \/ Respond
  BY <1>1 DEF Receive, Respond
<1>2. CASE Handle
  BY <1>2, HandleTypes
<1>3. CASE ProjectSteps \/ BuildSteps \/ Written
  BY <1>3 DEF ProjectSteps, ProjectPath, ListProjects, ProjectSnapshot, PcdPreview, Tells,
     BuildSteps, BuildMap, RunMappingSdk, BuiltManifest, DeleteMap, UnlinkedManifest,
     NoProjectDirectory, Writes, Written
<1>4. CASE TargetSteps
  BY <1>4 DEF TargetSteps, SaveTargetRefused, SaveTargetSamples, SaveTargetSampled,
     SaveGraspPoint, SavedTargetManifest, DeleteTargetPoint, DeletedTargetManifest,
     RemoveFromWaypoint, Samples, Sampled, Tells, Writes
<1>5. CASE PhotoSteps \/ SubmitSteps
  BY <1>5 DEF PhotoSteps, SaveInitialPhoto, SaveInitialSamples, SaveInitialSampled,
     WriteScanFiles, InitialManifest, DeleteInitialPhoto, DeletedInitialManifest, SubmitSteps,
     Submit, BuildWaypoint, RunLocalizeSdk, SubmittedManifest, Samples, Sampled, Writes
<1>. QED BY <1>1, <1>2, <1>3, <1>4, <1>5 DEF ProjectRequest

LEMMA OtherHands ==
    ASSUME \/ ReadSteps \/ RecoverySteps \/ ControlNext \/ UNCHANGED vars
           \/ QrChildSteps \/ CameraChildSteps \/ \E m \in Sessions : Monitor(m)
    PROVE  OneHand
<1> USE DEF OneHand
<1>1. CASE ReadSteps \/ RecoverySteps
  BY <1>1 DEF ReadSteps, ReadCurrentPose, ReadIdentity, ReadCameraFrame, ReadCalibration,
     ReadPrecisionMaps, Reads, ReadEnds, RecoverySteps, SampleRecovery, SampledRecovery,
     DecideRecovery
<1>2. CASE ControlNext
  BY <1>2 DEF ControlNext, BeginFlow, EndFlow, NodeRefused, NodeSteps, AssignSkill,
     ForceControlSkill, MotionPlanSkill, EndEffectorSkill, ScriptSkill, RunCodeScript,
     QrPoseSkill, Run, GateSteps, MotionGate, EndEffectorGate, ScriptGate, Gate, Acquire,
     WorkerSteps, NotReady, RunAbsJoint, PlanAbsPose, RunEndEffector, RunScript, PoseStep,
     GripperStep, ServoStep, ServoDone, Interrupted, Finish, LocateSteps, LocateReads,
     ReturnToInitialPhoto, LocateSamples, LocateSampled, LocateAnswers
<1>3. CASE UNCHANGED vars
  BY <1>3 DEF vars
<1>4. CASE QrChildSteps
  BY <1>4 DEF QrChildSteps, QrChildConnects, QrChildWrites, QrChildOpensCamera, QrChildFails,
     QrChildSaves, QrChildRepeats, Repeated, QrChildStops, QrChildEnds, QrChildCrashes, Crashes
<1>5. CASE CameraChildSteps
  BY <1>5 DEF CameraChildSteps, CameraChildOpens, CameraChildShows, CameraChildRepeats,
     Repeated, CameraChildEnds, CameraChildCrashes, Crashes
<1>6. CASE \E m \in Sessions : Monitor(m)
  BY <1>6 DEF Monitor, QrMonitor, CameraMonitor, Releases, Forgets
<1>. QED BY <1>1, <1>2, <1>3, <1>4, <1>5, <1>6

LEMMA NoHandover == ASSUME TypeInv, [Next]_vars PROVE OneHand
<1>1. CASE QrParent \/ CameraParent
  BY <1>1 DEF OneHand, QrParent, QrStart, QrCalibrate, QrSpawn, QrStarted, QrNotStarted,
     QrStop, QrJoin, QrStopAnswer, CameraParent, CameraStart, CameraStop, CameraJoin,
     CameraStopAnswer, Open, Stops, Joins, StopAnswers
<1>. QED BY <1>1, ThreadHands, OtherHands DEF Next, Serve, Children

\* The users of the robot before and after a step are the holders of the lease.
LEMMA HoldersWork ==
    ASSUME TypeInv, TypeInv', LeaseInv, LeaseInv'
    PROVE  /\ owner \in Owners /\ Working \subseteq {owner} \ {"none"}
           /\ owner' \in Owners /\ Working' \subseteq {owner'} \ {"none"}
<1>1. owner \in Owners /\ owner' \in Owners
  BY DEF TypeInv, TypeOK, CaptureTypeOK
<1>2. Working \subseteq {owner} \ {"none"}
  BY DEF LeaseInv, Users, Working, Holding
<1>3. Working' \subseteq {owner'} \ {"none"}
  BY DEF LeaseInv, Users, Working, Holding
<1>. QED BY <1>1, <1>2, <1>3

LEMMA SessionStep ==
    ASSUME TypeInv, TypeInv', LeaseInv, LeaseInv', [Next]_vars
    PROVE  [Gdk!Next]_(Gdk!vars)
<1> USE HoldersWork DEF Gdk!Next, Gdk!vars, Gdk!Acquire, Gdk!Work, Gdk!Release
<1>1. OneHand
  BY NoHandover
<1>2. CASE owner = "none" /\ owner' # "none"
  BY <1>2
<1>3. CASE owner # "none" /\ owner' = "none"
  BY <1>3
<1>4. CASE owner' = owner /\ owner # "none"
  BY <1>4
<1>5. CASE owner' = "none" /\ owner = "none"
  BY <1>5
<1>. QED BY <1>1, <1>2, <1>3, <1>4, <1>5 DEF OneHand

LEMMA SessionInit == Init => Gdk!Init
  BY DEF Init, CaptureInit, ControlInit, Gdk!Init, Working, Alive, ThreadReads, InWorker

\* SessionSpec: the five users of the robot implement GdkSession, so none touches the
\* robot without the lease and no lease outlives or undercuts the work it stands for.
THEOREM ImplementsSession == Spec => SessionSpec
<1>1. TypeInv /\ TypeInv' /\ LeaseInv /\ LeaseInv' /\ [Next]_vars => [Gdk!Next]_(Gdk!vars)
  BY SessionStep
<1>. QED BY <1>1, SessionInit, TypeInvariant, LeaseInvariant, PTL DEF Spec, SessionSpec, Gdk!Spec
=============================================================================
