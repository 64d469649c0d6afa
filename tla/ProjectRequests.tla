--------------------------- MODULE ProjectRequests ---------------------------
(***************************************************************************)
(* What QrBuildService (qr_mapping/build_service.py), QrProjectStore and   *)
(* PointRecordingService (qr_mapping/point_recording_service.py) do for a  *)
(* request, in the thread that serves it.  Every change of a file is a     *)
(* step of its own, so that the control thread, which reads the same       *)
(* files, may come in between.  An exception becomes an answer that is not *)
(* ok; what was changed before it stays.                                   *)
(***************************************************************************)
EXTENDS ControlCommands

\* Neither the sessions nor the control thread are touched by a request.
others == <<captures, control>>

Refused == req.fields = "bad"

----------------------------------------------------------------------------
(* QrProjectStore: the files as they are, torn or not                      *)

Tells(k, ok, n) ==
    /\ at = k
    /\ Answer(ok /\ ~Refused, n)
    /\ UNCHANGED <<disk, owner, others>>

\* get_project_path
ProjectPath == Tells("path", TRUE, 0)

\* list_projects
ListProjects == Tells("list", TRUE, IF HasProjectData THEN 1 ELSE 0)

\* get_project_snapshot
ProjectSnapshot == Tells("snapshot", TRUE, images)

\* read_pcd_preview
PcdPreview ==
    /\ at = "pcd"
    /\ \E ok \in {FALSE, maps[req.map] # "none"} : Tells("pcd", ok, 0)

----------------------------------------------------------------------------
(* QrBuildService                                                          *)

BuildMap ==
    /\ at = "build"
    /\ IF ~Refused /\ MayBuild(req.map)
       THEN WriteIntrinsics(req.map) /\ Goto("mapping")
       ELSE Answer(FALSE, 0) /\ UNCHANGED maps
    /\ UNCHANGED <<manifest, writing, images, calibrated, points, todo, unsubmitted>>
    /\ UNCHANGED <<owner, others>>

\* run_qr_mapping_sdk fails with or without the map written.
RunMappingSdk ==
    /\ at = "mapping"
    /\ \/ SdkBuilds(req.map) /\ Goto("built")
       \/ SdkBuilds(req.map) /\ Answer(FALSE, 0)
       \/ UNCHANGED maps /\ Answer(FALSE, 0)
    /\ UNCHANGED <<manifest, writing, images, calibrated, points, todo, unsubmitted>>
    /\ UNCHANGED <<owner, others>>

DeleteMap ==
    /\ at = "delete_map"
    /\ IF Refused THEN Answer(FALSE, 0) /\ UNCHANGED maps
                  ELSE UnlinkMap(req.map) /\ Goto("unlinked")
    /\ UNCHANGED <<manifest, writing, images, calibrated, points, todo, unsubmitted>>
    /\ UNCHANGED <<owner, others>>

\* A manifest about to be written by the request thread.
Writes(k, next) ==
    /\ at = k /\ Goto(next)
    /\ UNCHANGED <<images, calibrated, maps, points, todo, unsubmitted>>
    /\ UNCHANGED <<owner, others>>

BuiltManifest    == Writes("built", "written") /\ BeginBuildManifest(req.map)
UnlinkedManifest == Writes("unlinked", "written") /\ BeginDeleteMapManifest(req.map)

\* Without a project directory there is nowhere to write.
NoProjectDirectory == ~HasProjectData /\ Tells("unlinked", FALSE, 0)

----------------------------------------------------------------------------
(* PointRecordingService: samples                                          *)

\* collect_point_recording_gdk_snapshot does not wait for the lease.
Samples(k, next) ==
    /\ at = k
    /\ IF owner = "none" THEN owner' = "thread" /\ Goto(next)
                         ELSE Answer(FALSE, 0) /\ UNCHANGED owner
    /\ UNCHANGED <<disk, others>>

\* The worker's result; the lease has been given back by then.
Sampled(k, next) ==
    /\ at = k
    /\ owner' = "none"
    /\ \/ Goto(next)
       \/ Answer(FALSE, 0)
    /\ UNCHANGED <<disk, others>>

----------------------------------------------------------------------------
(* PointRecordingService: target points                                    *)

SaveTargetRefused ==
    /\ Refused \/ Resources(req.map) = {}
    /\ Tells("save_target", FALSE, 0)

SaveTargetSamples ==
    /\ ~Refused /\ Resources(req.map) # {}
    /\ Samples("save_target", "target_sampling")

SaveTargetSampled == Sampled("target_sampling", "target_sampled")

\* The point file; then the waypoints that name the target, one by one.
SaveGraspPoint ==
    /\ at = "target_sampled" /\ Goto("untag_saved")
    /\ SaveTarget(req.target)
    /\ UNCHANGED <<manifest, writing, images, calibrated, maps, scan, unsubmitted>>
    /\ UNCHANGED <<owner, others>>

DeleteTargetPoint ==
    /\ at = "delete_target"
    /\ IF Refused \/ req.target \notin targets
       THEN Answer(FALSE, 0) /\ UNCHANGED <<targets, tags, todo>>
       ELSE RemoveTarget(req.target) /\ Goto("untag_deleted")
    /\ UNCHANGED <<manifest, writing, images, calibrated, maps, scan, unsubmitted>>
    /\ UNCHANGED <<owner, others>>

RemoveFromWaypoint ==
    /\ at \in {"untag_saved", "untag_deleted"} /\ UNCHANGED thread
    /\ \E w \in todo : RemoveTag(w, req.target)
    /\ UNCHANGED <<manifest, writing, images, calibrated, maps, targets, scan, unsubmitted>>
    /\ UNCHANGED <<owner, others>>

\* Mutant: the first waypoint that names the target is enough.
SavedTargetManifestEarly ==
    Writes("untag_saved", "recording_written") /\ BeginTargetManifest(req.target)

SavedTargetManifest ==
    /\ todo = {}
    /\ Writes("untag_saved", "recording_written") /\ BeginTargetManifest(req.target)

DeletedTargetManifest ==
    /\ todo = {}
    /\ Writes("untag_deleted", "recording_written") /\ BeginDeleteTargetManifest(req.target)

----------------------------------------------------------------------------
(* PointRecordingService: initial photo points                             *)

\* The old directory goes before the robot is sampled.
SaveInitialPhoto ==
    /\ at = "save_initial"
    /\ IF Refused \/ Resources(req.map) = {}
       THEN Answer(FALSE, 0) /\ UNCHANGED <<scan, tags>>
       ELSE RemoveWaypoint(req.waypoint) /\ Goto("photo")
    /\ UNCHANGED <<manifest, writing, images, calibrated, maps, targets, todo, unsubmitted>>
    /\ UNCHANGED <<owner, others>>

SaveInitialSamples == Samples("photo", "photo_sampling")
SaveInitialSampled == Sampled("photo_sampling", "photo_sampled")

\* The map was resolved before; nobody else changes the maps or the active one.
WriteScanFiles ==
    /\ at = "photo_sampled" /\ Goto("photo_written")
    /\ \E m \in Resolved(req.map) : WriteScan(req.waypoint, m)
    /\ UNCHANGED <<manifest, writing, images, calibrated, maps, targets, todo, unsubmitted>>
    /\ UNCHANGED <<owner, others>>

InitialManifest ==
    Writes("photo_written", "recording_written") /\ BeginPhotoManifest(req.waypoint)

DeleteInitialPhoto ==
    /\ at = "delete_initial"
    /\ IF Refused \/ scan[req.waypoint] = None
       THEN Answer(FALSE, 0) /\ UNCHANGED <<scan, tags>>
       ELSE RemoveWaypoint(req.waypoint) /\ Goto("photo_deleted")
    /\ UNCHANGED <<manifest, writing, images, calibrated, maps, targets, todo, unsubmitted>>
    /\ UNCHANGED <<owner, others>>

DeletedInitialManifest ==
    Writes("photo_deleted", "recording_written") /\ BeginDeletePhotoManifest(req.waypoint)

----------------------------------------------------------------------------
(* PointRecordingService: submit_recording                                 *)

Submit ==
    /\ at = "submit"
    /\ IF Refused \/ ~MaySubmit
       THEN Answer(FALSE, 0) /\ UNCHANGED todo
       ELSE todo' = {w \in Waypoints : scan[w] # None} /\ Goto("building")
    /\ UNCHANGED <<manifest, writing, images, calibrated, maps, points, unsubmitted>>
    /\ UNCHANGED <<owner, others>>

\* The waypoints are built in the order of their names.
Current == CHOOSE w \in todo : TRUE

BuildWaypoint ==
    /\ at = "building" /\ todo # {}
    /\ IF Resources(scan[Current]) = {}
       THEN Answer(FALSE, 0) /\ todo' = {} /\ UNCHANGED tags
       ELSE ClearOutputs(Current) /\ Goto("localizing") /\ UNCHANGED todo
    /\ UNCHANGED <<manifest, writing, images, calibrated, maps, targets, scan, unsubmitted>>
    /\ UNCHANGED <<owner, others>>

\* One failure ends the loop; the waypoints built before it stay built.
RunLocalizeSdk ==
    /\ at = "localizing"
    /\ \/ SdkLocalizes(Current) /\ Goto("building")
       \/ Answer(FALSE, 0) /\ todo' = {} /\ UNCHANGED tags
    /\ UNCHANGED <<manifest, writing, images, calibrated, maps, targets, scan, unsubmitted>>
    /\ UNCHANGED <<owner, others>>

SubmittedManifest ==
    /\ todo = {}
    /\ Writes("building", "recording_written") /\ BeginSubmitManifest

----------------------------------------------------------------------------
\* write_text has closed the file.
Written ==
    /\ at \in {"written", "recording_written"}
    /\ EndWrite("thread") /\ Answer(TRUE, 0)
    /\ unsubmitted' = IF at = "written" THEN unsubmitted
                      ELSE writing["thread"].status = "recording_dirty"
    /\ UNCHANGED <<images, calibrated, maps, points, todo, owner, others>>

ProjectSteps   == ProjectPath \/ ListProjects \/ ProjectSnapshot \/ PcdPreview
BuildSteps     == BuildMap \/ RunMappingSdk \/ BuiltManifest \/ DeleteMap
                    \/ UnlinkedManifest \/ NoProjectDirectory
TargetSteps    == SaveTargetRefused \/ SaveTargetSamples \/ SaveTargetSampled
                    \/ SaveGraspPoint \/ SavedTargetManifest \/ DeleteTargetPoint
                    \/ DeletedTargetManifest \/ RemoveFromWaypoint
PhotoSteps     == SaveInitialPhoto \/ SaveInitialSamples \/ SaveInitialSampled
                    \/ WriteScanFiles \/ InitialManifest \/ DeleteInitialPhoto
                    \/ DeletedInitialManifest
SubmitSteps    == Submit \/ BuildWaypoint \/ RunLocalizeSdk \/ SubmittedManifest

ProjectRequest == ProjectSteps \/ BuildSteps \/ TargetSteps \/ PhotoSteps
                    \/ SubmitSteps \/ Written
=============================================================================
