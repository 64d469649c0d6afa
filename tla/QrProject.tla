------------------------------ MODULE QrProject ------------------------------
(***************************************************************************)
(* The files of one QR project and the steps that change them              *)
(* (qr_mapping/project_store.py, build_service.py and the file helpers of  *)
(* point_recording_service.py).                                            *)
(*                                                                         *)
(* manifest.json is written by the request thread and by the capture       *)
(* child.  Each reads it, changes its copy and calls write_text, which     *)
(* truncates the file first: a write is two steps, and between them (or    *)
(* for good, when the writer is killed) the file cannot be parsed and      *)
(* reads as the empty object.                                              *)
(***************************************************************************)
EXTENDS Naturals, FiniteSets

CONSTANTS
    Targets,    \* names of target points
    Waypoints,  \* names of initial photo points
    Maps,       \* map names
    None,
    MaxImages   \* bound: images of the project

ASSUME ProjectAssumption ==
    /\ None \notin Targets \union Waypoints \union Maps
    /\ MaxImages \in Nat \ {0}

VARIABLES
    manifest,   \* projectStatus, activeMapName and the recorded points
    writing,    \* the contents a writer is about to put in the truncated manifest
    images,     \* images in images/
    calibrated, \* the calibration files of the camera exist
    maps,       \* artifacts of a map
    targets,    \* entries of point/grasp_points.json
    scan,       \* map in the scan_metadata.json of a waypoint; None without a directory
    tags,       \* entries of a waypoint's tf_tag_ee.json; None without the file
    todo,       \* targets or waypoints a loop has still to visit
    unsubmitted \* history: the last finished change of a recording was not a submit

points == <<targets, scan, tags>>
disk   == <<manifest, writing, images, calibrated, maps, points, todo, unsubmitted>>

Writers  == {"thread", "child"}
Statuses == {"absent", "torn", "capturing", "captured", "mapped", "recording_dirty",
             "recorded", "empty"}
\* points and photos are the lists under pointRecording.
Manifests == [status : Statuses, active : Maps \union {None},
              points : SUBSET Targets, photos : SUBSET Waypoints]
Blank == [status |-> "absent", active |-> None, points |-> {}, photos |-> {}]

\* A tag entry is stale when its target has been recorded again since.
TagFiles == [Targets -> {"none", "current", "stale"}]

\* A waypoint's name is the name of its directory, and those are of bounded length.
ASSUME WaypointsAssumption == IsFiniteSet(Waypoints)

\* A waypoint without a tag file is none of the files.
ASSUME NoneAssumption == None \notin TagFiles

ProjectTypeOK ==
    /\ manifest \in Manifests
    /\ writing \in [Writers -> Manifests \union {None}]
    /\ images \in 0 .. MaxImages /\ calibrated \in BOOLEAN
    /\ maps \in [Maps -> {"none", "leftover", "built"}]
    /\ targets \subseteq Targets
    /\ scan \in [Waypoints -> Maps \union {None}]
    /\ tags \in [Waypoints -> TagFiles \union {None}]
    /\ todo \subseteq Waypoints
    /\ unsubmitted \in BOOLEAN

\* A new project, or one with images and map m left by an earlier run.
ProjectInit(m) ==
    /\ manifest = IF m = None THEN Blank
                  ELSE [Blank EXCEPT !.status = "mapped", !.active = m]
    /\ writing = [w \in Writers |-> None]
    /\ images = IF m = None THEN 0 ELSE 1
    /\ calibrated = (m # None)
    /\ maps = [n \in Maps |-> IF n = m THEN "built" ELSE "none"]
    /\ targets = {} /\ todo = {} /\ unsubmitted = FALSE
    /\ scan = [w \in Waypoints |-> None]
    /\ tags = [w \in Waypoints |-> None]

----------------------------------------------------------------------------
(* Reading the project                                                     *)

Built == {m \in Maps : maps[m] = "built"}

Legible == manifest.status \notin {"absent", "torn"}

\* read_manifest, read_json_object: what cannot be parsed is the empty object.
Manifest == IF Legible THEN manifest ELSE Blank

\* has_project_data
HasProjectData ==
    \/ images > 0
    \/ \E m \in Maps : maps[m] # "none"
    \/ targets # {}
    \/ \E w \in Waypoints : scan[w] # None
    \/ manifest.status # "absent"

\* resolve_map_yml_path: the named map, else the active one, else the newest.
Resolved(m) ==
    LET chosen == IF m # None THEN {m} ELSE IF Manifest.active # None THEN {Manifest.active} ELSE Built
    IN  chosen \intersect Built

\* resolve_recording_resources: with the calibration of the map and the camera.
Resources(m) == IF calibrated THEN Resolved(m) ELSE {}

----------------------------------------------------------------------------
(* Writing manifest.json                                                   *)

BeginWrite(w, contents) ==
    /\ writing' = [writing EXCEPT ![w] = contents]
    /\ manifest' = [Blank EXCEPT !.status = "torn"]

EndWrite(w) ==
    /\ writing[w] # None
    /\ manifest' = writing[w]
    /\ writing' = [writing EXCEPT ![w] = None]

\* A writer that is killed leaves the manifest as it is.
DropWrite(w) == writing' = [writing EXCEPT ![w] = None]

\* write_project_manifest
BeginCaptureManifest(status) ==
    BeginWrite("child", [Manifest EXCEPT !.status = status])

\* update_manifest_after_build
BeginBuildManifest(m) ==
    BeginWrite("thread", [Manifest EXCEPT !.status = "mapped", !.active = m])

\* update_manifest_after_delete; the artifacts of m are gone already.
BeginDeleteMapManifest(m) ==
    BeginWrite("thread",
        [Manifest EXCEPT
            !.status = IF Built # {} THEN "mapped"
                       ELSE IF images > 0 THEN "captured" ELSE "empty",
            !.active = IF @ = m THEN None ELSE @])

\* update_manifest_after_target
BeginTargetManifest(t) ==
    BeginWrite("thread", [Manifest EXCEPT !.status = "recording_dirty", !.points = @ \union {t}])

\* update_manifest_after_initial
BeginPhotoManifest(w) ==
    BeginWrite("thread", [Manifest EXCEPT !.status = "recording_dirty", !.photos = @ \union {w}])

\* next_point_recording_status
StatusAfterDelete(ts, ws) == IF ts # {} \/ ws # {} THEN "recording_dirty" ELSE "mapped"

\* update_manifest_after_delete_target counts what the manifest lists.
BeginDeleteTargetManifest(t) ==
    LET left == Manifest.points \ {t} IN
    BeginWrite("thread", [Manifest EXCEPT !.status = StatusAfterDelete(left, Manifest.photos),
                                          !.points = left])

\* update_manifest_after_delete_initial counts the targets of the point file.
BeginDeletePhotoManifest(w) ==
    LET left == Manifest.photos \ {w} IN
    BeginWrite("thread", [Manifest EXCEPT !.status = StatusAfterDelete(targets, left),
                                          !.photos = left])

\* submit_recording, after the waypoints are built
BeginSubmitManifest ==
    BeginWrite("thread", [Manifest EXCEPT !.status = "recorded", !.points = targets,
                                          !.photos = {w \in Waypoints : scan[w] # None}])

----------------------------------------------------------------------------
(* Maps                                                                    *)

\* build_map, before the SDK is started: its own intrinsics file is written first.
MayBuild(m) == images > 0 /\ maps[m] = "none" /\ calibrated
WriteIntrinsics(m) == maps' = [maps EXCEPT ![m] = "leftover"]

\* run_qr_mapping_sdk and map_record: a failure leaves the artifacts it wrote.
SdkBuilds(m) == maps' = [maps EXCEPT ![m] = "built"]

\* delete_map unlinks whatever there is.
UnlinkMap(m) == maps' = [maps EXCEPT ![m] = "none"]

----------------------------------------------------------------------------
(* Points                                                                  *)

Tagged(t) == {w \in Waypoints : tags[w] # None /\ tags[w][t] # "none"}

\* save_grasp_point: replaces the target of that name.
SaveTarget(t) ==
    /\ targets' = targets \union {t}
    /\ tags' = [w \in Waypoints |->
                   IF w \in Tagged(t) THEN [tags[w] EXCEPT ![t] = "stale"] ELSE tags[w]]
    /\ todo' = Tagged(t)

\* delete_grasp_point
RemoveTarget(t) ==
    /\ targets' = targets \ {t}
    /\ tags' = [w \in Waypoints |->
                   IF w \in Tagged(t) THEN [tags[w] EXCEPT ![t] = "stale"] ELSE tags[w]]
    /\ todo' = Tagged(t)

\* remove_target_from_initial_waypoints: one file after the other.
RemoveTag(w, t) ==
    /\ w \in todo /\ todo' = todo \ {w}
    /\ tags' = [tags EXCEPT ![w][t] = "none"]

\* The directory of a waypoint, removed before it is recorded again or for good.
RemoveWaypoint(w) ==
    /\ scan' = [scan EXCEPT ![w] = None]
    /\ tags' = [tags EXCEPT ![w] = None]

\* materialize_initial_photo_scan_files
WriteScan(w, m) ==
    /\ scan' = [scan EXCEPT ![w] = m]
    /\ tags' = [tags EXCEPT ![w] = None]

\* missing_submit_resources; a waypoint directory always holds all its scan files.
MaySubmit == targets # {} /\ \E w \in Waypoints : scan[w] # None

\* _build_initial_photo_waypoint, up to the SDK: the outputs are removed first.
ClearOutputs(w) == tags' = [tags EXCEPT ![w] = None]

\* run_qr_localize_sdk writes tf_tag_ee.json for the targets of the copied point file.
SdkLocalizes(w) ==
    /\ tags' = [tags EXCEPT ![w] = [t \in Targets |->
                                       IF t \in targets THEN "current" ELSE "none"]]
    /\ todo' = todo \ {w}
=============================================================================
