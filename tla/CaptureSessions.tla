--------------------------- MODULE CaptureSessions ---------------------------
(***************************************************************************)
(* The two capture services: QrCaptureService                              *)
(* (qr_mapping/capture_service.py), which records the images of a project, *)
(* and CameraCaptureService (gdk/camera_capture.py), which only streams    *)
(* frames.  A session is a child process with a GDK session of its own,    *)
(* the lease its parent holds for it, and a monitor thread that returns    *)
(* the lease once the child has ended.                                     *)
(*                                                                         *)
(* start and stop run in the thread that serves the requests (at, req and  *)
(* answer); _lock is never contended, since only that thread calls them    *)
(* and a monitor takes it for one assignment.                              *)
(***************************************************************************)
EXTENDS QrProject

CONSTANT
    Stale       \* STALE_FRAME_REOPEN_THRESHOLD, smaller than in the code

ASSUME StaleAssumption == Stale \in Nat \ {0}

VARIABLES
    at,         \* where the request thread is
    req,        \* the request it serves
    answer,     \* the response it is about to publish
    owner,      \* who holds the lease of GdkSessionManager
    session,    \* _active of a service, and how far start or the monitor is
    child,      \* the child process of a session
    stopping,   \* its stop_event
    ready,      \* its ready_queue
    repeats,    \* 0: last_timestamp_key is None; n: n - 1 duplicate timestamps
    saved,      \* frames_saved of the QR capture child
    summary     \* imageCount in its summary_queue, or None

thread   == <<at, req, answer>>
captures == <<session, child, stopping, ready, repeats, saved, summary>>

Sessions == {"qr", "camera"}
Owners   == {"none", "thread", "control"} \union Sessions
JoinOf     == [qr |-> "join_qr", camera |-> "join_camera"]
CompleteOf == [qr |-> "complete_qr", camera |-> "complete_camera"]
NoAnswer == [ok |-> FALSE, images |-> 0]

CaptureTypeOK ==
    /\ owner \in Owners
    /\ answer \in [ok : BOOLEAN, images : 0 .. MaxImages]
    /\ session \in [Sessions -> {"none", "starting", "active", "released"}]
    /\ child \in [Sessions -> {"none", "starting", "manifest", "opening", "capturing",
                               "closing", "closed", "failing", "gone"}]
    /\ stopping \in [Sessions -> BOOLEAN]
    /\ ready \in [Sessions -> {"none", "started", "failed"}]
    /\ repeats \in [Sessions -> 0 .. Stale + 1]
    /\ saved \in 0 .. MaxImages
    /\ summary \in 0 .. MaxImages \union {None}

CaptureInit ==
    /\ owner = "none" /\ saved = 0 /\ summary = None
    /\ session = [s \in Sessions |-> "none"]
    /\ child = [s \in Sessions |-> "none"]
    /\ stopping = [s \in Sessions |-> FALSE]
    /\ ready = [s \in Sessions |-> "none"]
    /\ repeats = [s \in Sessions |-> 0]

Alive(s) == child[s] \notin {"none", "gone"}

----------------------------------------------------------------------------
(* Steps shared by both services                                           *)

Answer(ok, n) ==
    /\ at' = "respond" /\ req' = req
    /\ answer' = [ok |-> ok, images |-> n]

Goto(step) == at' = step /\ UNCHANGED <<req, answer>>

Child(s, state) == child' = [child EXCEPT ![s] = state]

\* A session whose process runs; the lease is its own from here on.
Open(s, state) ==
    /\ owner' = s
    /\ session' = [session EXCEPT ![s] = state]
    /\ Child(s, "starting")
    /\ stopping' = [stopping EXCEPT ![s] = FALSE]
    /\ repeats' = [repeats EXCEPT ![s] = 0]
    /\ saved' = IF s = "qr" THEN 0 ELSE saved
    /\ summary' = IF s = "qr" THEN None ELSE summary

\* The process ends without running its finally block.
Killed(s) ==
    /\ Child(s, "gone")
    /\ IF s = "qr" THEN DropWrite("child") ELSE writing' = writing

Stops(s, k) ==
    /\ at = k
    /\ IF session[s] \in {"active", "released"} /\ req.fields # "bad"
       THEN /\ stopping' = [stopping EXCEPT ![s] = TRUE]
            /\ Goto(JoinOf[s])
       ELSE Answer(FALSE, 0) /\ UNCHANGED stopping
    /\ UNCHANGED <<disk, owner, session, child, ready, repeats, saved, summary>>

\* Mutant: the child is left to end by itself.
JoinsNotAtAll(s) ==
    /\ at = JoinOf[s]
    /\ Goto(CompleteOf[s])
    /\ UNCHANGED <<disk, owner, captures>>

\* Mutant: waits for a child that may hang.
JoinsForever(s) ==
    /\ at = JoinOf[s] /\ ~Alive(s)
    /\ Goto(CompleteOf[s])
    /\ UNCHANGED <<disk, owner, captures>>

\* process.join, or the forced end after STOP_JOIN_TIMEOUT_SECONDS.
Joins(s) ==
    /\ at = JoinOf[s]
    /\ Goto(CompleteOf[s])
    /\ IF Alive(s) THEN Killed(s) ELSE UNCHANGED <<child, writing>>
    /\ UNCHANGED <<manifest, images, calibrated, maps, points, todo, unsubmitted>>
    /\ UNCHANGED <<owner, session, stopping, ready, repeats, saved, summary>>

\* completed.wait gives up after a second: the lease may still be held then.
StopAnswers(s, n) ==
    /\ at = CompleteOf[s]
    /\ Answer(TRUE, n)
    /\ UNCHANGED <<disk, owner, captures>>

\* Mutant: only a session that was stopped is released.
ReleasesStopped(s) ==
    /\ session[s] = "active" /\ ~Alive(s) /\ stopping[s]
    /\ owner' = "none"
    /\ session' = [session EXCEPT ![s] = "released"]
    /\ UNCHANGED <<disk, thread, child, stopping, ready, repeats, saved, summary>>

\* _monitor_session: first the lease, then _active.
Releases(s) ==
    /\ session[s] = "active" /\ ~Alive(s)
    /\ owner' = "none"
    /\ session' = [session EXCEPT ![s] = "released"]
    /\ UNCHANGED <<disk, thread, child, stopping, ready, repeats, saved, summary>>

Forgets(s) ==
    /\ session[s] = "released"
    /\ session' = [session EXCEPT ![s] = "none"]
    /\ Child(s, "none")
    /\ UNCHANGED <<disk, thread, owner, stopping, ready, repeats, saved, summary>>

Crashes(s) ==
    /\ Alive(s)
    /\ Killed(s)
    /\ UNCHANGED <<manifest, images, calibrated, maps, points, todo, unsubmitted>>
    /\ UNCHANGED <<thread, owner, session, stopping, ready, repeats, saved, summary>>

----------------------------------------------------------------------------
(* QrCaptureService: start                                                 *)

\* Refused before the lock, or busy with its own session.
QrStart ==
    /\ at = "qr_start"
    /\ IF req.fields = "bad" \/ HasProjectData \/ session["qr"] # "none" \/ owner # "none"
       THEN Answer(FALSE, 0) /\ UNCHANGED owner
       ELSE Goto("calibrate") /\ owner' = "thread"
    /\ UNCHANGED <<disk, captures>>

\* prepare_capture_calibration, under a lease of its own.
QrCalibrate ==
    /\ at = "calibrate"
    /\ owner' = "none"
    /\ \E ok \in BOOLEAN :
          /\ calibrated' = (calibrated \/ ok)
          /\ IF ok THEN Goto("spawn") ELSE Answer(FALSE, 0)
    /\ UNCHANGED <<manifest, writing, images, maps, points, todo, unsubmitted, captures>>

QrSpawn ==
    /\ at = "spawn"
    /\ IF owner = "none"
       THEN Open("qr", "starting") /\ Goto("ready") /\ ready' = [ready EXCEPT !["qr"] = "none"]
       ELSE Answer(FALSE, 0) /\ UNCHANGED <<owner, captures>>
    /\ UNCHANGED disk

QrStarted ==
    /\ at = "ready" /\ ready["qr"] = "started"
    /\ session' = [session EXCEPT !["qr"] = "active"]
    /\ Answer(TRUE, 0)
    /\ UNCHANGED <<disk, owner, child, stopping, ready, repeats, saved, summary>>

\* Mutant: the lease goes back while the child is still ending.
QrNotStartedKeepsChild ==
    /\ at = "ready" /\ ready["qr"] # "started"
    /\ owner' = "none"
    /\ session' = [session EXCEPT !["qr"] = "none"]
    /\ Answer(FALSE, 0)
    /\ UNCHANGED <<disk, child, stopping, ready, repeats, saved, summary>>

\* The child reports an error, or nothing in time: terminated, then released.
QrNotStarted ==
    /\ at = "ready" /\ ready["qr"] # "started"
    /\ owner' = "none"
    /\ session' = [session EXCEPT !["qr"] = "none"]
    /\ Child("qr", "none") /\ DropWrite("child")
    /\ Answer(FALSE, 0)
    /\ UNCHANGED <<manifest, images, calibrated, maps, points, todo, unsubmitted>>
    /\ UNCHANGED <<stopping, ready, repeats, saved, summary>>

----------------------------------------------------------------------------
(* QrCaptureService: stop and the monitor                                  *)

QrStop == Stops("qr", "qr_stop")
QrJoin == Joins("qr")

\* Mutant: the summary is believed.
ReportedSummary == IF summary = None THEN 0 ELSE summary

\* Mutant: the files are added to the summary.
ReportedTwice == IF summary = None THEN images ELSE summary + images

\* reconcile_stop_result_with_filesystem, of the summary or the exit result.
Reported == IF summary # None /\ summary > images THEN summary ELSE images

QrStopAnswer == StopAnswers("qr", Reported)
QrMonitor    == Releases("qr") \/ Forgets("qr")

----------------------------------------------------------------------------
(* qr_capture_child                                                        *)

QrChild(from, to) == child["qr"] = from /\ Child("qr", to)

\* Directories, MQTT, GDK; then the manifest, before the camera is opened.
QrChildConnects ==
    /\ QrChild("starting", "manifest")
    /\ BeginCaptureManifest("capturing")
    /\ UNCHANGED <<images, calibrated, maps, points, todo, unsubmitted>>
    /\ UNCHANGED <<thread, owner, session, stopping, ready, repeats, saved, summary>>

QrChildWrites ==
    /\ \/ QrChild("manifest", "opening")
       \/ QrChild("closing", "closed")
    /\ EndWrite("child")
    /\ UNCHANGED <<images, calibrated, maps, points, todo, unsubmitted>>
    /\ UNCHANGED <<thread, owner, session, stopping, ready, repeats, saved, summary>>

QrChildOpensCamera ==
    /\ QrChild("opening", "capturing")
    /\ ready' = [ready EXCEPT !["qr"] = "started"]
    /\ UNCHANGED <<disk, thread, owner, session, stopping, repeats, saved, summary>>

\* An exception before the child is ready.
QrChildFails ==
    /\ QrChild("starting", "failing") \/ QrChild("opening", "failing")
    /\ ready' = [ready EXCEPT !["qr"] = "failed"]
    /\ UNCHANGED <<disk, thread, owner, session, stopping, repeats, saved, summary>>

\* A frame with a new timestamp, saved by save_captured_frame: the image is
\* written, then its line in captures.jsonl, which may fail before it counts.
QrChildSaves ==
    /\ child["qr"] = "capturing" /\ images < MaxImages
    /\ images' = images + 1
    /\ \E counted \in {0, 1} : saved' = saved + counted
    /\ repeats' = [repeats EXCEPT !["qr"] = 1]
    /\ UNCHANGED <<manifest, writing, calibrated, maps, points, todo, unsubmitted>>
    /\ UNCHANGED <<thread, owner, session, child, stopping, ready, summary>>

\* A frame with the last timestamp; after Stale of them the camera is opened
\* again, and the next frame counts as new even if its timestamp is the same.
Repeated(s, published) ==
    /\ child[s] = "capturing" /\ repeats[s] > 0
    /\ repeats' = [repeats EXCEPT ![s] =
                      IF published /\ @ >= Stale THEN 0
                      ELSE IF @ > Stale THEN @ ELSE @ + 1]
    /\ UNCHANGED <<disk, thread, owner, session, child, stopping, ready, saved, summary>>

QrChildRepeats == \E published \in BOOLEAN : Repeated("qr", published)

QrChildStops ==
    /\ stopping["qr"]
    /\ QrChild("capturing", "closing")
    /\ BeginCaptureManifest("captured")
    /\ UNCHANGED <<images, calibrated, maps, points, todo, unsubmitted>>
    /\ UNCHANGED <<thread, owner, session, stopping, ready, repeats, saved, summary>>

QrChildEnds ==
    /\ QrChild("closed", "gone") \/ QrChild("failing", "gone")
    /\ summary' = saved
    /\ UNCHANGED <<disk, thread, owner, session, stopping, ready, repeats, saved>>

QrChildCrashes == Crashes("qr")

----------------------------------------------------------------------------
(* CameraCaptureService                                                    *)

\* The answer does not wait for the child.
CameraStart ==
    /\ at = "camera_start"
    /\ IF req.fields = "bad" \/ session["camera"] # "none" \/ owner # "none"
       THEN Answer(FALSE, 0) /\ UNCHANGED <<owner, captures>>
       ELSE Open("camera", "active") /\ Answer(TRUE, 0) /\ UNCHANGED ready
    /\ UNCHANGED disk

CameraStop       == Stops("camera", "camera_stop")
CameraJoin       == Joins("camera")
CameraStopAnswer == StopAnswers("camera", 0)
CameraMonitor    == Releases("camera") \/ Forgets("camera")

CameraChildOpens ==
    /\ child["camera"] = "starting" /\ Child("camera", "capturing")
    /\ UNCHANGED <<disk, thread, owner, session, stopping, ready, repeats, saved, summary>>

CameraChildShows ==
    /\ child["camera"] = "capturing"
    /\ repeats' = [repeats EXCEPT !["camera"] = 1]
    /\ UNCHANGED <<disk, thread, owner, session, child, stopping, ready, saved, summary>>

CameraChildRepeats == \E published \in BOOLEAN : Repeated("camera", published)

\* On its stop event, or when it cannot open the camera.
CameraChildEnds ==
    /\ \/ child["camera"] = "capturing" /\ stopping["camera"]
       \/ child["camera"] = "starting"
    /\ Child("camera", "gone")
    /\ UNCHANGED <<disk, thread, owner, session, stopping, ready, repeats, saved, summary>>

CameraChildCrashes == Crashes("camera")

----------------------------------------------------------------------------
QrParent     == QrStart \/ QrCalibrate \/ QrSpawn \/ QrStarted \/ QrNotStarted
                  \/ QrStop \/ QrJoin \/ QrStopAnswer
CameraParent == CameraStart \/ CameraStop \/ CameraJoin \/ CameraStopAnswer

QrChildSteps == QrChildConnects \/ QrChildWrites \/ QrChildOpensCamera \/ QrChildFails
                  \/ QrChildSaves \/ QrChildRepeats \/ QrChildStops \/ QrChildEnds
                  \/ QrChildCrashes

CameraChildSteps == CameraChildOpens \/ CameraChildShows \/ CameraChildRepeats
                      \/ CameraChildEnds \/ CameraChildCrashes

CaptureNext == QrParent \/ CameraParent \/ QrMonitor \/ CameraMonitor
                 \/ QrChildSteps \/ CameraChildSteps
=============================================================================
