------------------------ MODULE MCRobotStateRequests ------------------------
(***************************************************************************)
(* Executors, by what their clients ask for: one that maps a new project,  *)
(* one that records the points of a mapped project, one that localises     *)
(* while points are recorded, one that runs the other skills, with and     *)
(* without the confirmation of control, one that streams a camera, and one *)
(* that does so, and one that captures, while a skill wants the robot.     *)
(***************************************************************************)
EXTENDS RobotStateRequests

CONSTANTS m1, m2, t1, w1, w2

Plain(k) == [type |-> None, topic |-> k, fields |-> "ok", target |-> t1,
             waypoint |-> w1, map |-> None]
Of(r, m)   == [r EXCEPT !.map = m]
At(r, w)   == [r EXCEPT !.waypoint = w]
With(r, f) == [r EXCEPT !.fields = f]
Typed(r, t) == [r EXCEPT !.type = t]

Mapping ==
    [clients |-> {Plain("qr_start"), With(Plain("qr_start"), "bad"), Plain("qr_stop"),
                  Of(Plain("build"), m1), Typed(Of(Plain("build"), m1), "delete_map"),
                  Typed(Of(Plain("delete_map"), m1), "delete_map"), Plain("snapshot")},
     skills |-> {}, confirmed |-> FALSE, map |-> None]

Recording ==
    [clients |-> {Plain("save_target"), With(Plain("save_target"), "arm"),
                  Typed(Plain("save_target"), "delete_target"),
                  Typed(Plain("delete_target"), "delete_target"), Plain("save_initial"),
                  Of(At(Plain("save_initial"), w2), m2), Plain("delete_initial"),
                  Plain("submit"), Plain("build"), Typed(Of(Plain("build"), m2), "build"),
                  Of(Plain("delete_map"), m1), Of(Plain("pcd"), m2), Plain("list"),
                  Plain("path")},
     skills |-> {}, confirmed |-> FALSE, map |-> m1]

Localising ==
    [clients |-> {Plain("save_target"), Plain("save_initial"), Plain("submit"),
                  Of(Plain("delete_map"), m1)},
     skills |-> {"locate"}, confirmed |-> TRUE, map |-> m1]

Running(c) ==
    [clients |-> {Plain("pose"), Typed(Plain("frame"), "recovery")},
     skills |-> Kinds \ {"locate"}, confirmed |-> c, map |-> None]

Streaming ==
    [clients |-> {With(Plain(k), f) : k \in Topics, f \in {"requestId", "bad"}}
                   \union {Of(With(Plain(k), "bad"), m1) : k \in {"build", "delete_map", "pcd"}}
                   \union {Typed(With(Plain("pose"), "requestId"), "recovery"),
                           Typed(Plain("camera_stop"), "other"), With(Plain("maps"), "mapId"),
                           Plain("camera_start"), Plain("camera_stop"), Plain("maps"),
                           Plain("identity"), Plain("calibration"), Plain("frame"),
                           Typed(Plain("pose"), "frame")},
     skills |-> {}, confirmed |-> FALSE, map |-> None]

Interrupting ==
    [clients |-> {Plain("camera_start"), Plain("camera_stop"), Plain("frame")},
     skills |-> {"joint"}, confirmed |-> TRUE, map |-> None]

Contending ==
    [clients |-> {Plain("qr_start")},
     skills |-> {"script"}, confirmed |-> TRUE, map |-> None]

MCLoads == {Mapping, Recording, Localising, Running(TRUE), Running(FALSE), Streaming,
            Interrupting, Contending}
=============================================================================
