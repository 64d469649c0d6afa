------------------------------ MODULE GdkSession ------------------------------
(***************************************************************************)
(* What gdk/session.py asks of every service that reads or drives the      *)
(* robot: take the one lease before the robot is touched, touch it only    *)
(* while holding the lease, and give the lease back when the work with the *)
(* robot has ended.  The lease is never handed from one to another.        *)
(***************************************************************************)
CONSTANTS
    Services,  \* those that may ask for the lease
    Nobody

VARIABLES
    lease,     \* _active_lease: the service that holds _operation_lock, or Nobody
    working    \* the services with a GDK call under way, in whatever process

vars == <<lease, working>>

Init == lease = Nobody /\ working = {}

\* GdkSessionManager.acquire, of a service that may start to work at once.
Acquire(s) ==
    /\ lease = Nobody
    /\ lease' = s
    /\ working' \subseteq {s}

\* The holder starts to work, ends, or starts again.
Work(s) ==
    /\ lease = s
    /\ working' \subseteq {s}
    /\ UNCHANGED lease

\* GdkSessionManager.release: no work outlives the lease.
Release(s) ==
    /\ lease = s
    /\ lease' = Nobody
    /\ working' = {}

Next == \E s \in Services : Acquire(s) \/ Work(s) \/ Release(s)

Spec == Init /\ [][Next]_vars
=============================================================================
