---------------------------- MODULE CommandService ----------------------------
(***************************************************************************)
(* What gdk/worker_runtime.py promises to those who call run_command:      *)
(* commands are served one at a time in the order in which they took the   *)
(* lock; each is handed to a process at most once, whatever fails; success *)
(* is told only of a command that was carried out to its end; and once a   *)
(* call has returned, no process works on its command any more.            *)
(***************************************************************************)
EXTENDS Naturals

CONSTANT Commands  \* numbered from 1 in the order in which they are called

VARIABLES
    fate,   \* how far each command is, or how its call ended
    active  \* the commands that a running process has queued or executes

vars == <<fate, active>>

Called == {"called", "handed", "finished"}
Ended  == {"ok", "cancelled", "timeout", "failed", "raised", "shutdown"}
Fates  == {"new"} \cup Called \cup Ended

Init ==
    /\ fate = [c \in Commands |-> "new"]
    /\ active = {}

\* Every earlier call has ended.
Turn(c) == \A k \in Commands : k < c => fate[k] \in Ended

Begin(c) ==
    /\ fate[c] = "new" /\ Turn(c)
    /\ fate' = [fate EXCEPT ![c] = "called"]
    /\ UNCHANGED active

Hand(c) ==
    /\ fate[c] = "called"
    /\ fate' = [fate EXCEPT ![c] = "handed"]
    /\ active' = active \cup {c}

Finish(c) ==
    /\ c \in active
    /\ fate' = [fate EXCEPT ![c] = "finished"]
    /\ active' = active \ {c}

\* A cancellation or a crash of the process: the command is never handed again.
Stop(c) ==
    /\ c \in active
    /\ active' = active \ {c}
    /\ UNCHANGED fate

Return(c) ==
    /\ fate[c] \in Called
    /\ \E how \in Ended :
         /\ how = "ok" => fate[c] = "finished"
         /\ fate[c] = "called" => how \in {"failed", "shutdown"}
         /\ fate' = [fate EXCEPT ![c] = how]
    /\ active' = active \ {c}

Next == \E c \in Commands : Begin(c) \/ Hand(c) \/ Finish(c) \/ Stop(c) \/ Return(c)

Spec == Init /\ [][Next]_vars
=============================================================================
