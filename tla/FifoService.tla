----------------------------- MODULE FifoService -----------------------------
(***************************************************************************)
(* What mqtt/message_queue.py promises to those who hand it a message:     *)
(* accepted messages are served one at a time, in the order in which they  *)
(* were accepted, each at most once; from the moment the service closes    *)
(* nothing is accepted or begun, and what waits may only be dropped.       *)
(***************************************************************************)
EXTENDS Naturals

CONSTANT Messages  \* accepted messages, numbered from 1 in the order of acceptance

VARIABLES
    open,  \* accepts and begins messages
    fate   \* what became of each message

vars == <<open, fate>>

Settled == {"handled", "failed", "dropped"}
Fates == {"new", "waiting", "taken"} \union Settled

Init ==
    /\ open = TRUE
    /\ fate = [m \in Messages |-> "new"]

\* Every message before m has left the service.
Oldest(m) == \A k \in Messages : k < m => fate[k] \in Settled

Accept(m) ==
    /\ open
    /\ fate[m] = "new" /\ \A k \in Messages : k < m => fate[k] # "new"
    /\ fate' = [fate EXCEPT ![m] = "waiting"]
    /\ UNCHANGED open

Begin(m) ==
    /\ open
    /\ fate[m] = "waiting" /\ Oldest(m)
    /\ fate' = [fate EXCEPT ![m] = "taken"]
    /\ UNCHANGED open

Finish(m) ==
    /\ fate[m] = "taken"
    /\ \E f \in {"handled", "failed"} : fate' = [fate EXCEPT ![m] = f]
    /\ UNCHANGED open

Close ==
    /\ open
    /\ open' = FALSE
    /\ UNCHANGED fate

Drop(m) ==
    /\ ~open
    /\ fate[m] = "waiting" /\ Oldest(m)
    /\ fate' = [fate EXCEPT ![m] = "dropped"]
    /\ UNCHANGED open

Next ==
    \/ Close
    \/ \E m \in Messages : Accept(m) \/ Begin(m) \/ Finish(m) \/ Drop(m)

Spec == Init /\ [][Next]_vars
=============================================================================
