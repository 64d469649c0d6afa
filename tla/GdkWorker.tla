------------------------------ MODULE GdkWorker ------------------------------
(***************************************************************************)
(* The manager of the persistent GDK worker process                        *)
(* (gdk/worker_runtime.py, GdkWorkerProcessManager).                        *)
(*                                                                         *)
(* Executor threads (Callers) run commands one at a time in one child      *)
(* process; the MQTT thread may cancel the command in flight; the main     *)
(* thread shuts the worker down.  Commands are numbered in the order in    *)
(* which they take _command_lock; a worker process is named by the command *)
(* that spawned it, and 0 stands for Python's None.                        *)
(***************************************************************************)
EXTENDS Naturals, Sequences

CONSTANTS
    Callers,     \* threads that call run_command
    Main,        \* the thread that calls shutdown
    MaxCommands  \* bound: commands and shutdowns issued in a behaviour

ASSUME WorkerAssumption ==
    /\ MaxCommands \in Nat \ {0}
    /\ Main \notin Callers

Threads == Callers \cup {Main}
Ids     == 1 .. MaxCommands
OptIds  == 0 .. MaxCommands

VARIABLES
    \* the manager's fields
    worker,      \* _process and its two queues
    activeId,    \* _active_command_id
    pending,     \* keys of _pending_results
    cancelled,   \* keys of _cancelled_results
    cancelling,  \* the command a cancel has killed; not 0 while the cancel holds _lock
    lastCmd,     \* commands issued so far
    \* the threads inside run_command or shutdown
    pc,
    my,          \* command_id
    seen,        \* process and result_queue, as read when the command was sent
    expired,     \* the deadline of _wait_for_result has passed
    outcome,     \* the status _wait_for_result returned
    \* the worker processes
    alive,       \* processes that run
    inbox,       \* command_queue (maxsize 1)
    running,     \* the command the process executes
    outbox,      \* result_queue
    \* history
    result,      \* how each call ended
    interrupted  \* commands a cancel stopped before their result was sent

managerVars == <<worker, activeId, pending, cancelled, cancelling>>
threadVars  == <<lastCmd, pc, my, seen, expired, outcome>>
childVars   == <<alive, inbox, running, outbox>>
historyVars == <<result, interrupted>>
vars == <<managerVars, threadVars, childVars, historyVars>>

\* Program counters of a thread that waits inside _wait_for_result or collects
\* what it returned; such a thread, or one about to send, holds _command_lock.
Waiting == {"claim", "check", "get", "poll", "recheck", "alive", "collect"}
InFlight(t) == pc[t] \in Waiting \cup {"send"}

Statuses == {"none", "ok", "cancelled", "timeout", "exited"}
Results  == {"none", "ok", "cancelled", "timeout", "failed", "raised"}

Init ==
    /\ worker = 0 /\ activeId = 0 /\ pending = {} /\ cancelled = {}
    /\ cancelling = 0 /\ lastCmd = 0
    /\ pc = [t \in Threads |-> "idle"]
    /\ my = [t \in Threads |-> 0]
    /\ seen = [t \in Threads |-> 0]
    /\ expired = [t \in Threads |-> FALSE]
    /\ outcome = [t \in Threads |-> "none"]
    /\ alive = {}
    /\ inbox = [w \in Ids |-> 0]
    /\ running = [w \in Ids |-> 0]
    /\ outbox = [w \in Ids |-> <<>>]
    /\ result = [c \in Ids |-> "none"]
    /\ interrupted = {}

----------------------------------------------------------------------------
(* Locks and the helpers that run under them.                              *)

\* Mutated: commands are not serialised.
CommandLockIgnored == TRUE

CommandLockFree == \A t \in Threads : ~InFlight(t)
LockFree == cancelling = 0

\* _reset_locked: forgets the worker without stopping it; _cancelled_results stays.
Reset ==
    /\ worker' = 0
    /\ activeId' = 0
    /\ pending' = {}

\* process.terminate/kill/join: afterwards the processes of ws are gone, and
\* nobody reads their command queues.
Kill(ws) ==
    /\ alive' = alive \ ws
    /\ running' = [w \in Ids |-> IF w \in ws THEN 0 ELSE running[w]]
    /\ inbox' = [w \in Ids |-> IF w \in ws THEN 0 ELSE inbox[w]]

Goto(t, where) == pc' = [pc EXCEPT ![t] = where]

\* The call returns (or its exception propagates), releasing _command_lock; its
\* local variables are gone.
Return(t, how) ==
    /\ Goto(t, IF t = Main THEN "done" ELSE "idle")
    /\ result' = [result EXCEPT ![my[t]] = how]
    /\ seen' = [seen EXCEPT ![t] = 0]
    /\ expired' = [expired EXCEPT ![t] = FALSE]
    /\ outcome' = [outcome EXCEPT ![t] = "none"]
    /\ UNCHANGED <<lastCmd, my>>

\* _wait_for_result returns status s to its caller or, with none, goes on.
Resume(t, s, where) ==
    /\ outcome' = [outcome EXCEPT ![t] = s]
    /\ Goto(t, IF s = "none" THEN where ELSE "collect")

----------------------------------------------------------------------------
(* run_command and shutdown up to the command's arrival in the queue.      *)

\* with self._command_lock
Lock(t) ==
    /\ pc[t] = "idle"
    /\ CommandLockFree
    /\ lastCmd < MaxCommands
    /\ lastCmd' = lastCmd + 1
    /\ my' = [my EXCEPT ![t] = lastCmd']
    /\ Goto(t, "send")
    /\ UNCHANGED <<managerVars, seen, expired, outcome, childVars, historyVars>>

\* Command my[t] becomes the active one and goes to process w.
Put(t, w) ==
    /\ inbox' = [inbox EXCEPT ![w] = my[t]]
    /\ activeId' = my[t]
    /\ seen' = [seen EXCEPT ![t] = w]
    /\ Goto(t, "claim")
    /\ UNCHANGED <<cancelled, cancelling, lastCmd, my, expired, outcome,
                   running, historyVars>>

\* _ensure_started_locked finds a live worker; put_nowait succeeds.
SendToWorker(t) ==
    /\ pc[t] = "send" /\ t # Main /\ LockFree
    /\ worker \in alive
    /\ inbox[worker] = 0
    /\ Put(t, worker)
    /\ UNCHANGED <<worker, pending, alive, outbox>>

\* _ensure_started_locked spawns a worker and the command goes to it.
SendToNewWorker(t) ==
    /\ pc[t] = "send" /\ t # Main /\ LockFree
    /\ worker \notin alive
    /\ worker' = my[t]
    /\ pending' = {}
    /\ alive' = alive \cup {my[t]}
    /\ outbox' = [outbox EXCEPT ![my[t]] = <<>>]
    /\ Put(t, my[t])

\* process.start() raises, or put_nowait raises Full: reset without terminate.
SendFails(t) ==
    /\ pc[t] = "send" /\ t # Main /\ LockFree
    /\ worker \in alive => inbox[worker] # 0
    /\ Reset
    /\ Return(t, "failed")
    /\ UNCHANGED <<cancelled, cancelling, childVars, interrupted>>

\* shutdown finds no worker, or a dead one.
NothingToShutDown ==
    /\ pc[Main] = "send" /\ LockFree
    /\ worker \notin alive
    /\ Reset
    /\ Return(Main, "ok")
    /\ UNCHANGED <<cancelled, cancelling, childVars, interrupted>>

\* shutdown's put blocks, holding _lock, until the queue has room.
SendShutdown ==
    /\ pc[Main] = "send" /\ LockFree
    /\ worker \in alive
    /\ inbox[worker] = 0
    /\ Put(Main, worker)
    /\ UNCHANGED <<worker, pending, alive, outbox>>

----------------------------------------------------------------------------
(* _wait_for_result.  It holds _lock only while it pops or stores a result: *)
(* a cancel can come between any two of these steps.                        *)

\* The queue and the process a thread captured are closed by any reset.
Closed(t) == seen[t] # worker

ClaimPending(t) ==
    /\ pc[t] = "claim" /\ LockFree
    /\ Resume(t, IF my[t] \in pending THEN "ok" ELSE "none", "check")
    /\ pending' = pending \ {my[t]}
    /\ UNCHANGED <<worker, activeId, cancelled, cancelling, lastCmd, my, seen,
                   expired, childVars, historyVars>>

\* Mutated: the deadline is not looked at.
CheckDeadlineNever(t) ==
    /\ pc[t] = "check" /\ LockFree
    /\ Resume(t, IF my[t] \in cancelled THEN "cancelled" ELSE "none", "get")
    /\ cancelled' = cancelled \ {my[t]}
    /\ UNCHANGED <<worker, activeId, pending, cancelling, lastCmd, my, seen,
                   expired, childVars, historyVars>>

\* Top of the loop: an injected cancellation wins over the deadline.
CheckDeadline(t) ==
    /\ pc[t] = "check" /\ LockFree
    /\ Resume(t, IF my[t] \in cancelled THEN "cancelled"
                 ELSE IF expired[t] THEN "timeout" ELSE "none", "get")
    /\ cancelled' = cancelled \ {my[t]}
    /\ UNCHANGED <<worker, activeId, pending, cancelling, lastCmd, my, seen,
                   expired, childVars, historyVars>>

\* multiprocessing.Queue.get raises ValueError on a closed queue.
GetRaises(t) ==
    /\ pc[t] = "get"
    /\ Closed(t)
    /\ Return(t, "raised")
    /\ UNCHANGED <<managerVars, childVars, interrupted>>

GetWaits(t) ==
    /\ pc[t] = "get"
    /\ ~Closed(t)
    /\ Goto(t, "poll")
    /\ UNCHANGED <<managerVars, lastCmd, my, seen, expired, outcome, childVars,
                   historyVars>>

\* An envelope arrives; one of another command is stored, and the loop goes on.
GetEnvelope(t) ==
    LET c    == Head(outbox[seen[t]])
        mine == c = my[t]
    IN  /\ pc[t] = "poll"
        /\ outbox[seen[t]] # <<>>
        /\ ~mine => LockFree
        /\ outbox' = [outbox EXCEPT ![seen[t]] = Tail(@)]
        /\ pending' = IF mine THEN pending ELSE pending \cup {c}
        /\ Resume(t, IF mine THEN "ok" ELSE "none", "check")
        /\ UNCHANGED <<worker, activeId, cancelled, cancelling, lastCmd, my, seen,
                       expired, alive, inbox, running, historyVars>>

\* Empty: nothing came within the poll interval.
GetEmpty(t) ==
    /\ pc[t] = "poll"
    /\ outbox[seen[t]] = <<>>
    /\ Goto(t, "recheck")
    /\ UNCHANGED <<managerVars, lastCmd, my, seen, expired, outcome, childVars,
                   historyVars>>

RecheckCancelled(t) ==
    /\ pc[t] = "recheck" /\ LockFree
    /\ Resume(t, IF my[t] \in cancelled THEN "cancelled" ELSE "none", "alive")
    /\ cancelled' = cancelled \ {my[t]}
    /\ UNCHANGED <<worker, activeId, pending, cancelling, lastCmd, my, seen,
                   expired, childVars, historyVars>>

\* process.is_alive() raises ValueError on a closed process.
IsAliveRaises(t) ==
    /\ pc[t] = "alive"
    /\ Closed(t)
    /\ Return(t, "raised")
    /\ UNCHANGED <<managerVars, childVars, interrupted>>

\* Mutated: a worker that is gone is taken to have finished.
CheckAliveFinished(t) ==
    /\ pc[t] = "alive"
    /\ ~Closed(t)
    /\ Resume(t, IF seen[t] \in alive THEN "none" ELSE "ok", "check")
    /\ UNCHANGED <<managerVars, lastCmd, my, seen, expired, childVars,
                   historyVars>>

CheckAlive(t) ==
    /\ pc[t] = "alive"
    /\ ~Closed(t)
    /\ Resume(t, IF seen[t] \in alive THEN "none" ELSE "exited", "check")
    /\ UNCHANGED <<managerVars, lastCmd, my, seen, expired, childVars,
                   historyVars>>

\* Time passes: the deadline, which starts after the pending check.
Expire(t) ==
    /\ pc[t] \in Waiting \ {"claim", "collect"}
    /\ ~expired[t]
    /\ expired' = [expired EXCEPT ![t] = TRUE]
    /\ UNCHANGED <<managerVars, lastCmd, pc, my, seen, outcome, childVars,
                   historyVars>>

----------------------------------------------------------------------------
(* run_command and shutdown after the wait.                                *)

\* Mutated: a timeout resets without terminating, as the "exited" branch does.
CollectTimeoutResets(t) ==
    /\ pc[t] = "collect" /\ t # Main /\ LockFree
    /\ outcome[t] = "timeout"
    /\ Reset
    /\ Return(t, "timeout")
    /\ UNCHANGED <<cancelled, cancelling, childVars, interrupted>>

\* Mutated: a timeout returns and leaves the worker to finish.
CollectTimeoutLeaves(t) ==
    /\ pc[t] = "collect" /\ t # Main /\ LockFree
    /\ outcome[t] = "timeout"
    /\ Return(t, "timeout")
    /\ UNCHANGED <<managerVars, childVars, interrupted>>

CollectTimeout(t) ==
    /\ pc[t] = "collect" /\ t # Main /\ LockFree
    /\ outcome[t] = "timeout"
    /\ Kill({worker})
    /\ Reset
    /\ Return(t, "timeout")
    /\ UNCHANGED <<cancelled, cancelling, outbox, interrupted>>

CollectExited(t) ==
    /\ pc[t] = "collect" /\ t # Main /\ LockFree
    /\ outcome[t] = "exited"
    /\ Reset
    /\ Return(t, "failed")
    /\ UNCHANGED <<cancelled, cancelling, childVars, interrupted>>

\* Mutated: the active command is not forgotten.
CollectResultStale(t) ==
    /\ pc[t] = "collect" /\ t # Main /\ LockFree
    /\ outcome[t] \in {"ok", "cancelled"}
    /\ Return(t, outcome[t])
    /\ UNCHANGED <<managerVars, childVars, interrupted>>

CollectResult(t) ==
    /\ pc[t] = "collect" /\ t # Main /\ LockFree
    /\ outcome[t] \in {"ok", "cancelled"}
    /\ activeId' = IF activeId = my[t] THEN 0 ELSE activeId
    /\ Return(t, outcome[t])
    /\ UNCHANGED <<worker, pending, cancelled, cancelling, childVars, interrupted>>

\* process.join(0.1) and is_alive() raise when a cancel closed the process.
CollectShutdownRaises ==
    /\ pc[Main] = "collect" /\ LockFree
    /\ Closed(Main)
    /\ Return(Main, "raised")
    /\ UNCHANGED <<managerVars, childVars, interrupted>>

\* Mutated: shutdown does not terminate a worker that is slow to exit.
CollectShutdownTrusts ==
    /\ pc[Main] = "collect" /\ LockFree
    /\ ~Closed(Main)
    /\ Reset
    /\ Return(Main, outcome[Main])
    /\ UNCHANGED <<cancelled, cancelling, childVars, interrupted>>

\* A worker that has not exited by then is terminated.
CollectShutdown ==
    /\ pc[Main] = "collect" /\ LockFree
    /\ ~Closed(Main)
    /\ Kill({worker})
    /\ Reset
    /\ Return(Main, IF worker \in alive THEN "timeout" ELSE "ok")
    /\ UNCHANGED <<cancelled, cancelling, outbox, interrupted>>

----------------------------------------------------------------------------
(* cancel_active_command, on the MQTT thread: _lock is held throughout.    *)

CancelKills ==
    /\ LockFree
    /\ activeId # 0
    /\ cancelling' = activeId
    /\ Kill({worker})
    /\ interrupted' = interrupted \cup
         {c \in {activeId} : worker \in alive /\ c \in {inbox[worker], running[worker]}}
    /\ UNCHANGED <<worker, activeId, pending, cancelled, threadVars, outbox, result>>

\* Mutated: the id is read from the manager after the reset.
CancelInjectsLate ==
    /\ cancelling # 0
    /\ Reset
    /\ cancelled' = cancelled \cup {activeId'}
    /\ cancelling' = 0
    /\ UNCHANGED <<threadVars, childVars, historyVars>>

CancelInjects ==
    /\ cancelling # 0
    /\ Reset
    /\ cancelled' = cancelled \cup {cancelling}
    /\ cancelling' = 0
    /\ UNCHANGED <<threadVars, childVars, historyVars>>

----------------------------------------------------------------------------
(* The worker process: gdk_worker_main.                                    *)

ChildTakes(w) ==
    /\ w \in alive
    /\ running[w] = 0 /\ inbox[w] # 0
    /\ running' = [running EXCEPT ![w] = inbox[w]]
    /\ inbox' = [inbox EXCEPT ![w] = 0]
    /\ UNCHANGED <<managerVars, threadVars, alive, outbox, historyVars>>

ChildAnswers(w) ==
    /\ outbox' = [outbox EXCEPT ![w] = Append(@, running[w])]
    /\ running' = [running EXCEPT ![w] = 0]
    /\ UNCHANGED <<managerVars, threadVars, inbox, historyVars>>

ChildFinishes(w) ==
    /\ w \in alive
    /\ running[w] \notin {0, my[Main]}
    /\ ChildAnswers(w)
    /\ UNCHANGED alive

\* The shutdown command ends the loop; the process may be slow to exit.
ChildShutsDown(w) ==
    /\ w \in alive
    /\ running[w] # 0 /\ running[w] = my[Main]
    /\ ChildAnswers(w)
    /\ \/ alive' = alive \ {w}
       \/ UNCHANGED alive

\* The process crashes, or ends after a shutdown.
ChildDies(w) ==
    /\ w \in alive
    /\ Kill({w})
    /\ UNCHANGED <<managerVars, threadVars, outbox, historyVars>>

----------------------------------------------------------------------------
Call(t) == SendToWorker(t) \/ SendToNewWorker(t) \/ SendFails(t)

Wait(t) ==
    \/ ClaimPending(t) \/ CheckDeadline(t)
    \/ GetRaises(t) \/ GetWaits(t) \/ GetEnvelope(t) \/ GetEmpty(t)
    \/ RecheckCancelled(t) \/ IsAliveRaises(t) \/ CheckAlive(t)

Collect(t) == CollectTimeout(t) \/ CollectExited(t) \/ CollectResult(t)

Shutdown ==
    NothingToShutDown \/ SendShutdown \/ CollectShutdownRaises \/ CollectShutdown

Cancel == CancelKills \/ CancelInjects

Child(w) == ChildTakes(w) \/ ChildFinishes(w) \/ ChildShutsDown(w) \/ ChildDies(w)

\* What a thread does once it holds _command_lock.
Proceed(t) == Call(t) \/ Wait(t) \/ Collect(t) \/ (t = Main /\ Shutdown)

Next ==
    \/ \E t \in Threads : Lock(t) \/ Proceed(t) \/ Expire(t)
    \/ Cancel
    \/ \E w \in Ids : Child(w)

\* Threads that can run do run and clocks advance; nothing is assumed of the
\* worker process, which may hang, nor of when commands and cancels are issued.
Fairness ==
    /\ \A t \in Threads : WF_vars(Proceed(t)) /\ WF_vars(Expire(t))
    /\ WF_vars(CancelInjects)

Spec == Init /\ [][Next]_vars /\ Fairness

----------------------------------------------------------------------------
(* Properties.                                                             *)

\* The fields keep their types: ids are issued numbers or 0 for None.
TypeOK ==
    /\ worker \in OptIds /\ activeId \in OptIds /\ cancelling \in OptIds
    /\ lastCmd \in OptIds
    /\ pending \subseteq Ids /\ cancelled \subseteq Ids /\ interrupted \subseteq Ids
    /\ pc \in [Threads -> Waiting \cup {"idle", "send", "done"}]
    /\ my \in [Threads -> OptIds]
    /\ seen \in [Threads -> OptIds]
    /\ expired \in [Threads -> BOOLEAN]
    /\ outcome \in [Threads -> Statuses]
    /\ alive \subseteq Ids
    /\ inbox \in [Ids -> OptIds]
    /\ running \in [Ids -> OptIds]
    /\ outbox \in [Ids -> Seq(Ids)]
    /\ result \in [Ids -> Results]

\* The only process that can still drive the robot is the one the manager
\* holds: no reset ever drops the handle of a live worker, although several
\* branches reset without terminating.
SingleWorker == alive \subseteq {worker}

\* What the manager and its process together make of a command.
Sent(w) == {outbox[w][i] : i \in DOMAIN outbox[w]}

Answered(c) ==
    \/ \E w \in Ids : c \in Sent(w)
    \/ \E t \in Threads : InFlight(t) /\ my[t] = c /\ outcome[t] = "ok"

Fate(c) ==
    IF result[c] # "none" THEN IF c = my[Main] THEN "shutdown" ELSE result[c]
    ELSE IF c > lastCmd THEN "new"
    ELSE IF Answered(c) THEN "finished"
    ELSE IF \E t \in Threads : pc[t] = "send" /\ my[t] = c THEN "called"
    ELSE "handed"

Service == INSTANCE CommandService WITH
    Commands <- Ids,
    fate     <- [c \in Ids |-> Fate(c)],
    active   <- {c \in Ids : \E w \in alive : c \in {inbox[w], running[w]}}

\* The manager with its two locks and its process does what CommandService
\* promises, over timeouts, cancellations, crashes and the shutdown: a command is
\* handed out at most once, "ok" is told only of one that the process carried out
\* to its end, and no process works on a command whose call has ended.
ServiceSpec == Service!Spec

\* Between commands a live worker is idle and its queues are empty, so
\* put_nowait never finds the queue full and no command can receive the result
\* of an earlier one: the pending-result fallback is never used.
IdleBetweenCommands ==
    /\ pending = {}
    /\ (\A t \in Threads : pc[t] \notin Waiting) =>
         \A w \in alive : inbox[w] = 0 /\ running[w] = 0 /\ outbox[w] = <<>>

\* The id a cancel acts on is always that of a command whose call has not
\* returned: an exception or a timeout leaves no stale _active_command_id.
CancelHitsLiveCommand ==
    activeId # 0 => /\ result[activeId] = "none"
                    /\ \E t \in Threads : InFlight(t) /\ my[t] = activeId

\* A command that a cancel stopped before it had a result never reports
\* success, whatever the waiting thread was doing at that moment.
InterruptedNeverSucceeds == \A c \in interrupted : result[c] # "ok"

\* When shutdown has returned or raised, the worker it found is gone: only a
\* command that took _command_lock later can have started another.
ShutdownLeavesNoWorker == pc[Main] = "done" => \A w \in alive : w > my[Main]

\* A call that holds _command_lock returns, even if the worker hangs or dies
\* and whenever cancels arrive.
EveryCommandReturns == \A t \in Threads : InFlight(t) ~> ~InFlight(t)

\* What tests/test_gdk_subprocess_runtime.py:241-244 asserts of a cancel that
\* was "called" on a running command: the command's result says it was
\* cancelled (a timeout that fires first is counted as right too).
CancelledReported ==
    \A c \in interrupted : result[c] \in {"none", "cancelled", "timeout"}
=============================================================================
