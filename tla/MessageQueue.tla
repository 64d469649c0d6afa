---------------------------- MODULE MessageQueue ----------------------------
(***************************************************************************)
(* MqttMessageWorkerQueue (mqtt/message_queue.py): the bounded FIFO between *)
(* the paho network thread, which enqueues, one worker thread, which runs   *)
(* the handler, and the main thread, which stops it once at shutdown.       *)
(*                                                                         *)
(* _lock guards the counters and _stopping, and stop() holds it for up to  *)
(* a second while it tries to put the sentinel; the worker reads _stopping *)
(* without it.  Writing the event log may fail (OSError), and it is called *)
(* inside the worker's try and inside its except.                          *)
(***************************************************************************)
EXTENDS Naturals, Sequences, FiniteSets

CONSTANTS
    MaxSize,      \* maxsize of the queue
    MaxMessages   \* bound: messages accepted in one run of the program

ASSUME QueueAssumption ==
    /\ MaxSize \in Nat \ {0}
    /\ MaxMessages \in Nat

Messages == 1 .. MaxMessages
Stop == 0  \* _stop_item
None == 0  \* no active item

VARIABLES
    queue,      \* _queue: message numbers and the sentinel
    stopping,   \* _stopping
    lock,       \* _lock, when a thread keeps it over more than one step
    sequence,   \* _next_sequence, equal to _enqueued_count
    paho,       \* the thread that enqueues
    main,       \* the thread that stops
    wpc, item,  \* the worker thread and the item it took
    active,     \* _active_item
    dequeued, completed, failed,  \* counters of the same names
    fate        \* history: what became of each message

counters == <<dequeued, completed, failed>>
queueVars == <<queue, stopping, lock, sequence>>
workerVars == <<wpc, item, active>>
vars == <<queueVars, paho, main, workerVars, counters, fate>>

WorkerPCs == {"get", "empty", "check", "begin", "announce", "handling", "handled",
              "report", "failing", "complain", "clearing", "dying", "dead"}
MainPCs == {"serving", "putting", "joining", "stopped", "gaveUp"}

Service == INSTANCE FifoService WITH open <- ~stopping

Init ==
    /\ queue = <<>> /\ stopping = FALSE /\ lock = "free" /\ sequence = 0
    /\ paho = "idle" /\ main = "serving"
    /\ wpc = "get" /\ item = None /\ active = None
    /\ dequeued = 0 /\ completed = 0 /\ failed = 0
    /\ fate = [m \in Messages |-> "new"]

----------------------------------------------------------------------------
(* enqueue, on the paho network thread.                                    *)

\* A callback delivers a message.
Offer ==
    /\ paho = "idle"
    /\ sequence < MaxMessages
    /\ paho' = "calling"
    /\ UNCHANGED <<queueVars, main, workerVars, counters, fate>>

\* _stopping is false and the thread lives.
Running == ~stopping /\ wpc # "dead"

\* Mutated: the queue grows past maxsize.
AcceptUnbounded ==
    /\ paho = "calling" /\ lock = "free"
    /\ Running
    /\ queue' = Append(queue, sequence + 1)
    /\ sequence' = sequence + 1
    /\ fate' = [fate EXCEPT ![sequence + 1] = "waiting"]
    /\ paho' = "idle"
    /\ UNCHANGED <<stopping, lock, main, workerVars, counters>>

Accept ==
    /\ paho = "calling" /\ lock = "free"
    /\ Running /\ Len(queue) < MaxSize
    /\ queue' = Append(queue, sequence + 1)
    /\ sequence' = sequence + 1
    /\ fate' = [fate EXCEPT ![sequence + 1] = "waiting"]
    /\ paho' = "idle"
    /\ UNCHANGED <<stopping, lock, main, workerVars, counters>>

\* MqttMessageQueueFull or MqttMessageQueueStopped
Refuse ==
    /\ paho = "calling" /\ lock = "free"
    /\ ~Running \/ Len(queue) = MaxSize
    /\ paho' = "idle"
    /\ UNCHANGED <<queueVars, main, workerVars, counters, fate>>

----------------------------------------------------------------------------
(* stop, on the main thread.                                               *)

BeginStop ==
    /\ main = "serving" /\ lock = "free"
    /\ stopping' = TRUE
    /\ lock' = "main"
    /\ main' = "putting"
    /\ UNCHANGED <<queue, sequence, paho, workerVars, counters, fate>>

PutSentinel ==
    /\ main = "putting" /\ Len(queue) < MaxSize
    /\ queue' = Append(queue, Stop)
    /\ lock' = "free"
    /\ main' = "joining"
    /\ UNCHANGED <<stopping, sequence, paho, workerVars, counters, fate>>

\* Mutated: the sentinel is put without a timeout.
PutWaits ==
    /\ main = "putting" /\ Len(queue) < MaxSize
    /\ UNCHANGED vars

\* put(timeout=1.0) raises Full.
PutTimesOut ==
    /\ main = "putting" /\ Len(queue) = MaxSize
    /\ lock' = "free"
    /\ main' = "joining"
    /\ UNCHANGED <<queue, stopping, sequence, paho, workerVars, counters, fate>>

\* Mutated: stop() does not look whether the worker has ended.
JoinedAnyway ==
    /\ main = "joining"
    /\ main' = "stopped"
    /\ UNCHANGED <<queueVars, paho, workerVars, counters, fate>>

Joined ==
    /\ main = "joining" /\ wpc = "dead"
    /\ main' = "stopped"
    /\ UNCHANGED <<queueVars, paho, workerVars, counters, fate>>

\* join(timeout) returns and the thread is alive: stop() gives up.
JoinTimesOut ==
    /\ main = "joining" /\ wpc # "dead"
    /\ main' = "gaveUp"
    /\ UNCHANGED <<queueVars, paho, workerVars, counters, fate>>

----------------------------------------------------------------------------
(* _run, on the worker thread.                                             *)

\* _queue.get(timeout=0.2)
Get ==
    /\ wpc = "get" /\ queue # <<>>
    /\ item' = Head(queue)
    /\ queue' = Tail(queue)
    /\ wpc' = "check"
    /\ UNCHANGED <<stopping, lock, sequence, paho, main, active, counters, fate>>

GetTimesOut ==
    /\ wpc = "get" /\ queue = <<>>
    /\ wpc' = "empty"
    /\ UNCHANGED <<queueVars, paho, main, item, active, counters, fate>>

\* except Empty: _stopping may have been set, and the queue filled, since.
AfterEmpty ==
    /\ wpc = "empty"
    /\ wpc' = IF stopping THEN "dead" ELSE "get"
    /\ UNCHANGED <<queueVars, paho, main, item, active, counters, fate>>

TakeStop ==
    /\ wpc = "check" /\ item = Stop
    /\ wpc' = "dead"
    /\ UNCHANGED <<queueVars, paho, main, item, active, counters, fate>>

Discard ==
    /\ wpc = "check" /\ item # Stop /\ stopping
    /\ fate' = [fate EXCEPT ![item] = "dropped"]
    /\ wpc' \in {"clearing", "failing"}  \* the event is written, or not
    /\ UNCHANGED <<queueVars, paho, main, item, active, counters>>

\* Mutated: _stopping is not looked at.
TakeAnyway ==
    /\ wpc = "check" /\ item # Stop
    /\ fate' = [fate EXCEPT ![item] = "taken"]
    /\ wpc' = "begin"
    /\ UNCHANGED <<queueVars, paho, main, item, active, counters>>

Take ==
    /\ wpc = "check" /\ item # Stop /\ ~stopping
    /\ fate' = [fate EXCEPT ![item] = "taken"]
    /\ wpc' = "begin"
    /\ UNCHANGED <<queueVars, paho, main, item, active, counters>>

BeginItem ==
    /\ wpc = "begin" /\ lock = "free"
    /\ dequeued' = dequeued + 1
    /\ active' = item
    /\ wpc' = "announce"
    /\ UNCHANGED <<queueVars, paho, main, item, completed, failed, fate>>

Announce ==
    /\ wpc = "announce"
    /\ wpc' \in {"handling", "failing"}  \* the event is written, or not
    /\ UNCHANGED <<queueVars, paho, main, item, active, counters, fate>>

\* Mutated: an exception of the handler ends the thread.
HandleUncaught ==
    /\ wpc = "handling"
    /\ wpc' \in {"handled", "dead"}
    /\ UNCHANGED <<queueVars, paho, main, item, active, counters, fate>>

\* The handler returns or raises.
Handle ==
    /\ wpc = "handling"
    /\ wpc' \in {"handled", "failing"}
    /\ UNCHANGED <<queueVars, paho, main, item, active, counters, fate>>

Complete ==
    /\ wpc = "handled" /\ lock = "free"
    /\ completed' = completed + 1
    /\ fate' = [fate EXCEPT ![item] = "handled"]
    /\ wpc' = "report"
    /\ UNCHANGED <<queueVars, paho, main, item, active, dequeued, failed>>

Report ==
    /\ wpc = "report"
    /\ wpc' \in {"clearing", "failing"}  \* the event is written, or not
    /\ UNCHANGED <<queueVars, paho, main, item, active, counters, fate>>

\* except Exception: an event that could not be written counts as a failure too.
Fail ==
    /\ wpc = "failing" /\ lock = "free"
    /\ failed' = failed + 1
    /\ fate' = [fate EXCEPT ![item] = IF @ = "taken" THEN "failed" ELSE @]
    /\ wpc' = "complain"
    /\ UNCHANGED <<queueVars, paho, main, item, active, dequeued, completed>>

\* The error event: if it cannot be written either, the exception ends the thread.
Complain ==
    /\ wpc = "complain"
    /\ wpc' \in {"clearing", "dying"}  \* the event is written, or not
    /\ UNCHANGED <<queueVars, paho, main, item, active, counters, fate>>

\* Mutated: the active item is cleared only when it was served.
FinallyServed ==
    /\ wpc \in {"clearing", "dying"} /\ lock = "free"
    /\ active' = IF active = item /\ fate[item] = "handled" THEN None ELSE active
    /\ wpc' = IF wpc = "dying" THEN "dead" ELSE "get"
    /\ item' = None
    /\ UNCHANGED <<queueVars, paho, main, counters, fate>>

\* finally: if _active_item is item
Finally ==
    /\ wpc \in {"clearing", "dying"} /\ lock = "free"
    /\ active' = IF active = item THEN None ELSE active
    /\ wpc' = IF wpc = "dying" THEN "dead" ELSE "get"
    /\ item' = None
    /\ UNCHANGED <<queueVars, paho, main, counters, fate>>

----------------------------------------------------------------------------
Enqueue == Accept \/ Refuse

StopCall == PutSentinel \/ PutTimesOut \/ Joined \/ JoinTimesOut

Worker ==
    \/ Get \/ GetTimesOut \/ AfterEmpty \/ TakeStop \/ Discard \/ Take
    \/ BeginItem \/ Announce \/ Handle \/ Complete \/ Report
    \/ Fail \/ Complain \/ Finally

Next == Offer \/ Enqueue \/ BeginStop \/ StopCall \/ Worker

\* Threads inside a call run on; the handler ends (a taskflow has a step budget
\* and every command of it a deadline).  Messages and the stop need not come.
Fairness == WF_vars(Enqueue) /\ WF_vars(StopCall) /\ WF_vars(Worker)

Spec == Init /\ [][Next]_vars /\ Fairness

----------------------------------------------------------------------------
(* Properties.                                                             *)

TypeOK ==
    /\ queue \in Seq(Messages \union {Stop}) /\ Len(queue) <= MaxSize
    /\ stopping \in BOOLEAN /\ lock \in {"free", "main"}
    /\ sequence \in 0 .. MaxMessages
    /\ paho \in {"idle", "calling"} /\ main \in MainPCs
    /\ wpc \in WorkerPCs
    /\ item \in Messages \union {Stop} /\ active \in Messages \union {None}
    /\ dequeued \in Nat /\ completed \in Nat /\ failed \in Nat
    /\ fate \in [Messages -> Service!Fates]

\* The queue does what FifoService promises: one message at a time, in order of
\* acceptance, at most once, none begun after stop() set _stopping.
ServiceSpec == Service!Spec

Having(f) == {m \in Messages : fate[m] \in f}

\* snapshot(), which any thread may take while _lock is free, accounts for every
\* message taken: it is the active one or has ended, and nothing is reported
\* active that the worker is not at, over exceptions and failed event writes.
SnapshotAccounts ==
    lock = "free" =>
        /\ completed = Cardinality(Having({"handled"}))
        /\ active # None => active = item /\ fate[active] \in {"taken", "handled", "failed"}
        /\ dequeued = Cardinality(Having({"handled", "failed"}))
                      + (IF active # None /\ fate[active] = "taken" THEN 1 ELSE 0)

\* Once stop() has returned without giving up, nothing is in hand, so the GDK may
\* be torn down (cli.py:925): no handler runs now or later.
StoppedIsQuiet ==
    main = "stopped" => wpc = "dead" /\ active = None /\ Having({"taken"}) = {}

\* enqueue never waits on the handler, and stop() returns although it may hold
\* _lock while the queue is full and the worker waits for _lock.
CallsReturn ==
    /\ paho = "calling" ~> paho = "idle"
    /\ main = "putting" ~> main \in {"stopped", "gaveUp"}

\* An accepted message is served, whatever earlier handlers raised, unless the
\* queue is stopped or the event log could not even record an error.
AcceptedIsServed ==
    \A m \in Messages :
        fate[m] = "waiting" /\ wpc # "dead"
            ~> fate[m] \in Service!Settled \/ stopping \/ wpc = "dying"
=============================================================================
