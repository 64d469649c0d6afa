--------------------------- MODULE GdkWorkerProofs ---------------------------
(***************************************************************************)
(* Proofs about GdkWorker for any set of threads and any number of         *)
(* commands.  The properties are not inductive by themselves; WorkerInv    *)
(* ties a live worker and what it holds to the one call in flight.  With   *)
(* ServiceInv, which ties a command without a result to its call, every    *)
(* step is one of CommandService or none.                                  *)
(***************************************************************************)
EXTENDS GdkWorker, TLAPS

\* _command_lock: one call at a time, and its command is the last one issued.
OneInFlight ==
    /\ \A t, u \in Threads : InFlight(t) /\ InFlight(u) => t = u
    /\ \A t \in Threads : InFlight(t) => my[t] = lastCmd /\ lastCmd \in Ids
    /\ \A t \in Threads : my[t] <= lastCmd
    /\ \A t, u \in Threads : InFlight(t) /\ u # t => my[u] < lastCmd

\* Commands not yet returned, or not yet issued, have no result.
ResultPending ==
    /\ \A c \in Ids : c > lastCmd => result[c] = "none"
    /\ \A t \in Threads : InFlight(t) => result[lastCmd] = "none"

\* What a live worker holds belongs to the call that waits for that worker.
WorkBelongs ==
    \A w \in alive :
        inbox[w] # 0 \/ running[w] # 0 \/ outbox[w] # <<>> =>
            \E t \in Threads : pc[t] \in Waiting /\ seen[t] = w

\* The command in flight is in one place only: queued, executed or answered.
InOnePlace(t) ==
    /\ seen[t] \in Ids
    /\ worker \in {0, seen[t]}
    /\ inbox[seen[t]] \in {0, my[t]}
    /\ running[seen[t]] \in {0, my[t]}
    /\ outbox[seen[t]] \in {<<>>, <<my[t]>>}
    /\ outbox[seen[t]] # <<>> => inbox[seen[t]] = 0 /\ running[seen[t]] = 0
    /\ running[seen[t]] # 0 => inbox[seen[t]] = 0

OnePlace == \A t \in Threads : pc[t] \in Waiting => InOnePlace(t)

\* A process that does not run holds no command, a thread that does not wait no status.
NoLeftovers ==
    /\ \A w \in Ids \ alive : inbox[w] = 0 /\ running[w] = 0
    /\ \A t \in Threads : pc[t] \notin Waiting => outcome[t] = "none"

\* What the status says of the worker when the wait ended.
Means(t) ==
    /\ outcome[t] # "none" <=> pc[t] = "collect"
    /\ outcome[t] = "ok" => /\ inbox[seen[t]] = 0 /\ running[seen[t]] = 0
                            /\ outbox[seen[t]] = <<>>
    /\ outcome[t] = "exited" => seen[t] \notin alive
    /\ outcome[t] = "cancelled" => worker = 0

OutcomeMeans == \A t \in Threads : pc[t] \in Waiting => Means(t)

\* _active_command_id is that of the call in flight, waiting for this worker.
ActiveInFlight ==
    activeId # 0 =>
        \E t \in Threads : pc[t] \in Waiting /\ my[t] = activeId /\ seen[t] = worker

\* A cancel acts on the active command, and its worker is gone at once.
CancelState ==
    /\ cancelling # 0 => cancelling = activeId /\ alive = {}
    /\ \A c \in cancelled : c <= lastCmd
    /\ \A t \in Threads : pc[t] = "send" => my[t] \notin cancelled
    /\ \A t \in Threads : pc[t] \in Waiting /\ my[t] \in cancelled => worker = 0

\* A command stopped by a cancel has no answer and will get none.
NoAnswer(t) ==
    /\ outbox[seen[t]] = <<>>
    /\ outcome[t] # "ok"
    /\ alive = {}
    /\ cancelling = my[t] \/ worker = 0

InterruptedState ==
    /\ \A c \in interrupted : c <= lastCmd /\ result[c] # "ok"
    /\ \A t \in Threads : pc[t] = "send" => my[t] \notin interrupted
    /\ \A t \in Threads :
           pc[t] \in Waiting /\ my[t] \in interrupted => NoAnswer(t)

WorkerInv ==
    /\ TypeOK
    /\ OneInFlight
    /\ ResultPending
    /\ SingleWorker
    /\ pending = {}
    /\ WorkBelongs
    /\ OnePlace
    /\ NoLeftovers
    /\ OutcomeMeans
    /\ ActiveInFlight
    /\ CancelState
    /\ InterruptedState
    /\ ShutdownLeavesNoWorker

----------------------------------------------------------------------------
(* The invariant is inductive: one lemma per action, one step per conjunct. *)

USE WorkerAssumption
USE DEF InFlight, Waiting, LockFree, CommandLockFree, Goto, Return, Resume, Reset, Kill,
        Put, Closed, ChildAnswers, Threads, Ids, OptIds, Statuses, Results,
        managerVars, threadVars, childVars, historyVars

\* Sequences of one element.
LEMMA OneElement ==
    ASSUME NEW S, NEW x \in S
    PROVE  /\ Append(<<>>, x) = <<x>> /\ Tail(<<x>>) = <<>> /\ Head(<<x>>) = x
           /\ <<x>> # <<>> /\ <<x>> \in Seq(S) /\ <<>> \in Seq(S)
OBVIOUS

\* The invariant holds at the start: nothing runs and nothing is in flight.
LEMMA InvInit == Init => WorkerInv
BY DEF Init, WorkerInv, TypeOK, OneInFlight, ResultPending, SingleWorker, WorkBelongs,
   OnePlace, NoLeftovers, OutcomeMeans, ActiveInFlight, CancelState, InterruptedState,
   ShutdownLeavesNoWorker

\* A step inside the wait: the thread goes on to `to', with status `s' if it is done.
LEMMA WaitKeeps ==
    ASSUME WorkerInv, NEW t \in Threads, pc[t] \in Waiting \ {"collect"},
           NEW to \in Waiting, NEW s \in Statuses \ {"ok"},
           pc' = [pc EXCEPT ![t] = to], outcome' = [outcome EXCEPT ![t] = s],
           s # "none" <=> to = "collect",
           s = "exited" => seen[t] \notin alive,
           s = "cancelled" => worker = 0,
           cancelled' \subseteq cancelled, expired' \in [Threads -> BOOLEAN],
           pending' = {},
           UNCHANGED <<worker, activeId, cancelling, lastCmd, my, seen, childVars, historyVars>>
    PROVE  WorkerInv'
<1>1. /\ TypeOK /\ pc \in [Threads -> Waiting \cup {"idle", "send", "done"}]
      /\ outcome \in [Threads -> Statuses]
  BY DEF WorkerInv, TypeOK
<1>2. TypeOK'
  BY <1>1 DEF TypeOK
<1>3. /\ pc'[t] = to /\ outcome'[t] = s
      /\ \A u \in Threads \ {t} : pc'[u] = pc[u] /\ outcome'[u] = outcome[u]
      /\ \A u \in Threads : /\ pc'[u] \in Waiting <=> pc[u] \in Waiting
                            /\ pc'[u] = "send" <=> pc[u] = "send"
                            /\ pc'[u] = "done" <=> pc[u] = "done"
  BY <1>1
<1>4. \A u \in Threads : InFlight(u)' <=> InFlight(u)
  BY <1>3
<1>5. OneInFlight' /\ ResultPending'
  BY <1>4 DEF WorkerInv, OneInFlight, ResultPending
<1>6. SingleWorker' /\ WorkBelongs' /\ OnePlace'
  BY <1>3 DEF WorkerInv, SingleWorker, WorkBelongs, OnePlace, InOnePlace
<1>7. NoLeftovers'
  BY <1>3 DEF WorkerInv, NoLeftovers
<1>8. OutcomeMeans'
  <2>1. Means(t)'
    BY <1>3 DEF Means
  <2>2. \A u \in Threads \ {t} : pc'[u] \in Waiting => Means(u)'
    BY <1>3 DEF WorkerInv, OutcomeMeans, Means
  <2>. QED BY <2>1, <2>2 DEF OutcomeMeans
<1>9. ActiveInFlight'
  BY <1>3 DEF WorkerInv, ActiveInFlight
<1>10. CancelState'
  BY <1>3 DEF WorkerInv, CancelState
<1>11. InterruptedState'
  <2>1. \A u \in Threads : NoAnswer(u) => NoAnswer(u)'
    BY <1>3 DEF NoAnswer
  <2>. QED BY <1>3, <2>1 DEF WorkerInv, InterruptedState
<1>12. ShutdownLeavesNoWorker'
  BY <1>3 DEF WorkerInv, ShutdownLeavesNoWorker
<1>. QED
  BY <1>2, <1>5, <1>6, <1>7, <1>8, <1>9, <1>10, <1>11, <1>12 DEF WorkerInv

\* The end of a call: no cancel is at work, and the worker that is left, if any,
\* is the manager's and has nothing to do.
LEMMA ReturnKeeps ==
    ASSUME WorkerInv, NEW t \in Threads, InFlight(t),
           NEW how \in Results \ {"none"}, Return(t, how),
           how = "ok" => lastCmd \notin interrupted,
           t = Main => alive' = {},
           alive' \subseteq alive, alive' \subseteq {worker'}, worker' \in {0, worker},
           inbox' \in [Ids -> OptIds], running' \in [Ids -> OptIds],
           \A w \in Ids : /\ inbox'[w] = IF w \in alive' THEN inbox[w] ELSE 0
                          /\ running'[w] = IF w \in alive' THEN running[w] ELSE 0,
           \A w \in alive' : inbox[w] = 0 /\ running[w] = 0 /\ outbox[w] = <<>>,
           activeId' = 0, pending' = {}, cancelling = 0,
           UNCHANGED <<cancelled, cancelling, outbox, interrupted>>
    PROVE  WorkerInv'
<1>1. /\ my[t] = lastCmd /\ lastCmd \in Ids /\ \A u \in Threads : InFlight(u) => u = t
      /\ my' = my /\ lastCmd' = lastCmd
      /\ result' = [result EXCEPT ![lastCmd] = how] /\ result \in [Ids -> Results]
      /\ pc' = [pc EXCEPT ![t] = IF t = Main THEN "done" ELSE "idle"]
      /\ outcome' = [outcome EXCEPT ![t] = "none"] /\ outcome \in [Threads -> Statuses]
      /\ pc \in [Threads -> Waiting \cup {"idle", "send", "done"}]
      /\ my \in [Threads -> OptIds]
  BY DEF WorkerInv, OneInFlight, TypeOK
<1>2. \A u \in Threads : ~InFlight(u)'
  BY <1>1
<1>3. TypeOK'
  <2>0. TypeOK
    BY DEF WorkerInv
  <2>1. worker' \in OptIds /\ activeId' \in OptIds /\ alive' \subseteq Ids
    BY <2>0 DEF TypeOK
  <2>2. pc' \in [Threads -> Waiting \cup {"idle", "send", "done"}]
    BY <1>1
  <2>3. seen' \in [Threads -> OptIds] /\ expired' \in [Threads -> BOOLEAN]
    BY <2>0 DEF TypeOK
  <2>4. outcome' \in [Threads -> Statuses] /\ result' \in [Ids -> Results]
    BY <1>1
  <2>. QED BY <1>1, <2>0, <2>1, <2>2, <2>3, <2>4 DEF TypeOK
<1>4. OneInFlight'
  BY <1>1, <1>2 DEF WorkerInv, OneInFlight
<1>5. ResultPending'
  BY <1>1, <1>2 DEF WorkerInv, ResultPending
<1>6. SingleWorker' /\ WorkBelongs'
  BY DEF WorkerInv, TypeOK, SingleWorker, WorkBelongs
<1>7. OnePlace' /\ OutcomeMeans'
  BY <1>2 DEF OnePlace, OutcomeMeans
<1>8. NoLeftovers'
  BY <1>1 DEF WorkerInv, NoLeftovers
<1>9. ActiveInFlight'
  BY DEF ActiveInFlight
<1>10. CancelState'
  BY <1>1, <1>2 DEF WorkerInv, CancelState
<1>11. InterruptedState'
  BY <1>1, <1>2 DEF WorkerInv, InterruptedState
<1>12. ShutdownLeavesNoWorker'
  <2>1. CASE t = Main
    BY <2>1 DEF ShutdownLeavesNoWorker
  <2>2. CASE t # Main
    BY <2>2, <1>1 DEF WorkerInv, ShutdownLeavesNoWorker
  <2>. QED BY <2>1, <2>2
<1>. QED
  BY <1>3, <1>4, <1>5, <1>6, <1>7, <1>8, <1>9, <1>10, <1>11, <1>12 DEF WorkerInv

\* A command goes to worker w, which is alive and empty: an old one between two
\* commands, or a new one with new queues.
Handed(t, w) ==
    /\ pc[t] = "send" /\ LockFree /\ Put(t, w)
    /\ worker' = w /\ alive' = alive \cup {w} /\ pending' = {}
    /\ alive \subseteq {w}
    /\ w \in alive \/ w = lastCmd
    /\ running[w] = 0
    /\ outbox' \in [Ids -> Seq(Ids)] /\ outbox'[w] = <<>>

LEMMA PutKeeps ==
    ASSUME WorkerInv, NEW t \in Threads, NEW w \in Ids, Handed(t, w)
    PROVE  WorkerInv'
<1>1. /\ pc[t] = "send" /\ my[t] = lastCmd /\ lastCmd \in Ids /\ \A u \in Threads : InFlight(u) => u = t
      /\ my' = my /\ lastCmd' = lastCmd /\ outcome' = outcome
      /\ pc' = [pc EXCEPT ![t] = "claim"] /\ seen' = [seen EXCEPT ![t] = w]
      /\ inbox' = [inbox EXCEPT ![w] = lastCmd] /\ inbox \in [Ids -> OptIds]
      /\ pc \in [Threads -> Waiting \cup {"idle", "send", "done"}]
      /\ my \in [Threads -> OptIds] /\ seen \in [Threads -> OptIds] /\ outcome[t] = "none"
  BY DEF Handed, WorkerInv, OneInFlight, TypeOK, NoLeftovers
<1>0. /\ UNCHANGED <<cancelled, cancelling, lastCmd, my, expired, outcome, running, historyVars>>
      /\ cancelling = 0 /\ activeId' = my[t] /\ worker' = w /\ alive' = {w} /\ pending' = {}
      /\ w \in alive \/ w = lastCmd
      /\ running[w] = 0 /\ outbox' \in [Ids -> Seq(Ids)] /\ outbox'[w] = <<>>
  BY DEF Handed
<1>2. \A u \in Threads : /\ InFlight(u)' <=> u = t
                         /\ pc'[u] \in Waiting <=> u = t
                         /\ pc'[u] # "send"
                         /\ pc'[u] = "done" <=> pc[u] = "done"
  BY <1>1
<1>3. TypeOK'
  <2>0. TypeOK
    BY DEF WorkerInv
  <2>1. pc' \in [Threads -> Waiting \cup {"idle", "send", "done"}] /\ seen' \in [Threads -> OptIds]
    BY <1>1
  <2>2. inbox' \in [Ids -> OptIds] /\ alive' \subseteq Ids /\ activeId' \in OptIds
    BY <1>0, <1>1, <2>0 DEF TypeOK
  <2>. QED BY <1>0, <1>1, <2>0, <2>1, <2>2 DEF TypeOK
<1>4. OneInFlight' /\ ResultPending'
  <2>1. \A u \in Threads : my[u] <= lastCmd /\ (u # t => my[u] < lastCmd)
    BY <1>1 DEF WorkerInv, OneInFlight
  <2>2. /\ \A c \in Ids : c > lastCmd => result[c] = "none"
        /\ result[lastCmd] = "none" /\ result' = result
    BY <1>0, <1>1, <1>2 DEF Handed, WorkerInv, ResultPending
  <2>3. OneInFlight'
    BY <1>1, <1>2, <2>1 DEF OneInFlight
  <2>4. ResultPending'
    BY <1>1, <1>2, <2>2 DEF ResultPending
  <2>. QED BY <2>3, <2>4
<1>5. SingleWorker'
  BY <1>0 DEF SingleWorker
<1>6. WorkBelongs'
  BY <1>0, <1>1, <1>2 DEF WorkBelongs
<1>7. OnePlace'
  <2>1. InOnePlace(t)'
    BY <1>0, <1>1 DEF InOnePlace
  <2>. QED BY <1>2, <2>1 DEF OnePlace
<1>8. NoLeftovers'
  <2>1. \A v \in Ids \ alive' : inbox[v] = 0 /\ running[v] = 0 /\ v # w
    BY <1>0 DEF Handed, WorkerInv, NoLeftovers
  <2>2. \A v \in Ids \ alive' : inbox'[v] = 0 /\ running'[v] = 0
    BY <1>0, <1>1, <2>1
  <2>3. \A u \in Threads : u # t => outcome[u] = "none"
    BY <1>1 DEF WorkerInv, NoLeftovers
  <2>. QED BY <1>1, <1>2, <2>2, <2>3 DEF NoLeftovers
<1>9. OutcomeMeans'
  <2>1. Means(t)'
    BY <1>1 DEF Means
  <2>. QED BY <1>2, <2>1 DEF OutcomeMeans
<1>10. ActiveInFlight'
  BY <1>0, <1>1, <1>2 DEF ActiveInFlight
<1>11. CancelState'
  <2>1. my[t] \notin cancelled /\ \A c \in cancelled : c <= lastCmd
    BY DEF Handed, WorkerInv, CancelState
  <2>2. cancelled' = cancelled /\ cancelling' = 0
    BY <1>0
  <2>. QED BY <1>1, <1>2, <2>1, <2>2 DEF CancelState
<1>12. InterruptedState'
  <2>1. my[t] \notin interrupted /\ \A c \in interrupted : c <= lastCmd /\ result[c] # "ok"
    BY DEF Handed, WorkerInv, InterruptedState
  <2>2. interrupted' = interrupted /\ result' = result
    BY <1>0
  <2>. QED BY <1>1, <1>2, <2>1, <2>2 DEF InterruptedState
<1>13. ShutdownLeavesNoWorker'
  <2>1. SUFFICES ASSUME pc[Main] = "done", t # Main PROVE w > my[Main]
    BY <1>0, <1>1, <1>2 DEF ShutdownLeavesNoWorker
  <2>2. CASE w \in alive
    BY <2>1, <2>2 DEF WorkerInv, ShutdownLeavesNoWorker
  <2>3. CASE w \notin alive
    BY <2>1, <2>3, <1>0, <1>1 DEF WorkerInv, OneInFlight
  <2>. QED BY <2>2, <2>3
<1>. QED
  BY <1>0, <1>3, <1>4, <1>5, <1>6, <1>7, <1>8, <1>9, <1>10, <1>11, <1>12, <1>13 DEF WorkerInv

\* Between two commands a live worker is empty.
LEMMA NobodyWaits ==
    ASSUME WorkerInv, NEW t \in Threads, pc[t] = "send", NEW w \in alive
    PROVE  inbox[w] = 0 /\ running[w] = 0 /\ outbox[w] = <<>>
<1>1. \A u \in Threads : pc[u] \notin Waiting
  BY DEF WorkerInv, OneInFlight
<1>. QED BY <1>1 DEF WorkerInv, WorkBelongs

\* The types a proof about one action needs.
LEMMA Typed ==
    ASSUME WorkerInv
    PROVE  /\ worker \in OptIds /\ activeId \in OptIds /\ alive \subseteq Ids
           /\ inbox \in [Ids -> OptIds] /\ running \in [Ids -> OptIds]
           /\ outbox \in [Ids -> Seq(Ids)] /\ outcome \in [Threads -> Statuses]
           /\ expired \in [Threads -> BOOLEAN] /\ alive \subseteq {worker} /\ pending = {}
           /\ \A w \in Ids \ alive : inbox[w] = 0 /\ running[w] = 0
           /\ \A t \in Threads : InFlight(t) => my[t] = lastCmd /\ lastCmd \in Ids
BY DEF WorkerInv, TypeOK, SingleWorker, NoLeftovers, OneInFlight

\* A thread whose queue was closed waits for no worker: none runs, none is known,
\* and no cancel is at work.
LEMMA ClosedIsOver ==
    ASSUME WorkerInv, NEW t \in Threads, pc[t] \in Waiting, Closed(t)
    PROVE  worker = 0 /\ alive = {} /\ activeId = 0 /\ cancelling = 0
<1>1. worker = 0 /\ alive = {}
  BY Typed DEF WorkerInv, OnePlace, InOnePlace
<1>2. activeId = 0
  BY <1>1 DEF WorkerInv, OnePlace, InOnePlace, ActiveInFlight
<1>. QED BY <1>1, <1>2 DEF WorkerInv, CancelState

\* The next command gets a fresh number; nobody else is in flight.
LEMMA LockInv ==
    ASSUME WorkerInv, NEW t \in Threads, Lock(t)
    PROVE  WorkerInv'
<1>1. /\ pc[t] = "idle" /\ \A u \in Threads : ~InFlight(u)
      /\ lastCmd \in Nat /\ lastCmd + 1 \in Ids /\ lastCmd' = lastCmd + 1
      /\ my' = [my EXCEPT ![t] = lastCmd + 1] /\ my \in [Threads -> OptIds]
      /\ pc' = [pc EXCEPT ![t] = "send"]
      /\ pc \in [Threads -> Waiting \cup {"idle", "send", "done"}]
      /\ UNCHANGED <<managerVars, seen, expired, outcome, childVars, historyVars>>
  BY DEF Lock, WorkerInv, TypeOK
<1>2. \A u \in Threads : /\ InFlight(u)' <=> u = t
                         /\ pc'[u] = "send" <=> u = t
                         /\ pc'[u] \notin Waiting
                         /\ pc'[u] = "done" => pc[u] = "done" /\ u # t
  BY <1>1
<1>3. my'[t] = lastCmd + 1 /\ \A u \in Threads \ {t} : my'[u] = my[u] /\ my[u] <= lastCmd
  BY <1>1 DEF WorkerInv, OneInFlight
<1>4. TypeOK'
  <2>1. /\ pc' \in [Threads -> Waiting \cup {"idle", "send", "done"}]
        /\ my' \in [Threads -> OptIds] /\ lastCmd' \in OptIds
    BY <1>1
  <2>. QED BY <1>1, <2>1 DEF WorkerInv, TypeOK
<1>5. OneInFlight'
  BY <1>1, <1>2, <1>3 DEF OneInFlight
<1>6. ResultPending'
  BY <1>1 DEF WorkerInv, ResultPending
<1>7. SingleWorker' /\ WorkBelongs'
  BY <1>1 DEF WorkerInv, SingleWorker, WorkBelongs
<1>8. OnePlace' /\ OutcomeMeans'
  BY <1>2 DEF OnePlace, OutcomeMeans
<1>9. NoLeftovers'
  BY <1>1 DEF WorkerInv, NoLeftovers
<1>10. ActiveInFlight'
  BY <1>1 DEF WorkerInv, ActiveInFlight
<1>11. CancelState'
  <2>1. \A c \in cancelled : c <= lastCmd /\ c \in Nat
    BY DEF WorkerInv, TypeOK, CancelState
  <2>. QED BY <1>1, <1>2, <1>3, <2>1 DEF WorkerInv, CancelState
<1>12. InterruptedState'
  <2>1. \A c \in interrupted : c <= lastCmd /\ c \in Nat
    BY DEF WorkerInv, TypeOK, InterruptedState
  <2>. QED BY <1>1, <1>2, <1>3, <2>1 DEF WorkerInv, InterruptedState
<1>13. ShutdownLeavesNoWorker'
  BY <1>1, <1>2, <1>3 DEF WorkerInv, ShutdownLeavesNoWorker
<1>. QED
  BY <1>1, <1>4, <1>5, <1>6, <1>7, <1>8, <1>9, <1>10, <1>11, <1>12, <1>13 DEF WorkerInv

\* A live worker between commands is empty, so only the new command is there.
LEMMA SendToWorkerInv ==
    ASSUME WorkerInv, NEW t \in Threads, SendToWorker(t)
    PROVE  WorkerInv'
<1>1. worker \in Ids /\ alive = {worker}
  BY Typed DEF SendToWorker
<1>2. running[worker] = 0 /\ outbox[worker] = <<>>
  BY <1>1, NobodyWaits DEF SendToWorker
<1>. QED BY <1>1, <1>2, Typed, PutKeeps DEF Handed, SendToWorker

\* The new process has new queues, and no other process runs.
LEMMA SendToNewWorkerInv ==
    ASSUME WorkerInv, NEW t \in Threads, SendToNewWorker(t)
    PROVE  WorkerInv'
<1>1. my[t] = lastCmd /\ lastCmd \in Ids /\ alive = {}
  BY Typed DEF SendToNewWorker
<1>2. running[lastCmd] = 0 /\ alive' = {lastCmd} /\ worker' = lastCmd
  BY <1>1, Typed DEF SendToNewWorker
<1>3. /\ outbox' \in [Ids -> Seq(Ids)] /\ outbox'[lastCmd] = <<>>
  BY <1>1, Typed, OneElement DEF SendToNewWorker
<1>4. /\ pc[t] = "send" /\ t # Main /\ LockFree /\ pending' = {} /\ Put(t, lastCmd)
  BY <1>1 DEF SendToNewWorker
<1>. QED BY <1>1, <1>2, <1>3, <1>4, PutKeeps DEF Handed

\* A live worker would have an empty queue, so none is dropped by the reset.
LEMMA SendFailsInv ==
    ASSUME WorkerInv, NEW t \in Threads, SendFails(t)
    PROVE  WorkerInv'
<1>1. alive = {}
  BY Typed, NobodyWaits DEF SendFails
<1>. QED BY <1>1, Typed, ReturnKeeps DEF SendFails

\* Nothing is ever pending: the wait goes on.
LEMMA ClaimPendingInv ==
    ASSUME WorkerInv, NEW t \in Threads, ClaimPending(t)
    PROVE  WorkerInv'
<1>1. /\ pc' = [pc EXCEPT ![t] = "check"] /\ outcome' = [outcome EXCEPT ![t] = "none"]
      /\ pending' = {}
  BY Typed DEF ClaimPending
<1>. QED BY <1>1, Typed, WaitKeeps DEF ClaimPending

\* An injected cancellation is for a worker that is gone.
LEMMA CheckDeadlineInv ==
    ASSUME WorkerInv, NEW t \in Threads, CheckDeadline(t)
    PROVE  WorkerInv'
<1>1. my[t] \in cancelled => worker = 0
  BY DEF CheckDeadline, WorkerInv, CancelState
<1>2. PICK s \in {"none", "cancelled", "timeout"} :
         /\ s = "cancelled" => worker = 0
         /\ outcome' = [outcome EXCEPT ![t] = s]
         /\ pc' = [pc EXCEPT ![t] = IF s = "none" THEN "get" ELSE "collect"]
  BY <1>1 DEF CheckDeadline
<1>3. PICK to \in {"get", "collect"} : to = IF s = "none" THEN "get" ELSE "collect"
  OBVIOUS
<1>4. /\ pc[t] = "check" /\ cancelled' \subseteq cancelled /\ pending' = {}
      /\ expired' \in [Threads -> BOOLEAN] /\ pc' = [pc EXCEPT ![t] = to]
      /\ UNCHANGED <<worker, activeId, cancelling, lastCmd, my, seen, childVars, historyVars>>
  BY <1>2, <1>3, Typed DEF CheckDeadline
<1>. QED BY <1>2, <1>3, <1>4, WaitKeeps

\* The queue is closed only when no worker is left.
LEMMA GetRaisesInv ==
    ASSUME WorkerInv, NEW t \in Threads, GetRaises(t)
    PROVE  WorkerInv'
<1>1. worker = 0 /\ alive = {} /\ activeId = 0 /\ cancelling = 0 /\ pc[t] \in Waiting
  BY ClosedIsOver DEF GetRaises
<1>. QED BY <1>1, Typed, ReturnKeeps DEF GetRaises

LEMMA GetWaitsInv ==
    ASSUME WorkerInv, NEW t \in Threads, GetWaits(t)
    PROVE  WorkerInv'
<1>1. outcome' = [outcome EXCEPT ![t] = "none"]
  BY Typed DEF GetWaits, WorkerInv, OutcomeMeans, Means
<1>. QED BY <1>1, Typed, WaitKeeps DEF GetWaits

\* The one envelope that can be there answers this command (InOnePlace).
LEMMA GetEnvelopeInv ==
    ASSUME WorkerInv, NEW t \in Threads, GetEnvelope(t)
    PROVE  WorkerInv'
<1> USE DEF WorkerInv, GetEnvelope
<1>1. TypeOK'
  <2>0. seen[t] \in Ids /\ my[t] \in Ids /\ outbox[seen[t]] = <<my[t]>>
    BY DEF OneInFlight, OnePlace, InOnePlace
  <2>1. worker' \in OptIds /\ activeId' \in OptIds /\ cancelling' \in OptIds /\ lastCmd' \in OptIds
    BY DEF TypeOK
  <2>2. pending' \subseteq Ids /\ cancelled' \subseteq Ids /\ interrupted' \subseteq Ids
    BY <2>0, OneElement DEF TypeOK
  <2>3. pc' \in [Threads -> Waiting \cup {"idle", "send", "done"}]
    BY DEF TypeOK
  <2>4. my' \in [Threads -> OptIds] /\ seen' \in [Threads -> OptIds]
    BY DEF TypeOK
  <2>5. expired' \in [Threads -> BOOLEAN]
    BY DEF TypeOK
  <2>6. outcome' \in [Threads -> {"none", "ok", "cancelled", "timeout", "exited"}]
    BY DEF TypeOK
  <2>7. alive' \subseteq Ids /\ inbox' \in [Ids -> OptIds]
    BY DEF TypeOK
  <2>8. running' \in [Ids -> OptIds]
    BY DEF TypeOK
  <2>9. outbox' \in [Ids -> Seq(Ids)]
    BY <2>0, OneElement DEF TypeOK
  <2>10. result' \in [Ids -> {"none", "ok", "cancelled", "timeout", "failed", "raised"}]
    BY DEF TypeOK
  <2>. QED BY <2>1, <2>2, <2>3, <2>4, <2>5, <2>6, <2>7, <2>8, <2>9, <2>10 DEF TypeOK
<1>2. OneInFlight'
  <2>1. \A u \in Threads : InFlight(u)' => InFlight(u)
    BY DEF TypeOK
  <2>. QED BY <2>1 DEF TypeOK, OneInFlight
<1>3. ResultPending'
  BY DEF TypeOK, OneInFlight, ResultPending
<1>4. SingleWorker'
  BY DEF TypeOK, SingleWorker, OnePlace, InOnePlace
<1>5. pending' = {}
  BY DEF OnePlace, InOnePlace
<1>6. WorkBelongs'
  <2>1. seen[t] \in Ids /\ pc'[t] \in Waiting /\ seen' = seen
    BY DEF OnePlace, InOnePlace, TypeOK
  <2>2. \A w \in alive : w # seen[t] => outbox'[w] = outbox[w]
    BY <2>1 DEF TypeOK
  <2>3. \A u \in Threads : pc[u] \in Waiting => pc'[u] \in Waiting
    BY <2>1 DEF TypeOK
  <2>. QED BY <2>1, <2>2, <2>3 DEF WorkBelongs
<1>7. OnePlace'
  <2>1. \A u \in Threads : pc'[u] \in Waiting => u = t
    BY DEF OneInFlight, TypeOK
  <2>2. InOnePlace(t)
    BY DEF OnePlace
  <2>3. outbox[seen[t]] = <<my[t]>>
    BY <2>2 DEF InOnePlace
  <2>4. outbox'[seen[t]] = <<>>
    BY <2>2, <2>3, OneElement DEF InOnePlace, TypeOK
  <2>. QED BY <2>1, <2>2, <2>3, <2>4 DEF OnePlace, InOnePlace
<1>8. NoLeftovers'
  BY DEF TypeOK, NoLeftovers, OutcomeMeans, Means
<1>9. OutcomeMeans'
  <2>1. \A u \in Threads : pc'[u] \in Waiting => u = t
    BY DEF OneInFlight, TypeOK
  <2>2. InOnePlace(t)
    BY DEF OnePlace
  <2>3. outbox[seen[t]] = <<my[t]>>
    BY <2>2 DEF InOnePlace
  <2>4. outbox'[seen[t]] = <<>> /\ inbox'[seen[t]] = 0 /\ running'[seen[t]] = 0
    BY <2>2, <2>3, OneElement DEF InOnePlace, TypeOK
  <2>5. outcome'[t] = "ok" /\ pc'[t] = "collect" /\ seen' = seen
    BY <2>3, OneElement DEF TypeOK
  <2>. QED BY <2>1, <2>4, <2>5 DEF OutcomeMeans, Means
<1>10. ActiveInFlight'
  BY DEF TypeOK, OneInFlight, OnePlace, InOnePlace, ActiveInFlight
<1>11. CancelState'
  BY DEF TypeOK, OneInFlight, OnePlace, InOnePlace, ActiveInFlight, CancelState
<1>12. InterruptedState'
  BY DEF TypeOK, OneInFlight, OnePlace, InOnePlace, CancelState, InterruptedState, NoAnswer
<1>13. ShutdownLeavesNoWorker'
  BY DEF TypeOK, OneInFlight, SingleWorker, OnePlace, InOnePlace, ShutdownLeavesNoWorker
<1>. QED BY <1>1, <1>2, <1>3, <1>4, <1>5, <1>6, <1>7, <1>8, <1>9, <1>10, <1>11, <1>12, <1>13

LEMMA GetEmptyInv ==
    ASSUME WorkerInv, NEW t \in Threads, GetEmpty(t)
    PROVE  WorkerInv'
<1>1. outcome' = [outcome EXCEPT ![t] = "none"]
  BY Typed DEF GetEmpty, WorkerInv, OutcomeMeans, Means
<1>. QED BY <1>1, Typed, WaitKeeps DEF GetEmpty

LEMMA RecheckCancelledInv ==
    ASSUME WorkerInv, NEW t \in Threads, RecheckCancelled(t)
    PROVE  WorkerInv'
<1>1. my[t] \in cancelled => worker = 0
  BY DEF RecheckCancelled, WorkerInv, CancelState
<1>2. PICK s \in {"none", "cancelled"} :
         /\ s = "cancelled" => worker = 0
         /\ outcome' = [outcome EXCEPT ![t] = s]
         /\ pc' = [pc EXCEPT ![t] = IF s = "none" THEN "alive" ELSE "collect"]
  BY <1>1 DEF RecheckCancelled
<1>3. PICK to \in {"alive", "collect"} : to = IF s = "none" THEN "alive" ELSE "collect"
  OBVIOUS
<1>4. /\ pc[t] = "recheck" /\ cancelled' \subseteq cancelled /\ pending' = {}
      /\ expired' \in [Threads -> BOOLEAN] /\ pc' = [pc EXCEPT ![t] = to]
      /\ UNCHANGED <<worker, activeId, cancelling, lastCmd, my, seen, childVars, historyVars>>
  BY <1>2, <1>3, Typed DEF RecheckCancelled
<1>. QED BY <1>2, <1>3, <1>4, WaitKeeps

LEMMA IsAliveRaisesInv ==
    ASSUME WorkerInv, NEW t \in Threads, IsAliveRaises(t)
    PROVE  WorkerInv'
<1>1. worker = 0 /\ alive = {} /\ activeId = 0 /\ cancelling = 0 /\ pc[t] \in Waiting
  BY ClosedIsOver DEF IsAliveRaises
<1>. QED BY <1>1, Typed, ReturnKeeps DEF IsAliveRaises

LEMMA CheckAliveInv ==
    ASSUME WorkerInv, NEW t \in Threads, CheckAlive(t)
    PROVE  WorkerInv'
<1>1. PICK s \in {"none", "exited"} :
         /\ s = "exited" => seen[t] \notin alive
         /\ outcome' = [outcome EXCEPT ![t] = s]
         /\ pc' = [pc EXCEPT ![t] = IF s = "none" THEN "check" ELSE "collect"]
  BY DEF CheckAlive
<1>2. PICK to \in {"check", "collect"} : to = IF s = "none" THEN "check" ELSE "collect"
  OBVIOUS
<1>3. /\ pc[t] = "alive" /\ cancelled' \subseteq cancelled /\ pending' = {}
      /\ expired' \in [Threads -> BOOLEAN] /\ pc' = [pc EXCEPT ![t] = to]
      /\ UNCHANGED <<worker, activeId, cancelling, lastCmd, my, seen, childVars, historyVars>>
  BY <1>1, <1>2, Typed DEF CheckAlive
<1>. QED BY <1>1, <1>2, <1>3, WaitKeeps

LEMMA ExpireInv ==
    ASSUME WorkerInv, NEW t \in Threads, Expire(t)
    PROVE  WorkerInv'
<1>1. /\ expired' \in [Threads -> BOOLEAN] /\ pc[t] \in Waiting \ {"collect"}
      /\ UNCHANGED <<managerVars, lastCmd, pc, my, seen, outcome, childVars, historyVars>>
  BY Typed DEF Expire
<1>2. /\ pc' = [pc EXCEPT ![t] = pc[t]] /\ outcome' = [outcome EXCEPT ![t] = "none"]
  BY <1>1, Typed DEF WorkerInv, TypeOK, OutcomeMeans, Means
<1>3. PICK to \in Waiting : to = pc[t]
  BY <1>1
<1>. QED BY <1>1, <1>2, <1>3, Typed, WaitKeeps

\* The worker is terminated before the reset.
LEMMA CollectTimeoutInv ==
    ASSUME WorkerInv, NEW t \in Threads, CollectTimeout(t)
    PROVE  WorkerInv'
<1>1. /\ alive' = {} /\ inbox' \in [Ids -> OptIds] /\ running' \in [Ids -> OptIds]
      /\ \A w \in Ids : inbox'[w] = 0 /\ running'[w] = 0
  BY Typed DEF CollectTimeout
<1>2. /\ InFlight(t) /\ Return(t, "timeout") /\ worker' = 0 /\ activeId' = 0 /\ pending' = {}
      /\ cancelling = 0 /\ UNCHANGED <<cancelled, cancelling, outbox, interrupted>>
  BY DEF CollectTimeout
<1>. QED BY <1>1, <1>2, ReturnKeeps

\* The worker is dead already, so the reset drops no live one.
LEMMA CollectExitedInv ==
    ASSUME WorkerInv, NEW t \in Threads, CollectExited(t)
    PROVE  WorkerInv'
<1>1. pc[t] \in Waiting /\ outcome[t] = "exited"
  BY DEF CollectExited
<1>2. seen[t] \notin alive /\ worker \in {0, seen[t]}
  BY <1>1 DEF WorkerInv, OutcomeMeans, Means, OnePlace, InOnePlace
<1>3. alive = {}
  BY <1>2, Typed
<1>. QED BY <1>3, Typed, ReturnKeeps DEF CollectExited

\* With a result, the worker is idle; after a cancellation, it is gone.
LEMMA CollectResultInv ==
    ASSUME WorkerInv, NEW t \in Threads, CollectResult(t)
    PROVE  WorkerInv'
<1>1. /\ pc[t] = "collect" /\ InFlight(t) /\ outcome[t] \in {"ok", "cancelled"} /\ t # Main
      /\ Return(t, outcome[t]) /\ cancelling = 0
      /\ UNCHANGED <<worker, pending, cancelled, cancelling, childVars, interrupted>>
  BY DEF CollectResult
<1>2. my[t] = lastCmd /\ \A u \in Threads : InFlight(u) => u = t
  BY <1>1 DEF WorkerInv, OneInFlight
<1>3. activeId' = 0
  <2>1. activeId \in {0, my[t]}
    BY <1>2 DEF WorkerInv, ActiveInFlight
  <2>. QED BY <2>1 DEF CollectResult
<1>4. ASSUME NEW w \in alive PROVE inbox[w] = 0 /\ running[w] = 0 /\ outbox[w] = <<>>
  <2>1. Means(t) /\ InOnePlace(t)
    BY <1>1 DEF WorkerInv, OutcomeMeans, OnePlace
  <2>2. w = worker /\ worker # 0
    BY Typed
  <2>3. w = seen[t] /\ outcome[t] = "ok"
    BY <2>1, <2>2, <1>1 DEF Means, InOnePlace
  <2>. QED BY <2>1, <2>3 DEF Means
<1>5. outcome[t] = "ok" => lastCmd \notin interrupted
  BY <1>1, <1>2 DEF WorkerInv, InterruptedState, NoAnswer
<1>6. PICK how \in {"ok", "cancelled"} : how = outcome[t]
  BY <1>1
<1>. QED BY <1>1, <1>3, <1>4, <1>5, <1>6, Typed, ReturnKeeps

\* A worker that is not alive needs no shutdown.
LEMMA NothingToShutDownInv ==
    ASSUME WorkerInv, NothingToShutDown
    PROVE  WorkerInv'
<1>1. pc[Main] = "send" /\ alive = {} /\ cancelling = 0 /\ Return(Main, "ok")
  BY Typed DEF NothingToShutDown
<1>2. lastCmd \notin interrupted
  BY <1>1, Typed DEF WorkerInv, InterruptedState
<1>. QED BY <1>1, <1>2, Typed, ReturnKeeps DEF NothingToShutDown

LEMMA SendShutdownInv ==
    ASSUME WorkerInv, SendShutdown
    PROVE  WorkerInv'
<1>1. worker \in Ids /\ alive = {worker}
  BY Typed DEF SendShutdown
<1>2. running[worker] = 0 /\ outbox[worker] = <<>>
  BY <1>1, NobodyWaits DEF SendShutdown
<1>. QED BY <1>1, <1>2, Typed, PutKeeps DEF Handed, SendShutdown

LEMMA CollectShutdownRaisesInv ==
    ASSUME WorkerInv, CollectShutdownRaises
    PROVE  WorkerInv'
<1>1. worker = 0 /\ alive = {} /\ activeId = 0 /\ cancelling = 0 /\ pc[Main] \in Waiting
  BY ClosedIsOver DEF CollectShutdownRaises
<1>. QED BY <1>1, Typed, ReturnKeeps DEF CollectShutdownRaises

\* Whatever the worker made of the shutdown command, it is gone afterwards.
LEMMA CollectShutdownInv ==
    ASSUME WorkerInv, CollectShutdown
    PROVE  WorkerInv'
<1>1. /\ pc[Main] = "collect" /\ InFlight(Main) /\ Kill({worker}) /\ ~Closed(Main)
      /\ worker' = 0 /\ activeId' = 0 /\ pending' = {} /\ cancelling = 0
      /\ UNCHANGED <<cancelled, cancelling, outbox, interrupted>>
  BY DEF CollectShutdown
<1>2. /\ worker = seen[Main] /\ worker # 0 /\ my[Main] = lastCmd
      /\ alive' = {} /\ inbox' \in [Ids -> OptIds] /\ running' \in [Ids -> OptIds]
      /\ \A w \in Ids : inbox'[w] = 0 /\ running'[w] = 0
  <2>1. seen[Main] \in Ids
    BY <1>1 DEF WorkerInv, OnePlace, InOnePlace
  <2>2. worker = seen[Main] /\ worker # 0 /\ my[Main] = lastCmd
    BY <1>1, <2>1, Typed
  <2>3. alive' = {} /\ inbox' \in [Ids -> OptIds] /\ running' \in [Ids -> OptIds]
    BY <1>1, <2>2, Typed
  <2>4. \A w \in Ids : inbox'[w] = 0 /\ running'[w] = 0
    BY <1>1, <2>2, Typed
  <2>. QED BY <2>2, <2>3, <2>4
<1>3. PICK how \in {"ok", "timeout"} : /\ Return(Main, how)
                                       /\ how = "ok" => worker \notin alive
  BY DEF CollectShutdown
<1>4. lastCmd \notin interrupted
  <2>1. pc[Main] \in Waiting /\ cancelling # my[Main] /\ worker # 0
    BY <1>1, <1>2, Typed
  <2>. QED BY <1>2, <2>1 DEF WorkerInv, InterruptedState, NoAnswer
<1>. QED BY <1>1, <1>2, <1>3, <1>4, ReturnKeeps

\* The active command is in flight (ActiveInFlight); if it has no answer it gets none.
LEMMA CancelKillsInv ==
    ASSUME WorkerInv, CancelKills
    PROVE  WorkerInv'
<1> USE DEF WorkerInv, CancelKills
<1>1. TypeOK'
  <2>1. worker' \in OptIds /\ activeId' \in OptIds /\ cancelling' \in OptIds /\ lastCmd' \in OptIds
    BY DEF TypeOK
  <2>2. pending' \subseteq Ids /\ cancelled' \subseteq Ids /\ interrupted' \subseteq Ids
    <3>1. activeId \in Ids
      BY DEF TypeOK
    <3>. QED BY <3>1 DEF TypeOK
  <2>3. pc' \in [Threads -> Waiting \cup {"idle", "send", "done"}]
    BY DEF TypeOK
  <2>4. my' \in [Threads -> OptIds] /\ seen' \in [Threads -> OptIds]
    BY DEF TypeOK
  <2>5. expired' \in [Threads -> BOOLEAN]
    BY DEF TypeOK
  <2>6. outcome' \in [Threads -> {"none", "ok", "cancelled", "timeout", "exited"}]
    BY DEF TypeOK
  <2>7. alive' \subseteq Ids /\ inbox' \in [Ids -> OptIds]
    BY DEF TypeOK
  <2>8. running' \in [Ids -> OptIds]
    BY DEF TypeOK
  <2>9. outbox' \in [Ids -> Seq(Ids)]
    BY DEF TypeOK
  <2>10. result' \in [Ids -> {"none", "ok", "cancelled", "timeout", "failed", "raised"}]
    BY DEF TypeOK
  <2>. QED BY <2>1, <2>2, <2>3, <2>4, <2>5, <2>6, <2>7, <2>8, <2>9, <2>10 DEF TypeOK
<1>2. OneInFlight'
  BY DEF TypeOK, OneInFlight
<1>3. ResultPending'
  BY DEF TypeOK, OneInFlight, ResultPending
<1>4. SingleWorker'
  BY DEF TypeOK, SingleWorker, OnePlace, InOnePlace
<1>5. pending' = {}
  OBVIOUS
<1>6. WorkBelongs'
  BY DEF TypeOK, OneInFlight, SingleWorker, WorkBelongs, OnePlace, InOnePlace
<1>7. OnePlace'
  BY DEF TypeOK, OneInFlight, OnePlace, InOnePlace, ActiveInFlight, OutcomeMeans, Means
<1>8. NoLeftovers'
  BY DEF TypeOK, NoLeftovers
<1>9. OutcomeMeans'
  BY DEF TypeOK, OneInFlight, OnePlace, InOnePlace, OutcomeMeans, Means, ActiveInFlight,
     OutcomeMeans, Means
<1>10. ActiveInFlight'
  BY DEF TypeOK, OneInFlight, OnePlace, InOnePlace, ActiveInFlight
<1>11. CancelState'
  <2>1. alive' = {}
    BY DEF SingleWorker
  <2>. QED BY <2>1 DEF CancelState
<1>12. InterruptedState'
  <2>1. PICK u \in Threads : pc[u] \in Waiting /\ my[u] = activeId /\ seen[u] = worker
    BY DEF ActiveInFlight
  <2>2. alive' = {}
    BY DEF SingleWorker
  <2>3. \A v \in Threads : pc[v] \in Waiting => v = u
    BY <2>1 DEF OneInFlight
  <2>4. activeId \in Ids /\ activeId <= lastCmd /\ result[activeId] = "none"
    BY <2>1 DEF OneInFlight, ResultPending, TypeOK
  <2>5. \A c \in interrupted' : c <= lastCmd /\ result[c] # "ok"
    BY <2>4 DEF InterruptedState
  <2>6. pc[u] # "send" /\ \A v \in Threads : pc[v] # "send"
    BY <2>1 DEF OneInFlight
  <2>7. ASSUME my[u] \in interrupted'
        PROVE  NoAnswer(u)'
    <3>1. CASE my[u] \in interrupted
      BY <2>1, <2>2, <3>1 DEF InterruptedState, NoAnswer
    <3>2. CASE my[u] \notin interrupted
      <4>1. my[u] \in {inbox[worker], running[worker]} /\ my[u] # 0
        BY <2>1, <2>4, <2>7, <3>2
      <4>2. outbox[seen[u]] = <<>> /\ outcome[u] # "ok"
        BY <2>1, <4>1 DEF OnePlace, InOnePlace, OutcomeMeans, Means
      <4>. QED BY <2>1, <2>2, <4>2 DEF NoAnswer
    <3>. QED BY <3>1, <3>2
  <2>. QED BY <2>3, <2>5, <2>6, <2>7 DEF InterruptedState
<1>13. ShutdownLeavesNoWorker'
  BY DEF TypeOK, OneInFlight, SingleWorker, OnePlace, InOnePlace, ShutdownLeavesNoWorker
<1>. QED BY <1>1, <1>2, <1>3, <1>4, <1>5, <1>6, <1>7, <1>8, <1>9, <1>10, <1>11, <1>12, <1>13

\* The worker is dead already when its handle is dropped.
LEMMA CancelInjectsInv ==
    ASSUME WorkerInv, CancelInjects
    PROVE  WorkerInv'
<1> USE DEF WorkerInv, CancelInjects
<1>1. TypeOK'
  <2>1. worker' \in OptIds /\ activeId' \in OptIds /\ cancelling' \in OptIds /\ lastCmd' \in OptIds
    BY DEF TypeOK
  <2>2. pending' \subseteq Ids /\ cancelled' \subseteq Ids /\ interrupted' \subseteq Ids
    BY DEF TypeOK
  <2>3. pc' \in [Threads -> Waiting \cup {"idle", "send", "done"}]
    BY DEF TypeOK
  <2>4. my' \in [Threads -> OptIds] /\ seen' \in [Threads -> OptIds]
    BY DEF TypeOK
  <2>5. expired' \in [Threads -> BOOLEAN]
    BY DEF TypeOK
  <2>6. outcome' \in [Threads -> {"none", "ok", "cancelled", "timeout", "exited"}]
    BY DEF TypeOK
  <2>7. alive' \subseteq Ids /\ inbox' \in [Ids -> OptIds]
    BY DEF TypeOK
  <2>8. running' \in [Ids -> OptIds]
    BY DEF TypeOK
  <2>9. outbox' \in [Ids -> Seq(Ids)]
    BY DEF TypeOK
  <2>10. result' \in [Ids -> {"none", "ok", "cancelled", "timeout", "failed", "raised"}]
    BY DEF TypeOK
  <2>. QED BY <2>1, <2>2, <2>3, <2>4, <2>5, <2>6, <2>7, <2>8, <2>9, <2>10 DEF TypeOK
<1>2. OneInFlight'
  BY DEF TypeOK, OneInFlight
<1>3. ResultPending'
  BY DEF TypeOK, OneInFlight, ResultPending
<1>4. SingleWorker'
  BY DEF TypeOK, SingleWorker, OnePlace, InOnePlace, ActiveInFlight, CancelState
<1>5. pending' = {}
  OBVIOUS
<1>6. WorkBelongs'
  BY DEF TypeOK, OneInFlight, SingleWorker, WorkBelongs, OnePlace, InOnePlace,
     ActiveInFlight, CancelState
<1>7. OnePlace'
  BY DEF TypeOK, OneInFlight, OnePlace, InOnePlace, ActiveInFlight, CancelState
<1>8. NoLeftovers'
  BY DEF TypeOK, NoLeftovers
<1>9. OutcomeMeans'
  BY DEF TypeOK, OneInFlight, OnePlace, InOnePlace, OutcomeMeans, Means, ActiveInFlight,
     CancelState
<1>10. ActiveInFlight'
  BY DEF TypeOK, OneInFlight, OnePlace, InOnePlace, ActiveInFlight
<1>11. CancelState'
  BY SMTT(30) DEF TypeOK, OneInFlight, OnePlace, InOnePlace, ActiveInFlight, CancelState,
     ActiveInFlight, CancelState
<1>12. InterruptedState'
  BY DEF TypeOK, OneInFlight, OnePlace, InOnePlace, CancelState, InterruptedState, NoAnswer,
     ActiveInFlight, CancelState
<1>13. ShutdownLeavesNoWorker'
  BY DEF TypeOK, OneInFlight, SingleWorker, OnePlace, InOnePlace, ShutdownLeavesNoWorker,
     ActiveInFlight, CancelState
<1>. QED BY <1>1, <1>2, <1>3, <1>4, <1>5, <1>6, <1>7, <1>8, <1>9, <1>10, <1>11, <1>12, <1>13

\* The command moves from the queue into execution.
LEMMA ChildTakesInv ==
    ASSUME WorkerInv, NEW w \in Ids, ChildTakes(w)
    PROVE  WorkerInv'
<1> USE DEF WorkerInv, ChildTakes
<1>1. TypeOK'
  BY DEF TypeOK
<1>2. OneInFlight'
  BY DEF TypeOK, OneInFlight
<1>3. ResultPending'
  BY DEF TypeOK, OneInFlight, ResultPending
<1>4. SingleWorker'
  BY DEF TypeOK, SingleWorker, OnePlace, InOnePlace
<1>5. pending' = {}
  OBVIOUS
<1>6. WorkBelongs'
  BY DEF TypeOK, OneInFlight, SingleWorker, WorkBelongs, OnePlace, InOnePlace
<1>7. OnePlace'
  <2> SUFFICES ASSUME NEW u \in Threads, pc'[u] \in Waiting
               PROVE  InOnePlace(u)'
    BY DEF OnePlace
  <2>1. InOnePlace(u) /\ seen'[u] = seen[u] /\ worker' = worker /\ my'[u] = my[u] /\ outbox' = outbox
    BY DEF OnePlace
  <2>2. CASE w # seen[u]
    <3>1. inbox'[seen[u]] = inbox[seen[u]] /\ running'[seen[u]] = running[seen[u]]
      BY <2>2 DEF TypeOK
    <3>. QED BY <2>1, <3>1 DEF InOnePlace
  <2>3. CASE w = seen[u]
    <3>1. inbox'[seen[u]] = 0 /\ running'[seen[u]] = my[u] /\ outbox[seen[u]] = <<>>
      BY <2>1, <2>3 DEF TypeOK, InOnePlace
    <3>. QED BY <2>1, <3>1 DEF InOnePlace
  <2>. QED BY <2>2, <2>3
<1>8. NoLeftovers'
  BY DEF TypeOK, NoLeftovers
<1>9. OutcomeMeans'
  <2> SUFFICES ASSUME NEW u \in Threads, pc'[u] \in Waiting
               PROVE  Means(u)'
    BY DEF OutcomeMeans
  <2>. QED BY SMTT(30), OneElement DEF TypeOK, OneInFlight, OnePlace, InOnePlace,
     OutcomeMeans, Means
<1>10. ActiveInFlight'
  BY DEF TypeOK, OneInFlight, OnePlace, InOnePlace, ActiveInFlight
<1>11. CancelState'
  BY DEF TypeOK, OneInFlight, OnePlace, InOnePlace, ActiveInFlight, CancelState
<1>12. InterruptedState'
  BY DEF TypeOK, OneInFlight, OnePlace, InOnePlace, CancelState, InterruptedState, NoAnswer
<1>13. ShutdownLeavesNoWorker'
  BY DEF TypeOK, OneInFlight, SingleWorker, OnePlace, InOnePlace, ShutdownLeavesNoWorker
<1>. QED BY <1>1, <1>2, <1>3, <1>4, <1>5, <1>6, <1>7, <1>8, <1>9, <1>10, <1>11, <1>12, <1>13

\* The process answers: the command leaves it, and its result is the only one.
LEMMA AnswerKeeps ==
    ASSUME WorkerInv, NEW w \in alive, running[w] # 0, ChildAnswers(w),
           alive' = alive \/ alive' = alive \ {w}
    PROVE  WorkerInv'
<1>1. PICK t \in Threads : pc[t] \in Waiting /\ seen[t] = w
  BY DEF WorkerInv, WorkBelongs
<1>2. /\ w \in Ids /\ w = worker /\ alive = {w} /\ my[t] = lastCmd /\ lastCmd \in Ids
      /\ inbox[w] = 0 /\ running[w] = my[t] /\ outbox[w] = <<>>
      /\ \A u \in Threads : InFlight(u) => u = t
  <2>1. w \in Ids /\ w = worker /\ alive = {w} /\ my[t] = lastCmd /\ lastCmd \in Ids
    BY <1>1, Typed
  <2>2. \A u \in Threads : InFlight(u) => u = t
    BY <1>1 DEF WorkerInv, OneInFlight
  <2>3. InOnePlace(t)
    BY <1>1 DEF WorkerInv, OnePlace
  <2>. QED BY <1>1, <2>1, <2>2, <2>3 DEF InOnePlace
<1>3. /\ outbox' \in [Ids -> Seq(Ids)] /\ running' \in [Ids -> OptIds]
      /\ outbox'[w] = <<my[t]>> /\ running'[w] = 0
      /\ \A v \in Ids \ {w} : outbox'[v] = outbox[v] /\ running'[v] = running[v]
  <2>1. /\ outbox' = [outbox EXCEPT ![w] = Append(<<>>, my[t])]
        /\ running' = [running EXCEPT ![w] = 0]
    BY <1>2
  <2>2. Append(<<>>, my[t]) = <<my[t]>> /\ <<my[t]>> \in Seq(Ids)
    BY <1>2, OneElement
  <2>3. outbox \in [Ids -> Seq(Ids)] /\ running \in [Ids -> OptIds] /\ w \in Ids
    BY <1>2, Typed
  <2>4. outbox' = [outbox EXCEPT ![w] = <<my[t]>>]
    BY <2>1, <2>2
  <2>5. outbox' \in [Ids -> Seq(Ids)]
    BY <2>2, <2>3, <2>4
  <2>6. running' \in [Ids -> OptIds]
    BY <2>1, <2>3
  <2>. QED BY <2>1, <2>3, <2>4, <2>5, <2>6
<1>4. UNCHANGED <<managerVars, threadVars, inbox, historyVars>>
  OBVIOUS
<1>5. TypeOK'
  BY <1>2, <1>3, <1>4 DEF WorkerInv, TypeOK
<1>6. OneInFlight' /\ ResultPending'
  BY <1>4 DEF WorkerInv, OneInFlight, ResultPending
<1>7. SingleWorker' /\ NoLeftovers' /\ ShutdownLeavesNoWorker'
  BY <1>2, <1>3, <1>4 DEF WorkerInv, SingleWorker, NoLeftovers, ShutdownLeavesNoWorker
<1>8. WorkBelongs'
  BY <1>1, <1>2, <1>4 DEF WorkBelongs
<1>9. OnePlace'
  <2>1. InOnePlace(t)'
    BY <1>1, <1>2, <1>3, <1>4 DEF InOnePlace
  <2>. QED BY <1>2, <1>4, <2>1 DEF OnePlace
<1>10. OutcomeMeans'
  <2>1. Means(t) /\ outcome[t] # "cancelled" /\ outcome[t] # "ok"
    BY <1>1, <1>2 DEF WorkerInv, OutcomeMeans, Means
  <2>2. Means(t)'
    BY <2>1, <1>1, <1>2, <1>4 DEF Means
  <2>. QED BY <1>2, <1>4, <2>2 DEF OutcomeMeans
<1>11. ActiveInFlight'
  BY <1>4 DEF WorkerInv, ActiveInFlight
<1>12. CancelState'
  BY <1>2, <1>4 DEF WorkerInv, CancelState
<1>13. InterruptedState'
  <2>1. my[t] \notin interrupted
    BY <1>1, <1>2 DEF WorkerInv, InterruptedState, NoAnswer
  <2>. QED BY <1>2, <1>4, <2>1 DEF WorkerInv, InterruptedState
<1>. QED
  BY <1>4, <1>5, <1>6, <1>7, <1>8, <1>9, <1>10, <1>11, <1>12, <1>13 DEF WorkerInv

LEMMA ChildFinishesInv ==
    ASSUME WorkerInv, NEW w \in Ids, ChildFinishes(w)
    PROVE  WorkerInv'
BY AnswerKeeps DEF ChildFinishes

LEMMA ChildShutsDownInv ==
    ASSUME WorkerInv, NEW w \in Ids, ChildShutsDown(w)
    PROVE  WorkerInv'
BY AnswerKeeps DEF ChildShutsDown

\* What a dead process held is gone.
LEMMA ChildDiesInv ==
    ASSUME WorkerInv, NEW w \in Ids, ChildDies(w)
    PROVE  WorkerInv'
<1> USE DEF WorkerInv, ChildDies
<1>1. TypeOK'
  BY SMTT(40) DEF TypeOK
<1>2. OneInFlight'
  BY DEF TypeOK, OneInFlight
<1>3. ResultPending'
  BY DEF TypeOK, OneInFlight, ResultPending
<1>4. SingleWorker'
  BY DEF TypeOK, SingleWorker, OnePlace, InOnePlace
<1>5. pending' = {}
  OBVIOUS
<1>6. WorkBelongs'
  BY DEF TypeOK, OneInFlight, SingleWorker, WorkBelongs, OnePlace, InOnePlace
<1>7. OnePlace'
  BY DEF TypeOK, OneInFlight, OnePlace, InOnePlace
<1>8. NoLeftovers'
  BY DEF TypeOK, NoLeftovers
<1>9. OutcomeMeans'
  BY DEF TypeOK, OneInFlight, OnePlace, InOnePlace, OutcomeMeans, Means
<1>10. ActiveInFlight'
  BY DEF TypeOK, OneInFlight, OnePlace, InOnePlace, ActiveInFlight
<1>11. CancelState'
  BY DEF TypeOK, OneInFlight, OnePlace, InOnePlace, ActiveInFlight, CancelState
<1>12. InterruptedState'
  BY DEF TypeOK, OneInFlight, OnePlace, InOnePlace, CancelState, InterruptedState, NoAnswer
<1>13. ShutdownLeavesNoWorker'
  BY DEF TypeOK, OneInFlight, SingleWorker, OnePlace, InOnePlace, ShutdownLeavesNoWorker
<1>. QED BY <1>1, <1>2, <1>3, <1>4, <1>5, <1>6, <1>7, <1>8, <1>9, <1>10, <1>11, <1>12, <1>13

\* Nothing changes.
LEMMA StutterInv ==
    ASSUME WorkerInv, UNCHANGED vars
    PROVE  WorkerInv'
<1> USE DEF WorkerInv, vars
<1>1. TypeOK'
  BY DEF TypeOK
<1>2. OneInFlight'
  BY DEF OneInFlight
<1>3. ResultPending'
  BY DEF ResultPending
<1>4. SingleWorker'
  BY DEF SingleWorker
<1>5. pending' = {}
  OBVIOUS
<1>6. WorkBelongs'
  BY DEF WorkBelongs
<1>7. OnePlace'
  BY DEF OnePlace, InOnePlace
<1>8. NoLeftovers'
  BY DEF NoLeftovers
<1>9. OutcomeMeans'
  BY DEF OutcomeMeans, Means
<1>10. ActiveInFlight'
  BY DEF ActiveInFlight
<1>11. CancelState'
  BY DEF CancelState
<1>12. InterruptedState'
  BY DEF InterruptedState, NoAnswer
<1>13. ShutdownLeavesNoWorker'
  BY DEF ShutdownLeavesNoWorker
<1>. QED BY <1>1, <1>2, <1>3, <1>4, <1>5, <1>6, <1>7, <1>8, <1>9, <1>10, <1>11, <1>12, <1>13

\* WorkerInv is inductive: one step per action of Next.
LEMMA InvNext == WorkerInv /\ [Next]_vars => WorkerInv'
<1> SUFFICES ASSUME WorkerInv, [Next]_vars PROVE WorkerInv'
  OBVIOUS
<1>1. ASSUME NEW t \in Threads, Lock(t) PROVE WorkerInv'
  BY <1>1, LockInv
<1>2. ASSUME NEW t \in Threads, SendToWorker(t) PROVE WorkerInv'
  BY <1>2, SendToWorkerInv
<1>3. ASSUME NEW t \in Threads, SendToNewWorker(t) PROVE WorkerInv'
  BY <1>3, SendToNewWorkerInv
<1>4. ASSUME NEW t \in Threads, SendFails(t) PROVE WorkerInv'
  BY <1>4, SendFailsInv
<1>5. ASSUME NEW t \in Threads, ClaimPending(t) PROVE WorkerInv'
  BY <1>5, ClaimPendingInv
<1>6. ASSUME NEW t \in Threads, CheckDeadline(t) PROVE WorkerInv'
  BY <1>6, CheckDeadlineInv
<1>7. ASSUME NEW t \in Threads, GetRaises(t) PROVE WorkerInv'
  BY <1>7, GetRaisesInv
<1>8. ASSUME NEW t \in Threads, GetWaits(t) PROVE WorkerInv'
  BY <1>8, GetWaitsInv
<1>9. ASSUME NEW t \in Threads, GetEnvelope(t) PROVE WorkerInv'
  BY <1>9, GetEnvelopeInv
<1>10. ASSUME NEW t \in Threads, GetEmpty(t) PROVE WorkerInv'
  BY <1>10, GetEmptyInv
<1>11. ASSUME NEW t \in Threads, RecheckCancelled(t) PROVE WorkerInv'
  BY <1>11, RecheckCancelledInv
<1>12. ASSUME NEW t \in Threads, IsAliveRaises(t) PROVE WorkerInv'
  BY <1>12, IsAliveRaisesInv
<1>13. ASSUME NEW t \in Threads, CheckAlive(t) PROVE WorkerInv'
  BY <1>13, CheckAliveInv
<1>14. ASSUME NEW t \in Threads, Expire(t) PROVE WorkerInv'
  BY <1>14, ExpireInv
<1>15. ASSUME NEW t \in Threads, CollectTimeout(t) PROVE WorkerInv'
  BY <1>15, CollectTimeoutInv
<1>16. ASSUME NEW t \in Threads, CollectExited(t) PROVE WorkerInv'
  BY <1>16, CollectExitedInv
<1>17. ASSUME NEW t \in Threads, CollectResult(t) PROVE WorkerInv'
  BY <1>17, CollectResultInv
<1>18. CASE NothingToShutDown
  BY <1>18, NothingToShutDownInv
<1>19. CASE SendShutdown
  BY <1>19, SendShutdownInv
<1>20. CASE CollectShutdownRaises
  BY <1>20, CollectShutdownRaisesInv
<1>21. CASE CollectShutdown
  BY <1>21, CollectShutdownInv
<1>22. CASE CancelKills
  BY <1>22, CancelKillsInv
<1>23. CASE CancelInjects
  BY <1>23, CancelInjectsInv
<1>24. ASSUME NEW w \in Ids, ChildTakes(w) PROVE WorkerInv'
  BY <1>24, ChildTakesInv
<1>25. ASSUME NEW w \in Ids, ChildFinishes(w) PROVE WorkerInv'
  BY <1>25, ChildFinishesInv
<1>26. ASSUME NEW w \in Ids, ChildShutsDown(w) PROVE WorkerInv'
  BY <1>26, ChildShutsDownInv
<1>27. ASSUME NEW w \in Ids, ChildDies(w) PROVE WorkerInv'
  BY <1>27, ChildDiesInv
<1>28. CASE UNCHANGED vars
  BY <1>28, StutterInv
<1>. QED
  BY <1>1, <1>2, <1>3, <1>4, <1>5, <1>6, <1>7, <1>8, <1>9, <1>10, <1>11, <1>12, <1>13,
     <1>14, <1>15, <1>16, <1>17, <1>18, <1>19, <1>20, <1>21, <1>22, <1>23, <1>24, <1>25, <1>26,
     <1>27, <1>28
  DEF Next, Proceed, Call, Wait, Collect, Shutdown, Cancel, Child

\* The strengthened invariant holds in every reachable state.
THEOREM InvAlways == Spec => []WorkerInv
<1>1. Init => WorkerInv
  BY InvInit
<1>2. WorkerInv /\ [Next]_vars => WorkerInv'
  BY InvNext
<1>. QED BY <1>1, <1>2, PTL DEF Spec

\* The fields of the manager and of the processes keep their types.
THEOREM TypeCorrect == Spec => []TypeOK
<1>1. WorkerInv => TypeOK
  BY DEF WorkerInv
<1>. QED BY <1>1, InvAlways, PTL

\* No reset loses a live worker: the process that can drive the robot is the one
\* that the manager holds.
THEOREM OneWorker == Spec => []SingleWorker
<1>1. WorkerInv => SingleWorker
  BY DEF WorkerInv
<1>. QED BY <1>1, InvAlways, PTL

\* When run_command has returned or raised, by whatever branch, no live worker
\* executes that command or has it queued: an answer "failed", "timeout" or
\* "cancelled" means that the robot gets no more calls from it.
ReturnedMeansStopped ==
    \A w \in alive : \A c \in {inbox[w], running[w]} \ {0} : result[c] = "none"

\* When run_command has returned or raised, no live worker has that command.
THEOREM ReturnStopsCommand == Spec => []ReturnedMeansStopped
<1>1. WorkerInv => ReturnedMeansStopped
  <2> SUFFICES ASSUME WorkerInv, NEW w \in alive,
                      NEW c \in {inbox[w], running[w]} \ {0}
               PROVE  result[c] = "none"
    BY DEF ReturnedMeansStopped
  <2>1. PICK t \in Threads : pc[t] \in Waiting /\ seen[t] = w
    BY DEF WorkerInv, WorkBelongs
  <2>2. c = my[t]
    BY <2>1 DEF WorkerInv, OnePlace, InOnePlace
  <2>. QED BY <2>1, <2>2 DEF WorkerInv, OneInFlight, ResultPending
<1>. QED BY <1>1, InvAlways, PTL

\* Between commands the live worker and its queues are empty, and no result is
\* ever kept for another command.
THEOREM WorkerIdleBetweenCommands == Spec => []IdleBetweenCommands
<1>1. WorkerInv => IdleBetweenCommands
  BY DEF WorkerInv, WorkBelongs, IdleBetweenCommands
<1>. QED BY <1>1, InvAlways, PTL

\* The command a cancel acts on has not returned.
THEOREM CancelIsCurrent == Spec => []CancelHitsLiveCommand
<1>1. WorkerInv => CancelHitsLiveCommand
  BY DEF WorkerInv, OneInFlight, ResultPending, ActiveInFlight, CancelHitsLiveCommand
<1>. QED BY <1>1, InvAlways, PTL

\* A command that a cancel stopped never reports success.
THEOREM InterruptedFails == Spec => []InterruptedNeverSucceeds
<1>1. WorkerInv => InterruptedNeverSucceeds
  BY DEF WorkerInv, InterruptedState, InterruptedNeverSucceeds
<1>. QED BY <1>1, InvAlways, PTL

\* After shutdown the worker it found does not run.
THEOREM ShutdownStopsWorker == Spec => []ShutdownLeavesNoWorker
<1>1. WorkerInv => ShutdownLeavesNoWorker
  BY DEF WorkerInv
<1>. QED BY <1>1, InvAlways, PTL

----------------------------------------------------------------------------
(* The manager implements CommandService.                                 *)

\* What CommandService needs beyond WorkerInv: a command without a result is in
\* flight, and its answer is in no other queue than the one its call waits on.
ServiceInv ==
    /\ \A c \in Ids : c <= lastCmd /\ result[c] = "none" =>
         \E t \in Threads : InFlight(t) /\ my[t] = c
    /\ pc[Main] = "idle" => my[Main] = 0
    /\ \A w \in Ids : \A c \in Sent(w) : c <= lastCmd
    /\ \A t \in Threads : InFlight(t) =>
         \A w \in Ids : my[t] \in Sent(w) => pc[t] \in Waiting /\ w = seen[t]

\* The answers in a queue that is empty or holds one.
LEMMA SentOne ==
    ASSUME TypeOK, NEW w \in Ids
    PROVE  /\ outbox[w] = <<>> => Sent(w) = {}
           /\ \A c \in Ids : outbox[w] = <<c>> => Sent(w) = {c}
           /\ Sent(w) \subseteq Ids
<1>1. outbox[w] = <<>> => Sent(w) = {}
  BY DEF Sent
<1>2. ASSUME NEW c \in Ids, outbox[w] = <<c>> PROVE Sent(w) = {c}
  <2>1. DOMAIN outbox[w] = 1 .. 1 /\ outbox[w][1] = c
    BY <1>2
  <2>. QED BY <2>1 DEF Sent
<1>3. Sent(w) \subseteq Ids
  <2>1. outbox[w] \in Seq(Ids)
    BY DEF TypeOK
  <2>2. DOMAIN outbox[w] = 1 .. Len(outbox[w]) /\ \A i \in 1 .. Len(outbox[w]) : outbox[w][i] \in Ids
    BY <2>1
  <2>. QED BY <2>2 DEF Sent
<1>. QED BY <1>1, <1>2, <1>3

\* As long as no queue changes, neither do the answers.
LEMMA SentSame == ASSUME NEW w, outbox'[w] = outbox[w] PROVE Sent(w)' = Sent(w)
BY DEF Sent

\* A step that leaves calls, results and answers alone keeps it.
LEMMA ServiceKept ==
    ASSUME ServiceInv, outbox' = outbox, UNCHANGED <<lastCmd, my, result>>,
           \A t \in Threads : /\ InFlight(t)' <=> InFlight(t)
                              /\ pc[t] \in Waiting => pc'[t] \in Waiting /\ seen'[t] = seen[t],
           pc'[Main] = "idle" => pc[Main] = "idle"
    PROVE  ServiceInv'
<1>1. \A w \in Ids : Sent(w)' = Sent(w)
  BY SentSame
<1>. QED BY <1>1 DEF ServiceInv

\* So does the end of the one call in flight.
LEMMA ServiceReturned ==
    ASSUME WorkerInv, ServiceInv, NEW t \in Threads, InFlight(t),
           NEW how \in Results \ {"none"}, Return(t, how), outbox' = outbox
    PROVE  ServiceInv'
<1>1. \A w \in Ids : Sent(w)' = Sent(w)
  BY SentSame
<1>2. /\ my[t] = lastCmd /\ lastCmd \in Ids /\ lastCmd' = lastCmd /\ my' = my
      /\ \A u \in Threads : InFlight(u) => u = t
      /\ result' = [result EXCEPT ![lastCmd] = how] /\ result \in [Ids -> Results]
      /\ pc' = [pc EXCEPT ![t] = IF t = Main THEN "done" ELSE "idle"]
      /\ pc \in [Threads -> Waiting \cup {"idle", "send", "done"}]
  BY DEF WorkerInv, OneInFlight, TypeOK
<1>3. \A u \in Threads : ~InFlight(u)'
  BY <1>2
<1>4. ASSUME NEW c \in Ids, c <= lastCmd PROVE result'[c] # "none"
  <2>1. CASE c = lastCmd
    BY <2>1, <1>2
  <2>2. CASE c # lastCmd
    BY <2>2, <1>2, <1>4 DEF ServiceInv
  <2>. QED BY <2>1, <2>2
<1>5. pc'[Main] = "idle" => my'[Main] = 0
  BY <1>2 DEF ServiceInv
<1>. QED BY <1>1, <1>2, <1>3, <1>4, <1>5 DEF ServiceInv

LEMMA ServiceInit == Init => ServiceInv
BY DEF Init, ServiceInv, Sent

\* Inductive, given WorkerInv.
LEMMA ServiceNext == WorkerInv /\ ServiceInv /\ [Next]_vars => ServiceInv'
<1> SUFFICES ASSUME WorkerInv, ServiceInv, [Next]_vars PROVE ServiceInv'
  OBVIOUS
<1>0. /\ TypeOK /\ WorkerInv
      /\ pc \in [Threads -> Waiting \cup {"idle", "send", "done"}]
      /\ my \in [Threads -> OptIds] /\ seen \in [Threads -> OptIds]
      /\ outbox \in [Ids -> Seq(Ids)] /\ lastCmd \in OptIds /\ alive \subseteq Ids
      /\ running \in [Ids -> OptIds] /\ inbox \in [Ids -> OptIds]
  BY DEF WorkerInv, TypeOK
<1>1. ASSUME NEW t \in Threads, Lock(t) PROVE ServiceInv'
  <2>1. /\ \A w \in Ids : Sent(w)' = Sent(w)
        /\ \A u \in Threads : ~InFlight(u)
        /\ lastCmd' = lastCmd + 1 /\ my' = [my EXCEPT ![t] = lastCmd + 1]
        /\ pc' = [pc EXCEPT ![t] = "send"] /\ result' = result
    BY <1>1, SentSame DEF Lock
  <2>2. \A u \in Threads : InFlight(u)' <=> u = t
    BY <2>1, <1>0
  <2>3. \A w \in Ids : \A c \in Sent(w) : c <= lastCmd /\ c \in Ids
    BY <1>0, SentOne DEF ServiceInv
  <2>4. ASSUME NEW c \in Ids, c <= lastCmd', result'[c] = "none" PROVE c = my'[t]
    <3>1. ~(c <= lastCmd)
      BY <2>1, <2>4 DEF ServiceInv
    <3>. QED BY <3>1, <2>1, <2>4, <1>0
  <2>5. \A w \in Ids : my'[t] \notin Sent(w)
    BY <2>1, <2>3, <1>0
  <2>6. \A w \in Ids : \A c \in Sent(w) : c <= lastCmd'
    BY <2>1, <2>3, <1>0
  <2>7. pc'[Main] = "idle" => my'[Main] = 0
    BY <2>1, <1>0 DEF ServiceInv
  <2>. QED BY <2>1, <2>2, <2>4, <2>5, <2>6, <2>7 DEF ServiceInv
<1>2. ASSUME NEW t \in Threads, pc[t] = "send",
             \A v \in Ids : outbox'[v] = outbox[v] \/ outbox'[v] = <<>>,
             pc' = [pc EXCEPT ![t] = "claim"], UNCHANGED <<lastCmd, my, result>>
      PROVE  ServiceInv'
  <2>1. \A v \in Ids : Sent(v)' \subseteq Sent(v)
    BY <1>2 DEF Sent
  <2>2. lastCmd' = lastCmd /\ my' = my /\ pc' = [pc EXCEPT ![t] = "claim"]
    BY <1>2
  <2>3. \A u \in Threads : InFlight(u) <=> u = t
    BY <1>2, <1>0 DEF WorkerInv, OneInFlight
  <2>4. \A u \in Threads : InFlight(u)' <=> u = t
    BY <2>2, <2>3, <1>0
  <2>5. \A v \in Ids : my[t] \notin Sent(v)
    BY <1>2, <2>3 DEF ServiceInv
  <2>6. pc'[Main] = "idle" => my'[Main] = 0
    BY <2>2, <1>0 DEF ServiceInv
  <2>. QED BY <1>2, <2>1, <2>2, <2>3, <2>4, <2>5, <2>6 DEF ServiceInv
<1>3. ASSUME NEW t \in Threads, SendToWorker(t) PROVE ServiceInv'
  <2>1. /\ pc[t] = "send" /\ pc' = [pc EXCEPT ![t] = "claim"]
        /\ UNCHANGED <<lastCmd, my, result, outbox>>
    BY <1>3 DEF SendToWorker
  <2>. QED BY <1>2, <2>1
<1>4. ASSUME NEW t \in Threads, SendToNewWorker(t) PROVE ServiceInv'
  <2>1. InFlight(t) /\ my[t] \in Ids
    BY <1>4 DEF SendToNewWorker, WorkerInv, OneInFlight
  <2>2. /\ pc[t] = "send" /\ pc' = [pc EXCEPT ![t] = "claim"]
        /\ UNCHANGED <<lastCmd, my, result>>
        /\ \A v \in Ids : outbox'[v] = outbox[v] \/ outbox'[v] = <<>>
    BY <1>0, <1>4, <2>1 DEF SendToNewWorker
  <2>. QED BY <1>2, <2>2
<1>5. CASE SendShutdown
  <2>1. /\ pc[Main] = "send" /\ pc' = [pc EXCEPT ![Main] = "claim"]
        /\ UNCHANGED <<lastCmd, my, result, outbox>>
    BY <1>5 DEF SendShutdown
  <2>. QED BY <1>2, <2>1
<1>6. ASSUME NEW t \in Threads, SendFails(t) PROVE ServiceInv'
  BY <1>6, ServiceReturned DEF SendFails
<1>7. ASSUME NEW t \in Threads, GetRaises(t) \/ IsAliveRaises(t) PROVE ServiceInv'
  BY <1>7, ServiceReturned DEF GetRaises, IsAliveRaises
<1>8. ASSUME NEW t \in Threads, CollectTimeout(t) \/ CollectExited(t) PROVE ServiceInv'
  BY <1>8, ServiceReturned DEF CollectTimeout, CollectExited
<1>9. ASSUME NEW t \in Threads, CollectResult(t) PROVE ServiceInv'
  BY <1>9, ServiceReturned DEF CollectResult
<1>10. CASE NothingToShutDown
  BY <1>10, ServiceReturned DEF NothingToShutDown
<1>11. CASE CollectShutdownRaises
  BY <1>11, ServiceReturned DEF CollectShutdownRaises
<1>12. CASE CollectShutdown
  <2>1. pc[Main] = "collect" /\ outbox' = outbox
    BY <1>12 DEF CollectShutdown
  <2>2. PICK how \in {"ok", "timeout"} : Return(Main, how)
    BY <1>12 DEF CollectShutdown
  <2>. QED BY <2>1, <2>2, ServiceReturned
<1>13. ASSUME NEW t \in Threads, ClaimPending(t) \/ CheckDeadline(t) \/ GetWaits(t)
                \/ GetEmpty(t) \/ RecheckCancelled(t) \/ CheckAlive(t) \/ Expire(t)
       PROVE  ServiceInv'
  <2>1. /\ outbox' = outbox /\ UNCHANGED <<lastCmd, my, result, seen>>
        /\ pc[t] \in Waiting
        /\ pc' = pc \/ \E where \in Waiting : pc' = [pc EXCEPT ![t] = where]
    BY <1>13 DEF ClaimPending, CheckDeadline, GetWaits, GetEmpty, RecheckCancelled,
       CheckAlive, Expire
  <2>2. \A u \in Threads : /\ InFlight(u)' <=> InFlight(u)
                           /\ pc[u] \in Waiting => pc'[u] \in Waiting
    BY <2>1, <1>0
  <2>3. pc'[Main] = "idle" => pc[Main] = "idle"
    BY <2>1, <1>0
  <2>. QED BY <2>1, <2>2, <2>3, ServiceKept
<1>14. ASSUME NEW t \in Threads, GetEnvelope(t) PROVE ServiceInv'
  <2>1. /\ pc[t] = "poll" /\ seen[t] \in Ids /\ my[t] \in Ids /\ outbox[seen[t]] = <<my[t]>>
        /\ UNCHANGED <<lastCmd, my, result, seen>>
        /\ outbox' = [outbox EXCEPT ![seen[t]] = Tail(@)]
        /\ pc' = [pc EXCEPT ![t] = "collect"]
    <3>1. InOnePlace(t) /\ my[t] \in Ids
      BY <1>14 DEF GetEnvelope, WorkerInv, OnePlace, OneInFlight
    <3>2. outbox[seen[t]] = <<my[t]>>
      BY <3>1, <1>14 DEF GetEnvelope, InOnePlace
    <3>3. Head(outbox[seen[t]]) = my[t]
      BY <3>1, <3>2, OneElement
    <3>. QED BY <3>1, <3>2, <3>3, <1>14 DEF GetEnvelope, InOnePlace
  <2>2. \A w \in Ids : outbox'[w] \in {outbox[w], <<>>}
    BY <2>1, <1>0, OneElement
  <2>3. \A w \in Ids : Sent(w)' \subseteq Sent(w)
    BY <2>2 DEF Sent
  <2>4. \A u \in Threads : /\ InFlight(u)' <=> InFlight(u)
                           /\ pc[u] \in Waiting => pc'[u] \in Waiting
    BY <2>1, <1>0
  <2>5. pc'[Main] = "idle" => pc[Main] = "idle"
    BY <2>1, <1>0
  <2>. QED BY <2>1, <2>3, <2>4, <2>5 DEF ServiceInv
<1>15. CASE CancelKills \/ CancelInjects
  BY <1>15, ServiceKept DEF CancelKills, CancelInjects
<1>16. ASSUME NEW w \in Ids, ChildTakes(w) \/ ChildDies(w) PROVE ServiceInv'
  BY <1>16, ServiceKept DEF ChildTakes, ChildDies
<1>17. ASSUME NEW w \in Ids, ChildFinishes(w) \/ ChildShutsDown(w) PROVE ServiceInv'
  <2>1. /\ w \in alive /\ running[w] # 0 /\ running[w] \in Ids
        /\ outbox' = [outbox EXCEPT ![w] = Append(@, running[w])]
        /\ UNCHANGED <<lastCmd, my, result, seen, pc>>
    <3>1. w \in alive /\ running[w] # 0 /\ ChildAnswers(w)
      BY <1>17 DEF ChildFinishes, ChildShutsDown
    <3>. QED BY <3>1, <1>0
  <2>2. PICK t \in Threads : pc[t] \in Waiting /\ seen[t] = w
    BY <2>1 DEF WorkerInv, WorkBelongs
  <2>3. running[w] = my[t] /\ outbox[w] = <<>> /\ my[t] = lastCmd
    BY <2>1, <2>2 DEF WorkerInv, OnePlace, InOnePlace, OneInFlight
  <2>4. outbox'[w] = <<my[t]>>
    BY <2>1, <2>3, <1>0, OneElement
  <2>5. Sent(w)' = {my[t]}
    <3>1. DOMAIN outbox'[w] = 1 .. 1 /\ outbox'[w][1] = my[t]
      BY <2>4
    <3>. QED BY <3>1 DEF Sent
  <2>6. \A v \in Ids \ {w} : Sent(v)' = Sent(v)
    BY <2>1, <1>0, SentSame
  <2>7. \A u \in Threads : InFlight(u) <=> u = t
    BY <2>2 DEF WorkerInv, OneInFlight
  <2>8. \A u \in Threads : InFlight(u)' <=> InFlight(u)
    BY <2>1
  <2>9. \A v \in Ids : \A c \in Sent(v)' : c <= lastCmd
    <3>1. \A c \in Sent(w)' : c <= lastCmd
      BY <2>3, <2>5, <1>0
    <3>2. \A v \in Ids \ {w} : \A c \in Sent(v)' : c <= lastCmd
      BY <2>6 DEF ServiceInv
    <3>. QED BY <3>1, <3>2
  <2>10. \A v \in Ids : my[t] \in Sent(v)' => v = seen[t]
    BY <2>2, <2>5, <2>6 DEF ServiceInv
  <2>. QED BY <2>1, <2>2, <2>7, <2>8, <2>9, <2>10 DEF ServiceInv
<1>18. CASE UNCHANGED vars
  BY <1>18, ServiceKept DEF vars
<1>. QED
  BY <1>1, <1>3, <1>4, <1>5, <1>6, <1>7, <1>8, <1>9, <1>10, <1>11, <1>12, <1>13, <1>14, <1>15,
     <1>16, <1>17, <1>18
  DEF Next, Proceed, Call, Wait, Collect, Shutdown, Cancel, Child

\* What the command of a call in flight is to CommandService, and of one that ended.
Stage(t) ==
    IF pc[t] = "send" THEN "called"
    ELSE IF outcome[t] = "ok" \/ outbox[seen[t]] # <<>> THEN "finished"
    ELSE "handed"

Label(c) == IF c = my[Main] THEN "shutdown" ELSE result[c]

Working(t) ==
    /\ pc[t] \in Waiting
    /\ seen[t] \in alive
    /\ inbox[seen[t]] # 0 \/ running[seen[t]] # 0

\* The state that CommandService sees, command by command.
FateView ==
    /\ \A c \in Ids : c > lastCmd => Fate(c) = "new"
    /\ \A c \in Ids : c <= lastCmd /\ ~(\E t \in Threads : InFlight(t) /\ my[t] = c) =>
         Fate(c) = Label(c) /\ Label(c) \in Service!Ended
    /\ \A t \in Threads : \A c \in Ids : InFlight(t) /\ c = lastCmd => Fate(c) = Stage(t)

ActiveView ==
    \A c \in Ids :
        (\E w \in alive : c \in {inbox[w], running[w]}) <=>
        (\E t \in Threads : InFlight(t) /\ c = my[t] /\ Working(t))

LEMMA SeenFate == WorkerInv /\ ServiceInv => FateView
<1> SUFFICES ASSUME WorkerInv, ServiceInv PROVE FateView
  OBVIOUS
<1>0. lastCmd \in OptIds /\ result \in [Ids -> Results] /\ my \in [Threads -> OptIds]
  BY DEF WorkerInv, TypeOK
<1>1. ASSUME NEW c \in Ids, c > lastCmd PROVE Fate(c) = "new"
  BY <1>1 DEF Fate, WorkerInv, ResultPending
<1>2. ASSUME NEW c \in Ids, c <= lastCmd, ~(\E t \in Threads : InFlight(t) /\ my[t] = c)
      PROVE  Fate(c) = Label(c) /\ Label(c) \in Service!Ended
  <2>1. result[c] # "none"
    BY <1>2 DEF ServiceInv
  <2>. QED BY <2>1, <1>0 DEF Fate, Label, Service!Ended
<1>3. ASSUME NEW t \in Threads, InFlight(t) PROVE Fate(lastCmd) = Stage(t)
  <2>1. my[t] = lastCmd /\ lastCmd \in Ids /\ result[lastCmd] = "none" /\ ~(lastCmd > lastCmd)
    BY <1>0, <1>3 DEF WorkerInv, OneInFlight, ResultPending
  <2>2. \A u \in Threads : InFlight(u) => u = t
    BY <1>3 DEF WorkerInv, OneInFlight
  <2>3. CASE pc[t] = "send"
    <3>1. ~Answered(lastCmd)
      <4>1. outcome[t] # "ok"
        BY <2>3 DEF WorkerInv, NoLeftovers
      <4>2. \A w \in Ids : lastCmd \notin Sent(w)
        BY <2>1, <2>3, <1>3 DEF ServiceInv
      <4>. QED BY <4>1, <4>2, <2>2 DEF Answered
    <3>. QED BY <2>1, <2>3, <3>1 DEF Fate, Stage
  <2>4. CASE pc[t] \in Waiting
    <3>1. InOnePlace(t) /\ TypeOK
      BY <2>4 DEF WorkerInv, OnePlace
    <3>2. seen[t] \in Ids /\ (lastCmd \in Sent(seen[t]) <=> outbox[seen[t]] # <<>>)
      BY <3>1, <2>1, SentOne DEF InOnePlace
    <3>3. \A w \in Ids : lastCmd \in Sent(w) => w = seen[t]
      BY <2>1, <1>3 DEF ServiceInv
    <3>4. Answered(lastCmd) <=> outcome[t] = "ok" \/ outbox[seen[t]] # <<>>
      BY <3>2, <3>3, <2>1, <2>2, <1>3 DEF Answered
    <3>5. ~\E u \in Threads : pc[u] = "send" /\ my[u] = lastCmd
      BY <2>2, <2>4
    <3>. QED BY <2>1, <2>4, <3>4, <3>5 DEF Fate, Stage
  <2>. QED BY <1>3, <2>3, <2>4
<1>. QED BY <1>1, <1>2, <1>3 DEF FateView

LEMMA SeenActive == WorkerInv => ActiveView
<1> SUFFICES ASSUME WorkerInv, NEW c \in Ids
             PROVE  (\E w \in alive : c \in {inbox[w], running[w]}) <=>
                    (\E t \in Threads : InFlight(t) /\ c = my[t] /\ Working(t))
  BY DEF ActiveView
<1>1. ASSUME NEW w \in alive, c \in {inbox[w], running[w]}
      PROVE  \E t \in Threads : InFlight(t) /\ c = my[t] /\ Working(t)
  <2>1. PICK t \in Threads : pc[t] \in Waiting /\ seen[t] = w
    BY <1>1 DEF WorkerInv, WorkBelongs
  <2>. QED BY <1>1, <2>1 DEF WorkerInv, OnePlace, InOnePlace, Working
<1>2. ASSUME NEW t \in Threads, InFlight(t), c = my[t], Working(t)
      PROVE  \E w \in alive : c \in {inbox[w], running[w]}
  BY <1>2 DEF WorkerInv, OnePlace, InOnePlace, Working
<1>. QED BY <1>1, <1>2

\* The same of the next state.
LEMMA SeenNext == (WorkerInv /\ ServiceInv)' => FateView' /\ ActiveView'
BY SeenFate, SeenActive, PTL

\* The variables of CommandService.
FateMap == [c \in Ids |-> Fate(c)]
ActiveSet == {c \in Ids : \E w \in alive : c \in {inbox[w], running[w]}}

AllInv == WorkerInv /\ ServiceInv

\* What is active while a call is in flight, and that nothing is otherwise.
LEMMA ActiveIs ==
    ASSUME AllInv
    PROVE  /\ \A t \in Threads : InFlight(t) =>
                ActiveSet = IF Working(t) THEN {lastCmd} ELSE {}
           /\ (\A t \in Threads : ~InFlight(t)) => ActiveSet = {}
<1>1. ActiveView
  BY SeenActive DEF AllInv
<1>2. ASSUME NEW t \in Threads, InFlight(t)
      PROVE  ActiveSet = IF Working(t) THEN {lastCmd} ELSE {}
  <2>1. my[t] = lastCmd /\ lastCmd \in Ids /\ \A u \in Threads : InFlight(u) => u = t
    BY <1>2 DEF AllInv, WorkerInv, OneInFlight
  <2>2. \A c \in Ids : c \in ActiveSet <=> c = lastCmd /\ Working(t)
    BY <1>1, <1>2, <2>1 DEF ActiveView, ActiveSet
  <2>3. ActiveSet \subseteq Ids
    BY DEF ActiveSet
  <2>. QED BY <2>1, <2>2, <2>3
<1>3. (\A t \in Threads : ~InFlight(t)) => ActiveSet = {}
  BY <1>1 DEF ActiveView, ActiveSet
<1>. QED BY <1>2, <1>3

LEMMA ActiveIsNext ==
    ASSUME AllInv'
    PROVE  /\ \A t \in Threads : InFlight(t)' =>
                ActiveSet' = IF Working(t)' THEN {lastCmd'} ELSE {}
           /\ (\A t \in Threads : ~InFlight(t)') => ActiveSet' = {}
<1>1. ActiveView'
  BY SeenNext DEF AllInv
<1>2. ASSUME NEW t \in Threads, InFlight(t)'
      PROVE  ActiveSet' = IF Working(t)' THEN {lastCmd'} ELSE {}
  <2>1. my'[t] = lastCmd' /\ lastCmd' \in Ids /\ \A u \in Threads : InFlight(u)' => u = t
    BY <1>2 DEF AllInv, WorkerInv, OneInFlight
  <2>2. \A c \in Ids : c \in ActiveSet' <=> c = lastCmd' /\ Working(t)'
    BY <1>1, <1>2, <2>1 DEF ActiveView, ActiveSet
  <2>3. ActiveSet' \subseteq Ids
    BY DEF ActiveSet
  <2>. QED BY <2>1, <2>2, <2>3
<1>3. (\A t \in Threads : ~InFlight(t)') => ActiveSet' = {}
  BY <1>1 DEF ActiveView, ActiveSet
<1>. QED BY <1>2, <1>3

\* During a call only the fate of its command changes.
LEMMA CallGoesOn ==
    ASSUME AllInv, AllInv', NEW t \in Threads, InFlight(t),
           UNCHANGED <<lastCmd, my, result>>,
           \A u \in Threads : InFlight(u)' <=> InFlight(u)
    PROVE  /\ lastCmd \in Ids /\ FateMap[lastCmd] = Stage(t)
           /\ FateMap' = [FateMap EXCEPT ![lastCmd] = Stage(t)']
           /\ ActiveSet = IF Working(t) THEN {lastCmd} ELSE {}
           /\ ActiveSet' = IF Working(t)' THEN {lastCmd} ELSE {}
<1>1. /\ my[t] = lastCmd /\ lastCmd \in Ids /\ \A u \in Threads : InFlight(u) => u = t
      /\ my' = my /\ lastCmd' = lastCmd /\ result' = result
  BY DEF AllInv, WorkerInv, OneInFlight
<1>2. FateView /\ FateView'
  BY SeenFate, SeenNext DEF AllInv
<1>3. Fate(lastCmd) = Stage(t) /\ Fate(lastCmd)' = Stage(t)'
  BY <1>2, <1>1 DEF FateView
<1>4. ASSUME NEW c \in Ids, c # lastCmd PROVE Fate(c)' = Fate(c)
  <2>1. CASE c > lastCmd
    BY <2>1, <1>1, <1>2 DEF FateView
  <2>2. CASE ~(c > lastCmd)
    <3>1. c <= lastCmd
      BY <2>2, <1>1
    <3>2. ~(\E u \in Threads : InFlight(u) /\ my[u] = c)
      BY <1>1, <1>4
    <3>3. Fate(c) = Label(c)
      BY <3>1, <3>2, <1>2 DEF FateView
    <3>4. ~(\E u \in Threads : InFlight(u)' /\ my'[u] = c)
      BY <3>2, <1>1
    <3>5. Fate(c)' = Label(c)'
      BY <3>1, <3>4, <1>1, <1>2 DEF FateView
    <3>. QED BY <3>3, <3>5, <1>1 DEF Label
  <2>. QED BY <2>1, <2>2
<1>5. \A c \in Ids : Fate(c)' = IF c = lastCmd THEN Stage(t)' ELSE Fate(c)
  BY <1>1, <1>3, <1>4
<1>6. FateMap' = [FateMap EXCEPT ![lastCmd] = Stage(t)'] /\ FateMap[lastCmd] = Stage(t)
  BY <1>1, <1>3, <1>5 DEF FateMap
<1>. QED BY <1>1, <1>6, ActiveIs, ActiveIsNext

\* The call of a command ends as its label says, with nothing active any more.
LEMMA CallEnds ==
    ASSUME AllInv, AllInv', NEW t \in Threads, InFlight(t),
           NEW how \in Results \ {"none"}, Return(t, how)
    PROVE  /\ lastCmd \in Ids /\ FateMap[lastCmd] = Stage(t)
           /\ FateMap' = [FateMap EXCEPT ![lastCmd] = IF t = Main THEN "shutdown" ELSE how]
           /\ ActiveSet \subseteq {lastCmd} /\ ActiveSet' = {}
<1>1. /\ my[t] = lastCmd /\ lastCmd \in Ids /\ \A u \in Threads : InFlight(u) => u = t
      /\ my' = my /\ lastCmd' = lastCmd /\ result' = [result EXCEPT ![lastCmd] = how]
      /\ result \in [Ids -> Results] /\ \A u \in Threads : u # t => my[u] < lastCmd
  BY DEF AllInv, WorkerInv, OneInFlight, TypeOK
<1>2. FateView /\ FateView'
  BY SeenFate, SeenNext DEF AllInv
<1>3. \A u \in Threads : ~InFlight(u)'
  BY <1>1 DEF AllInv, WorkerInv, TypeOK
<1>4. Fate(lastCmd) = Stage(t)
  BY <1>1, <1>2 DEF FateView
<1>5. Fate(lastCmd)' = IF t = Main THEN "shutdown" ELSE how
  <2>1. Fate(lastCmd)' = Label(lastCmd)'
    BY <1>1, <1>2, <1>3 DEF FateView
  <2>. QED BY <2>1, <1>1 DEF Label
<1>6. ASSUME NEW c \in Ids, c # lastCmd PROVE Fate(c)' = Fate(c)
  <2>1. CASE c > lastCmd
    BY <2>1, <1>1, <1>2 DEF FateView
  <2>2. CASE ~(c > lastCmd)
    <3>1. c <= lastCmd
      BY <2>2, <1>1
    <3>2. ~(\E u \in Threads : InFlight(u) /\ my[u] = c)
      BY <1>1, <1>6
    <3>3. Fate(c) = Label(c)
      BY <3>1, <3>2, <1>2 DEF FateView
    <3>4. Fate(c)' = Label(c)'
      BY <3>1, <1>1, <1>2, <1>3 DEF FateView
    <3>. QED BY <3>3, <3>4, <1>1, <1>6 DEF Label
  <2>. QED BY <2>1, <2>2
<1>7. \A c \in Ids : Fate(c)' = IF c = lastCmd THEN (IF t = Main THEN "shutdown" ELSE how) ELSE Fate(c)
  BY <1>1, <1>5, <1>6
<1>8. FateMap' = [FateMap EXCEPT ![lastCmd] = IF t = Main THEN "shutdown" ELSE how]
  <2>1. PICK label : label = IF t = Main THEN "shutdown" ELSE how
    OBVIOUS
  <2>2. \A c \in Ids : Fate(c)' = IF c = lastCmd THEN label ELSE Fate(c)
    BY <1>7, <2>1
  <2>3. FateMap' = [FateMap EXCEPT ![lastCmd] = label]
    BY <1>1, <2>2 DEF FateMap
  <2>. QED BY <2>1, <2>3
<1>9. FateMap[lastCmd] = Stage(t)
  BY <1>1, <1>4 DEF FateMap
<1>. QED BY <1>1, <1>3, <1>8, <1>9, ActiveIs, ActiveIsNext

\* Taking the lock begins the next command.
LEMMA CallBegins ==
    ASSUME AllInv, AllInv', NEW t \in Threads, Lock(t)
    PROVE  \E n \in Ids :
              /\ FateMap[n] = "new"
              /\ \A c \in Ids : c < n => FateMap[c] \in Service!Ended
              /\ FateMap' = [FateMap EXCEPT ![n] = "called"]
              /\ ActiveSet' = ActiveSet
<1>1. /\ \A u \in Threads : ~InFlight(u)
      /\ lastCmd + 1 \in Ids /\ lastCmd' = lastCmd + 1 /\ lastCmd \in Nat
      /\ my' = [my EXCEPT ![t] = lastCmd + 1] /\ result' = result
      /\ pc' = [pc EXCEPT ![t] = "send"] /\ pc[t] = "idle"
      /\ my \in [Threads -> OptIds]
      /\ pc \in [Threads -> Waiting \cup {"idle", "send", "done"}]
  BY DEF Lock, AllInv, WorkerInv, TypeOK
<1>2. FateView /\ FateView'
  BY SeenFate, SeenNext DEF AllInv
<1>3. \A u \in Threads : InFlight(u)' <=> u = t
  BY <1>1
<1>4. PICK n \in Ids : n = lastCmd + 1 /\ n = lastCmd'
  BY <1>1
<1>5. Fate(n) = "new" /\ Fate(n)' = "called"
  <2>1. Fate(n)' = Stage(t)'
    BY <1>2, <1>3, <1>4 DEF FateView
  <2>2. Stage(t)' = "called"
    BY <1>1 DEF Stage
  <2>3. Fate(n) = "new"
    BY <1>1, <1>2, <1>4 DEF FateView
  <2>. QED BY <2>1, <2>2, <2>3
<1>6. ASSUME NEW c \in Ids, c < n
      PROVE  Fate(c) \in Service!Ended /\ Fate(c)' = Fate(c)
  <2>1. c <= lastCmd /\ c <= lastCmd' /\ c # n
    BY <1>1, <1>4, <1>6
  <2>2. Fate(c) = Label(c) /\ Label(c) \in Service!Ended
    BY <1>1, <1>2, <2>1 DEF FateView
  <2>3. ~(\E u \in Threads : InFlight(u)' /\ my'[u] = c)
    BY <1>1, <1>3, <1>4, <2>1
  <2>4. Fate(c)' = Label(c)'
    BY <1>2, <2>1, <2>3 DEF FateView
  <2>5. (c = my[Main]) <=> (c = my'[Main])
    <3>1. CASE t = Main
      <4>1. my[Main] = 0 /\ my'[Main] = n /\ c # 0
        BY <3>1, <1>1, <1>4 DEF AllInv, ServiceInv
      <4>. QED BY <4>1, <2>1
    <3>2. CASE t # Main
      BY <3>2, <1>1
    <3>. QED BY <3>1, <3>2
  <2>. QED BY <1>1, <2>2, <2>4, <2>5 DEF Label
<1>7. ASSUME NEW c \in Ids, c > n PROVE Fate(c)' = Fate(c)
  <2>1. c > lastCmd /\ c > lastCmd'
    BY <1>1, <1>4, <1>7
  <2>. QED BY <1>2, <2>1 DEF FateView
<1>8. \A c \in Ids : Fate(c)' = IF c = n THEN "called" ELSE Fate(c)
  <2>1. \A c \in Ids : c < n \/ c > n \/ c = n
    OBVIOUS
  <2>. QED BY <2>1, <1>5, <1>6, <1>7
<1>9. ActiveSet' = ActiveSet
  BY DEF ActiveSet, Lock
<1>10. FateMap[n] = "new" /\ FateMap' = [FateMap EXCEPT ![n] = "called"]
  BY <1>5, <1>8 DEF FateMap
<1>11. \A c \in Ids : c < n => FateMap[c] \in Service!Ended
  BY <1>6 DEF FateMap
<1>. QED BY <1>9, <1>10, <1>11

\* Steps that CommandService does not see.
LEMMA Unseen ==
    ASSUME AllInv, AllInv', UNCHANGED <<lastCmd, my, result>>,
           \A u \in Threads : InFlight(u)' <=> InFlight(u),
           \A u \in Threads : InFlight(u) =>
               Stage(u)' = Stage(u) /\ (Working(u)' <=> Working(u))
    PROVE  FateMap' = FateMap /\ ActiveSet' = ActiveSet
<1>1. CASE \E t \in Threads : InFlight(t)
  <2>1. PICK t \in Threads : InFlight(t)
    BY <1>1
  <2>2. /\ FateMap[lastCmd] = Stage(t) /\ FateMap' = [FateMap EXCEPT ![lastCmd] = Stage(t)']
        /\ ActiveSet = IF Working(t) THEN {lastCmd} ELSE {}
        /\ ActiveSet' = IF Working(t)' THEN {lastCmd} ELSE {}
    BY <2>1, CallGoesOn
  <2>3. Stage(t)' = Stage(t) /\ (Working(t)' <=> Working(t))
    BY <2>1
  <2>4. FateMap = [c \in Ids |-> FateMap[c]]
    BY DEF FateMap
  <2>5. FateMap' = FateMap
    BY <2>2, <2>3, <2>4
  <2>. QED BY <2>2, <2>3, <2>5
<1>2. CASE ~\E t \in Threads : InFlight(t)
  <2>1. FateView /\ FateView' /\ lastCmd' = lastCmd /\ my' = my /\ result' = result
    BY SeenFate, SeenNext DEF AllInv
  <2>2. ASSUME NEW c \in Ids PROVE Fate(c)' = Fate(c)
    <3>1. CASE c > lastCmd
      BY <3>1, <2>1 DEF FateView
    <3>2. CASE c <= lastCmd
      <4>1. Fate(c) = Label(c) /\ Fate(c)' = Label(c)'
        BY <3>2, <2>1, <1>2 DEF FateView
      <4>. QED BY <4>1, <2>1 DEF Label
    <3>3. lastCmd \in Nat
      BY DEF AllInv, WorkerInv, TypeOK
    <3>. QED BY <3>1, <3>2, <3>3
  <2>3. ActiveSet = {} /\ ActiveSet' = {}
    BY <1>2, ActiveIs, ActiveIsNext
  <2>. QED BY <2>2, <2>3 DEF FateMap
<1>. QED BY <1>1, <1>2

\* A call that returns is the Return of CommandService.
LEMMA ReturnRefines ==
    ASSUME AllInv, AllInv', NEW t \in Threads, InFlight(t),
           NEW how \in Results \ {"none"}, Return(t, how),
           how = "ok" => t = Main \/ Stage(t) = "finished",
           pc[t] = "send" => t = Main \/ how = "failed"
    PROVE  Service!Next
<1>1. PICK label \in Service!Ended : label = IF t = Main THEN "shutdown" ELSE how
  BY DEF Service!Ended
<1>2. /\ lastCmd \in Ids /\ FateMap[lastCmd] = Stage(t)
      /\ FateMap' = [FateMap EXCEPT ![lastCmd] = label]
      /\ ActiveSet' = ActiveSet \ {lastCmd}
  BY <1>1, CallEnds
<1>3. /\ Stage(t) \in Service!Called
      /\ label = "ok" => Stage(t) = "finished"
      /\ Stage(t) = "called" => label \in {"failed", "shutdown"}
  BY <1>1 DEF Stage, Service!Called
<1>4. PICK n \in Ids : n = lastCmd
  BY <1>2
<1>5. Service!Return(n)
  BY <1>1, <1>2, <1>3, <1>4 DEF Service!Return, FateMap, ActiveSet
<1>. QED BY <1>5 DEF Service!Next

\* Each step is a step of CommandService, or none for it.
LEMMA StepRefines == AllInv /\ AllInv' /\ [Next]_vars => [Service!Next]_(Service!vars)
<1> SUFFICES ASSUME AllInv, AllInv', [Next]_vars PROVE [Service!Next]_(Service!vars)
  OBVIOUS
<1>0. /\ pc \in [Threads -> Waiting \cup {"idle", "send", "done"}]
      /\ my \in [Threads -> OptIds] /\ seen \in [Threads -> OptIds]
      /\ outbox \in [Ids -> Seq(Ids)] /\ lastCmd \in OptIds /\ alive \subseteq Ids
      /\ running \in [Ids -> OptIds] /\ inbox \in [Ids -> OptIds]
      /\ outcome \in [Threads -> Statuses] /\ worker \in OptIds
  BY DEF AllInv, WorkerInv, TypeOK
<1>a. FateMap' = FateMap /\ ActiveSet' = ActiveSet => UNCHANGED Service!vars
  BY DEF FateMap, ActiveSet, Service!vars
<1>b. \A t \in Threads : InFlight(t) => my[t] = lastCmd /\ lastCmd \in Ids
  BY DEF AllInv, WorkerInv, OneInFlight
<1>c. \A t, u \in Threads : InFlight(t) /\ InFlight(u) => t = u
  BY DEF AllInv, WorkerInv, OneInFlight
<1>1. ASSUME NEW t \in Threads, Lock(t) PROVE Service!Next
  <2>1. PICK n \in Ids :
              /\ FateMap[n] = "new"
              /\ \A c \in Ids : c < n => FateMap[c] \in Service!Ended
              /\ FateMap' = [FateMap EXCEPT ![n] = "called"]
              /\ ActiveSet' = ActiveSet
    BY <1>1, CallBegins
  <2>2. Service!Begin(n)
    BY <2>1 DEF Service!Begin, Service!Turn, FateMap, ActiveSet
  <2>. QED BY <2>2 DEF Service!Next
<1>2. ASSUME NEW t \in Threads,
             SendToWorker(t) \/ SendToNewWorker(t) \/ (t = Main /\ SendShutdown)
      PROVE  Service!Next
  <2>1. /\ pc[t] = "send" /\ pc' = [pc EXCEPT ![t] = "claim"]
        /\ UNCHANGED <<lastCmd, my, result, outcome>>
        /\ seen'[t] \in Ids /\ seen'[t] \in alive' /\ inbox'[seen'[t]] # 0
        /\ outbox'[seen'[t]] = <<>>
    <3>1. InFlight(t) /\ my[t] \in Ids
      BY <1>2, <1>b DEF SendToWorker, SendToNewWorker, SendShutdown
    <3>2. CASE SendToNewWorker(t)
      BY <3>1, <3>2, <1>0 DEF SendToNewWorker
    <3>3. CASE SendToWorker(t) \/ (t = Main /\ SendShutdown)
      <4>1. \A u \in Threads : pc[u] \notin Waiting
        BY <3>1, <3>3, <1>c DEF SendToWorker, SendShutdown
      <4>2. worker \in alive /\ outbox[worker] = <<>>
        BY <3>3, <4>1 DEF SendToWorker, SendShutdown, AllInv, WorkerInv, WorkBelongs
      <4>3. /\ pc[t] = "send" /\ pc' = [pc EXCEPT ![t] = "claim"]
            /\ UNCHANGED <<lastCmd, my, result, outcome, alive, outbox>>
            /\ seen' = [seen EXCEPT ![t] = worker] /\ inbox' = [inbox EXCEPT ![worker] = my[t]]
        BY <3>3 DEF SendToWorker, SendShutdown
      <4>4. seen'[t] = worker /\ worker \in Ids /\ inbox'[worker] = my[t]
        BY <4>2, <4>3, <1>0
      <4>. QED BY <3>1, <4>2, <4>3, <4>4
    <3>. QED BY <1>2, <3>2, <3>3
  <2>2. outcome[t] # "ok"
    BY <2>1 DEF AllInv, WorkerInv, NoLeftovers
  <2>3. /\ Stage(t) = "called" /\ Stage(t)' = "handed" /\ ~Working(t) /\ Working(t)'
    BY <2>1, <2>2, <1>0 DEF Stage, Working
  <2>4. \A u \in Threads : InFlight(u)' <=> InFlight(u)
    BY <2>1, <1>0
  <2>5. /\ lastCmd \in Ids /\ FateMap[lastCmd] = "called"
        /\ FateMap' = [FateMap EXCEPT ![lastCmd] = "handed"]
        /\ ActiveSet' = ActiveSet \cup {lastCmd}
    BY <2>1, <2>3, <2>4, CallGoesOn
  <2>6. PICK n \in Ids : n = lastCmd
    BY <2>5
  <2>7. Service!Hand(n)
    BY <2>5, <2>6 DEF Service!Hand, FateMap, ActiveSet
  <2>. QED BY <2>7 DEF Service!Next
<1>3. ASSUME NEW t \in Threads, SendFails(t) PROVE Service!Next
  BY <1>3, ReturnRefines DEF SendFails
<1>4. ASSUME NEW t \in Threads, GetRaises(t) \/ IsAliveRaises(t) PROVE Service!Next
  BY <1>4, ReturnRefines DEF GetRaises, IsAliveRaises
<1>5. ASSUME NEW t \in Threads, CollectTimeout(t) PROVE Service!Next
  BY <1>5, ReturnRefines DEF CollectTimeout
<1>6. ASSUME NEW t \in Threads, CollectExited(t) PROVE Service!Next
  BY <1>6, ReturnRefines DEF CollectExited
<1>7. ASSUME NEW t \in Threads, CollectResult(t) PROVE Service!Next
  <2>1. outcome[t] = "ok" => Stage(t) = "finished"
    BY <1>7 DEF CollectResult, Stage
  <2>. QED BY <1>7, <2>1, ReturnRefines DEF CollectResult
<1>8. CASE NothingToShutDown
  BY <1>8, ReturnRefines DEF NothingToShutDown
<1>9. CASE CollectShutdownRaises
  BY <1>9, ReturnRefines DEF CollectShutdownRaises
<1>10. CASE CollectShutdown
  <2>1. pc[Main] = "collect"
    BY <1>10 DEF CollectShutdown
  <2>2. PICK how \in {"ok", "timeout"} : Return(Main, how)
    BY <1>10 DEF CollectShutdown
  <2>. QED BY <2>1, <2>2, ReturnRefines
<1>11. ASSUME NEW t \in Threads,
              \/ ClaimPending(t) \/ CheckDeadline(t) \/ GetWaits(t) \/ GetEmpty(t)
              \/ RecheckCancelled(t) \/ CheckAlive(t) \/ Expire(t)
       PROVE  UNCHANGED Service!vars
  <2>1. /\ UNCHANGED <<lastCmd, my, result, seen, outbox, alive, inbox, running>>
        /\ pc[t] \in Waiting
        /\ pc' = pc \/ \E where \in Waiting : pc' = [pc EXCEPT ![t] = where]
    BY <1>11 DEF ClaimPending, CheckDeadline, GetWaits, GetEmpty, RecheckCancelled,
       CheckAlive, Expire
  <2>2. /\ outcome' = outcome \/ outcome[t] = "none"
        /\ \A u \in Threads : u # t => outcome'[u] = outcome[u]
        /\ outcome'[t] # "ok" \/ outcome'[t] = outcome[t]
    <3>1. outcome[t] # "none" <=> pc[t] = "collect"
      BY <2>1 DEF AllInv, WorkerInv, OutcomeMeans, Means
    <3>2. my[t] \notin pending
      BY DEF AllInv, WorkerInv
    <3>. QED BY <1>11, <3>1, <3>2, <1>0
      DEF ClaimPending, CheckDeadline, GetWaits, GetEmpty, RecheckCancelled, CheckAlive, Expire
  <2>3. \A u \in Threads : /\ InFlight(u)' <=> InFlight(u)
                           /\ pc'[u] = "send" <=> pc[u] = "send"
                           /\ pc'[u] \in Waiting <=> pc[u] \in Waiting
                           /\ outcome'[u] = "ok" <=> outcome[u] = "ok"
    BY <2>1, <2>2, <1>0
  <2>4. \A u \in Threads : Stage(u)' = Stage(u) /\ (Working(u)' <=> Working(u))
    BY <2>1, <2>3 DEF Stage, Working
  <2>. QED BY <2>1, <2>3, <2>4, <1>a, Unseen
<1>12. ASSUME NEW t \in Threads, GetEnvelope(t) PROVE UNCHANGED Service!vars
  <2>1. /\ pc[t] = "poll" /\ outbox[seen[t]] # <<>>
        /\ outcome'[t] = "ok" /\ pc' = [pc EXCEPT ![t] = "collect"]
        /\ UNCHANGED <<lastCmd, my, result, seen, alive, inbox, running>>
    <3>1. InOnePlace(t) /\ my[t] \in Ids
      BY <1>12, <1>b DEF GetEnvelope, AllInv, WorkerInv, OnePlace
    <3>2. outbox[seen[t]] = <<my[t]>>
      BY <3>1, <1>12 DEF GetEnvelope, InOnePlace
    <3>3. Head(outbox[seen[t]]) = my[t]
      BY <3>1, <3>2, OneElement
    <3>. QED BY <3>3, <1>12, <1>0 DEF GetEnvelope
  <2>2. \A u \in Threads : /\ InFlight(u)' <=> InFlight(u)
                           /\ InFlight(u) => u = t
    BY <2>1, <1>0, <1>c
  <2>3. Stage(t)' = Stage(t) /\ (Working(t)' <=> Working(t))
    BY <2>1, <1>0 DEF Stage, Working
  <2>. QED BY <2>1, <2>2, <2>3, <1>a, Unseen
<1>13. ASSUME UNCHANGED <<lastCmd, my, result, pc, seen, outcome, outbox>>,
              \A t \in Threads : Working(t)' => Working(t)
       PROVE  Service!Next \/ UNCHANGED Service!vars
  <2>1. \A u \in Threads : (InFlight(u)' <=> InFlight(u)) /\ Stage(u)' = Stage(u)
    BY <1>13 DEF Stage
  <2>2. CASE \A u \in Threads : InFlight(u) => (Working(u)' <=> Working(u))
    BY <2>1, <2>2, <1>13, <1>a, Unseen
  <2>3. CASE ~\A u \in Threads : InFlight(u) => (Working(u)' <=> Working(u))
    <3>1. PICK t \in Threads : InFlight(t) /\ Working(t) /\ ~Working(t)'
      BY <2>3, <1>13
    <3>2. /\ lastCmd \in Ids /\ FateMap[lastCmd] = Stage(t)
          /\ FateMap' = [FateMap EXCEPT ![lastCmd] = Stage(t)]
          /\ ActiveSet = {lastCmd} /\ ActiveSet' = {}
      BY <3>1, <2>1, <1>13, CallGoesOn
    <3>3. FateMap' = FateMap
      <4>1. FateMap = [c \in Ids |-> FateMap[c]]
        BY DEF FateMap
      <4>. QED BY <3>2, <4>1
    <3>4. PICK n \in Ids : n = lastCmd
      BY <3>2, <3>3
    <3>5. Service!Stop(n)
      BY <3>2, <3>3, <3>4 DEF Service!Stop, FateMap, ActiveSet
    <3>. QED BY <3>5 DEF Service!Next
  <2>. QED BY <2>2, <2>3
<1>14. CASE CancelKills
  <2>1. /\ UNCHANGED <<lastCmd, my, result, pc, seen, outcome, outbox>>
        /\ alive' \subseteq alive
        /\ \A w \in alive' : inbox'[w] = inbox[w] /\ running'[w] = running[w]
    BY <1>14, <1>0 DEF CancelKills
  <2>2. \A t \in Threads : Working(t)' => Working(t)
    BY <2>1 DEF Working
  <2>. QED BY <2>1, <2>2, <1>13
<1>15. CASE CancelInjects
  <2>1. UNCHANGED <<lastCmd, my, result, pc, seen, outcome, outbox, alive, inbox, running>>
    BY <1>15 DEF CancelInjects
  <2>2. \A t \in Threads : Working(t)' => Working(t)
    BY <2>1 DEF Working
  <2>. QED BY <2>1, <2>2, <1>13
<1>16. ASSUME NEW w \in Ids, ChildTakes(w) PROVE UNCHANGED Service!vars
  <2>1. UNCHANGED <<lastCmd, my, result, pc, seen, outcome, outbox, alive>>
    BY <1>16 DEF ChildTakes
  <2>2. \A v \in Ids : inbox'[v] # 0 \/ running'[v] # 0 <=> inbox[v] # 0 \/ running[v] # 0
    BY <1>16, <1>0 DEF ChildTakes
  <2>3. \A t \in Threads : Working(t)' <=> Working(t)
    BY <2>1, <2>2, <1>0 DEF Working
  <2>4. \A u \in Threads : (InFlight(u)' <=> InFlight(u)) /\ Stage(u)' = Stage(u)
    BY <2>1 DEF Stage
  <2>. QED BY <2>1, <2>3, <2>4, <1>a, Unseen
<1>17. ASSUME NEW w \in Ids, ChildFinishes(w) \/ ChildShutsDown(w) PROVE Service!Next
  <2>1. /\ w \in alive /\ running[w] # 0 /\ running[w] \in Ids
        /\ outbox' = [outbox EXCEPT ![w] = Append(@, running[w])]
        /\ running' = [running EXCEPT ![w] = 0]
        /\ UNCHANGED <<lastCmd, my, result, seen, pc, outcome, inbox>>
    <3>1. w \in alive /\ running[w] # 0 /\ ChildAnswers(w)
      BY <1>17 DEF ChildFinishes, ChildShutsDown
    <3>. QED BY <3>1, <1>0
  <2>2. PICK t \in Threads : pc[t] \in Waiting /\ seen[t] = w
    BY <2>1 DEF AllInv, WorkerInv, WorkBelongs
  <2>3. inbox[w] = 0 /\ running[w] = my[t] /\ outbox[w] = <<>>
    BY <2>1, <2>2 DEF AllInv, WorkerInv, OnePlace, InOnePlace
  <2>4. outbox'[w] # <<>>
    BY <2>1, <2>3, <1>0, OneElement
  <2>5. Working(t) /\ ~Working(t)' /\ Stage(t)' = "finished"
    BY <2>1, <2>2, <2>3, <2>4, <1>0 DEF Working, Stage
  <2>6. InFlight(t) /\ \A u \in Threads : InFlight(u)' <=> InFlight(u)
    BY <2>1, <2>2
  <2>7. /\ lastCmd \in Ids /\ FateMap' = [FateMap EXCEPT ![lastCmd] = "finished"]
        /\ ActiveSet = {lastCmd} /\ ActiveSet' = {}
    BY <2>1, <2>5, <2>6, CallGoesOn
  <2>8. PICK n \in Ids : n = lastCmd
    BY <2>7
  <2>9. Service!Finish(n)
    BY <2>7, <2>8 DEF Service!Finish, FateMap, ActiveSet
  <2>. QED BY <2>9 DEF Service!Next
<1>18. ASSUME NEW w \in Ids, ChildDies(w) PROVE Service!Next \/ UNCHANGED Service!vars
  <2>1. /\ UNCHANGED <<lastCmd, my, result, pc, seen, outcome, outbox>>
        /\ alive' \subseteq alive
        /\ \A v \in alive' : inbox'[v] = inbox[v] /\ running'[v] = running[v]
    BY <1>18, <1>0 DEF ChildDies
  <2>2. \A t \in Threads : Working(t)' => Working(t)
    BY <2>1 DEF Working
  <2>. QED BY <2>1, <2>2, <1>13
<1>19. CASE UNCHANGED vars
  BY <1>19, <1>a DEF vars, FateMap, ActiveSet, Fate, Answered, Sent
<1>20. ASSUME NEW t \in Threads, Proceed(t) PROVE Service!Next \/ UNCHANGED Service!vars
  <2>1. CASE Call(t)
    <3>1. CASE SendToWorker(t) \/ SendToNewWorker(t)
      BY <3>1, <1>2
    <3>2. CASE SendFails(t)
      BY <3>2, <1>3
    <3>. QED BY <2>1, <3>1, <3>2 DEF Call
  <2>2. CASE Wait(t)
    BY <2>2, <1>4, <1>11, <1>12 DEF Wait
  <2>3. CASE Collect(t)
    BY <2>3, <1>5, <1>6, <1>7 DEF Collect
  <2>4. CASE t = Main /\ Shutdown
    BY <2>4, <1>2, <1>8, <1>9, <1>10 DEF Shutdown
  <2>. QED BY <1>20, <2>1, <2>2, <2>3, <2>4 DEF Proceed
<1>21. ASSUME NEW t \in Threads, Lock(t) \/ Expire(t)
       PROVE  Service!Next \/ UNCHANGED Service!vars
  BY <1>1, <1>11, <1>21
<1>22. ASSUME NEW w \in Ids, Child(w) PROVE Service!Next \/ UNCHANGED Service!vars
  BY <1>16, <1>17, <1>18, <1>22 DEF Child
<1>23. CASE Cancel
  BY <1>14, <1>15, <1>23 DEF Cancel
<1>. QED BY <1>19, <1>20, <1>21, <1>22, <1>23 DEF Next

\* The manager implements the command service, for any number of threads and commands.
THEOREM ImplementsService == Spec => ServiceSpec
<1>1. Init => Service!Init
  BY DEF Init, Service!Init, Fate, Answered, Sent
<1>2. Init => ServiceInv
  BY ServiceInit
<1>3. WorkerInv /\ ServiceInv /\ [Next]_vars => ServiceInv'
  BY ServiceNext
<1>4. WorkerInv /\ ServiceInv /\ (WorkerInv /\ ServiceInv)' /\ [Next]_vars
        => [Service!Next]_(Service!vars)
  BY StepRefines DEF AllInv
<1>. QED BY <1>1, <1>2, <1>3, <1>4, InvAlways, PTL DEF Spec, ServiceSpec, Service!Spec

----------------------------------------------------------------------------
(* Why every call ends: once its deadline has passed, a call is at most six *)
(* steps of its own thread from its end, and nothing that another thread,   *)
(* a cancel or the worker process does puts it back or takes the deadline   *)
(* from it.  That the thread has a next step and takes it is the fairness   *)
(* EveryCommandReturns is checked under.                                    *)

\* Steps from the end of the call that waits in t, when its deadline has passed.
Left(t) ==
    CASE pc[t] = "get"     -> 6
      [] pc[t] = "poll"    -> 5
      [] pc[t] = "recheck" -> 4
      [] pc[t] = "alive"   -> 3
      [] pc[t] = "check"   -> 2
      [] pc[t] = "collect" -> 1
      [] OTHER -> 0

\* _wait_for_result after its deadline: no round of its loop is begun again, and
\* nobody else moves the thread.
DeadlineEndsCall ==
    [][\A t \in Threads : expired[t] =>
         /\ Left(t) \in 1 .. 6
         /\ Proceed(t) => Left(t)' < Left(t)
         /\ ~Proceed(t) => Left(t)' = Left(t) /\ expired[t]']_vars

\* Only a thread inside the wait has a deadline.
DeadlineInWait == \A t \in Threads : expired[t] => pc[t] \in Waiting \ {"claim"}

\* What a thread's own step does to the places and the deadlines.
LEMMA OwnStep ==
    ASSUME TypeOK, NEW t \in Threads, Proceed(t)
    PROVE  /\ \A u \in Threads \ {t} : pc'[u] = pc[u] /\ expired'[u] = expired[u]
           /\ pc[t] = "send" => expired'[t] \in {FALSE, expired[t]}
           /\ pc[t] \in Waiting \cup {"send"}
           /\ expired[t] /\ pc[t] \in Waiting \ {"claim"} => Left(t)' < Left(t)
           /\ pc[t] \in Waiting => \/ ~expired'[t]
                                   \/ pc'[t] \in Waiting \ {"claim"} /\ expired'[t] = expired[t]
<1>0. /\ pc \in [Threads -> Waiting \cup {"idle", "send", "done"}]
      /\ expired \in [Threads -> BOOLEAN]
  BY DEF TypeOK
<1>1. CASE \E how \in Results : pc[t] \in Waiting \cup {"send"} /\ Return(t, how)
  <2>1. /\ \A u \in Threads \ {t} : pc'[u] = pc[u] /\ expired'[u] = expired[u]
        /\ pc'[t] \in {"idle", "done"} /\ expired'[t] = FALSE
    BY <1>0, <1>1
  <2>2. Left(t)' = 0
    BY <2>1 DEF Left
  <2>3. pc[t] \in Waiting \ {"claim"} => Left(t) \in 1 .. 6
    BY DEF Left
  <2>4. pc[t] \in Waiting \cup {"send"}
    BY <1>1
  <2>5. pc[t] \in Waiting \ {"claim"} => Left(t)' < Left(t)
    BY <2>2, <2>3
  <2>. QED BY <2>1, <2>4, <2>5
<1>2. CASE \E w \in Ids : pc[t] = "send" /\ Put(t, w)
  BY <1>0, <1>2 DEF Left
<1>3. ASSUME expired' = expired, NEW to \in Waiting, pc' = [pc EXCEPT ![t] = to],
             \/ pc[t] = "claim" /\ to # "claim"
             \/ pc[t] = "check" /\ to \in (IF expired[t] THEN {"collect"} ELSE {"get", "collect"})
             \/ pc[t] = "get" /\ to = "poll"
             \/ pc[t] = "poll" /\ to \in {"recheck", "check", "collect"}
             \/ pc[t] = "recheck" /\ to \in {"alive", "collect"}
             \/ pc[t] = "alive" /\ to \in {"check", "collect"}
      PROVE  /\ \A u \in Threads \ {t} : pc'[u] = pc[u] /\ expired'[u] = expired[u]
             /\ pc[t] \in Waiting /\ expired[t] /\ pc[t] # "claim" => Left(t)' < Left(t)
             /\ pc'[t] \in Waiting \ {"claim"} /\ expired'[t] = expired[t]
  <2>1. pc'[t] = to /\ \A u \in Threads \ {t} : pc'[u] = pc[u]
    BY <1>0, <1>3
  <2>. QED BY <1>3, <2>1 DEF Left
<1>4. ASSUME \/ ClaimPending(t) \/ CheckDeadline(t) \/ GetWaits(t) \/ GetEnvelope(t)
             \/ GetEmpty(t) \/ RecheckCancelled(t) \/ CheckAlive(t)
      PROVE  /\ pc[t] \in Waiting /\ expired' = expired
             /\ \A u \in Threads \ {t} : pc'[u] = pc[u] /\ expired'[u] = expired[u]
             /\ expired[t] /\ pc[t] # "claim" => Left(t)' < Left(t)
             /\ pc'[t] \in Waiting \ {"claim"}
  <2>1. CASE ClaimPending(t)
    BY <2>1, <1>3 DEF ClaimPending
  <2>2. CASE CheckDeadline(t)
    BY <2>2, <1>3 DEF CheckDeadline
  <2>3. CASE GetWaits(t)
    BY <2>3, <1>3 DEF GetWaits
  <2>4. CASE GetEnvelope(t)
    BY <2>4, <1>3 DEF GetEnvelope
  <2>5. CASE GetEmpty(t)
    BY <2>5, <1>3 DEF GetEmpty
  <2>6. CASE RecheckCancelled(t)
    BY <2>6, <1>3 DEF RecheckCancelled
  <2>7. CASE CheckAlive(t)
    BY <2>7, <1>3 DEF CheckAlive
  <2>. QED BY <1>4, <2>1, <2>2, <2>3, <2>4, <2>5, <2>6, <2>7
<1>5. CASE Call(t)
  <2>1. CASE SendToWorker(t)
    BY <2>1, <1>2 DEF SendToWorker, TypeOK
  <2>2. CASE SendToNewWorker(t)
    <3>1. pc[t] = "send" /\ Put(t, my[t])
      BY <2>2 DEF SendToNewWorker
    <3>. QED BY <3>1, <1>0 DEF Left
  <2>3. CASE SendFails(t)
    BY <2>3, <1>1 DEF SendFails
  <2>. QED BY <1>5, <2>1, <2>2, <2>3 DEF Call
<1>6. CASE Wait(t)
  <2>1. CASE GetRaises(t) \/ IsAliveRaises(t)
    BY <2>1, <1>1 DEF GetRaises, IsAliveRaises
  <2>2. CASE ~(GetRaises(t) \/ IsAliveRaises(t))
    BY <1>4, <1>6, <2>2 DEF Wait
  <2>. QED BY <2>1, <2>2
<1>7. CASE Collect(t)
  <2>1. pc[t] = "collect" /\ \E how \in Results : Return(t, how)
    BY <1>7 DEF Collect, CollectTimeout, CollectExited, CollectResult
  <2>. QED BY <2>1, <1>1
<1>8. CASE t = Main /\ Shutdown
  <2>1. CASE SendShutdown
    <3>1. pc[t] = "send" /\ Put(t, worker)
      BY <1>8, <2>1 DEF SendShutdown
    <3>. QED BY <3>1, <1>0 DEF Left
  <2>2. CASE NothingToShutDown \/ CollectShutdownRaises \/ CollectShutdown
    <3>1. pc[t] \in {"send", "collect"}
      BY <1>8, <2>2 DEF NothingToShutDown, CollectShutdownRaises, CollectShutdown
    <3>2. \E how \in Results : Return(t, how)
      BY <1>8, <2>2 DEF NothingToShutDown, CollectShutdownRaises, CollectShutdown
    <3>. QED BY <3>1, <3>2, <1>1
  <2>. QED BY <1>8, <2>1, <2>2 DEF Shutdown
<1>. QED BY <1>5, <1>6, <1>7, <1>8 DEF Proceed

\* The steps that are nobody's own leave the places alone.
LEMMA OtherStep ==
    ASSUME TypeOK, [Next]_vars, \A t \in Threads : ~Proceed(t)
    PROVE  \/ UNCHANGED <<pc, expired>>
           \/ \E t \in Threads : Lock(t) \/ Expire(t)
<1>1. CASE Cancel
  BY <1>1 DEF Cancel, CancelKills, CancelInjects
<1>2. CASE \E w \in Ids : Child(w)
  BY <1>2 DEF Child, ChildTakes, ChildFinishes, ChildShutsDown, ChildDies
<1>3. CASE UNCHANGED vars
  BY <1>3 DEF vars
<1>. QED BY <1>1, <1>2, <1>3 DEF Next

\* Places and deadlines: what Lock and Expire do to them.
LEMMA TurnStep ==
    ASSUME TypeOK, NEW t \in Threads, Lock(t) \/ Expire(t)
    PROVE  /\ \A u \in Threads \ {t} : pc'[u] = pc[u] /\ expired'[u] = expired[u]
           /\ \/ pc[t] = "idle" /\ expired' = expired
              \/ pc[t] \in Waiting \ {"claim"} /\ pc' = pc /\ ~expired[t]
BY DEF Lock, Expire, TypeOK

\* Only a thread inside the wait has a deadline.
LEMMA DeadlineNext == WorkerInv /\ DeadlineInWait /\ [Next]_vars => DeadlineInWait'
<1> SUFFICES ASSUME WorkerInv, DeadlineInWait, [Next]_vars PROVE DeadlineInWait'
  OBVIOUS
<1>0. TypeOK
  BY DEF WorkerInv
<1>1. ASSUME NEW t \in Threads, Proceed(t) PROVE DeadlineInWait'
  <2>1. expired'[t] => pc'[t] \in Waiting \ {"claim"}
    BY <1>0, <1>1, OwnStep DEF DeadlineInWait, TypeOK
  <2>. QED BY <1>0, <1>1, <2>1, OwnStep DEF DeadlineInWait
<1>2. ASSUME NEW t \in Threads, Lock(t) \/ Expire(t) PROVE DeadlineInWait'
  BY <1>0, <1>2, TurnStep DEF DeadlineInWait
<1>3. CASE UNCHANGED <<pc, expired>>
  BY <1>3 DEF DeadlineInWait
<1>. QED BY <1>0, <1>1, <1>2, <1>3, OtherStep

\* A step after the deadline: the thread's own brings the end nearer, any other
\* leaves it where it is.
LEMMA DeadlineStep ==
    ASSUME WorkerInv, DeadlineInWait, [Next]_vars, NEW t \in Threads, expired[t]
    PROVE  /\ Left(t) \in 1 .. 6
           /\ Proceed(t) => Left(t)' < Left(t)
           /\ ~Proceed(t) => Left(t)' = Left(t) /\ expired[t]'
<1>0. TypeOK /\ pc[t] \in Waiting \ {"claim"}
  BY DEF WorkerInv, DeadlineInWait
<1>1. Left(t) \in 1 .. 6
  BY <1>0 DEF Left
<1>2. Proceed(t) => Left(t)' < Left(t)
  BY <1>0, OwnStep
<1>3. ASSUME ~Proceed(t) PROVE Left(t)' = Left(t) /\ expired[t]'
  <2>1. pc'[t] = pc[t] /\ expired'[t] = expired[t]
    <3>1. ASSUME NEW u \in Threads, Proceed(u) PROVE pc'[t] = pc[t] /\ expired'[t] = expired[t]
      BY <1>0, <1>3, <3>1, OwnStep
    <3>2. ASSUME NEW u \in Threads, Lock(u) \/ Expire(u)
          PROVE  pc'[t] = pc[t] /\ expired'[t] = expired[t]
      BY <1>0, <3>2, TurnStep
    <3>. QED BY <1>0, <3>1, <3>2, OtherStep
  <2>. QED BY <2>1 DEF Left
<1>. QED BY <1>1, <1>2, <1>3

\* Past its deadline a call ends within six steps of its thread, for any number of
\* callers and whatever cancels and the worker do in between.
THEOREM DeadlineIsFinal == Spec => DeadlineEndsCall
<1>1. Init => DeadlineInWait
  BY DEF Init, DeadlineInWait
<1>2. WorkerInv /\ DeadlineInWait /\ [Next]_vars =>
        [\A t \in Threads : expired[t] =>
           /\ Left(t) \in 1 .. 6
           /\ Proceed(t) => Left(t)' < Left(t)
           /\ ~Proceed(t) => Left(t)' = Left(t) /\ expired[t]']_vars
  BY DeadlineStep
<1>. QED BY <1>1, <1>2, InvAlways, DeadlineNext, PTL DEF Spec, DeadlineEndsCall
=============================================================================
