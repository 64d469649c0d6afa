----------------------- MODULE TaskflowExecutionProofs -----------------------
(***************************************************************************)
(* Proofs about TaskflowExecution for any set of executions, any number of *)
(* nodes, and any number of messages and cancellations.                    *)
(***************************************************************************)
EXTENDS TaskflowExecution, SequenceTheorems, TLAPS

RegisteredPCs == WorkerPCs \ {"idle", "start", "report"}
BeforeCommand == {"check", "skip", "begin", "check2", "call", "lease"}

\* Whoever works or cancels does so on an execution, and the controller has that of
\* the taskflow thread from start_execution to finish_execution.
Actors ==
    /\ wpc # "idle" => app \in Apps
    /\ hpc # "idle" => target \in Apps
    /\ active = IF wpc \in RegisteredPCs THEN app ELSE NoApp
    /\ wpc \notin RegisteredPCs => ~cancelled

\* The command in flight is the one the taskflow thread waits for, or a recording's; the
\* node says which of its commands it is.
OneCommand ==
    /\ command = "taskflow" <=> wpc = "command"
    /\ killed => command # "none"
    /\ wpc = "command" => (wasKilled <=> killed)
    /\ phase # "only" => wpc \in {"lease", "snapshot", "command"}
    /\ wpc = "snapshot" => phase = "snapshot"
    /\ wpc = "lease" => phase # "snapshot"

\* A flag set in time keeps a run from the pcs behind its checks; the way that is still
\* open behind them is from the return motion to the snapshot.
Flagged ==
    /\ preCancelled => started = 0 /\ wpc \notin {"snapshot", "command"}
    /\ preCancelled \/ late # <<>> => wpc \notin {"start", "begin", "check2", "call", "lease"}
    /\ (preCancelled \/ late # <<>>) /\ wpc \in RegisteredPCs => cancelled
    /\ wpc = "snapshot" => late \in {<<>>, <<"return">>}
    /\ wpc = "command" /\ phase = "return" => late \in {<<>>, <<"return">>}
    /\ late \in {<<>>, <<"only">>, <<"return">>, <<"snapshot">>, <<"return", "snapshot">>}

\* As long as the schedule goes on its commands succeed, one or two for each node.
Counted ==
    /\ wpc \in {"start", "announce"} => step = 0 /\ started = 0 /\ succeeded = 0
    /\ wpc \in BeforeCommand =>
           step < Steps /\ succeeded = started /\ step <= started /\ started <= 2 * step
    /\ wpc = "snapshot" =>
           step < Steps /\ succeeded = started /\ step <= started /\ started <= 2 * step + 1
    /\ wpc = "command" =>
           /\ step < Steps /\ started = succeeded + 1
           /\ step <= succeeded
           /\ succeeded <= IF phase = "snapshot" THEN 2 * step + 1 ELSE 2 * step
    /\ wpc = "ended" => step < Steps
    /\ wpc = "ended" /\ outcome = "success" =>
           succeeded = started /\ step + 1 <= started /\ started <= 2 * step + 2
    /\ wpc \in {"finish", "report"} /\ outcome = "success" =>
           succeeded = started /\ Steps <= started

\* What has been told by then, and of which outcome.
Told ==
    /\ wpc \in {"start", "announce", "snapshot", "command"} \union BeforeCommand
           => outcome = "success"
    /\ wpc \in {"start", "announce", "snapshot", "command", "ended"} \union BeforeCommand
           => finals = {}
    /\ wpc \in {"start", "announce", "snapshot"} \union BeforeCommand => ~wasKilled
    /\ wpc \in {"ended", "finish", "report"} /\ wasKilled => outcome # "success"
    /\ wpc \in {"finish", "report"} /\ outcome = "success" => finals = {}
    /\ wpc \in {"finish", "report", "except", "release"} => "OVER" \notin finals
    /\ wpc \in {"finish", "report", "except", "release", "idle"} /\ outcome = "refused"
           => "STOP_UNCONFIRMED" \in finals
    /\ outcome = "raised" => wpc \in {"release", "idle"} /\ "ERROR" \in finals
    /\ wpc = "release" => outcome = "raised"

\* The gate is still closed for a run it owes an answer, which then does not go on.
Owed ==
    /\ owing => gate
    /\ wpc \in {"start", "announce", "snapshot", "command"} \union BeforeCommand => ~owing
    /\ wpc \in {"ended", "finish", "report"} /\ owing => outcome # "success"
    /\ wpc = "idle" /\ owing => "STOP_UNCONFIRMED" \in finals \/ outcome = "raised"

ExecutionInv ==
    TypeOK /\ Actors /\ OneCommand /\ Flagged /\ Counted /\ Told /\ Owed /\ OverIsEarned
----------------------------------------------------------------------------
USE ExecutionAssumption DEF controller, worker, handler, gdk, bounds, history, WorkerPCs,
    Phases, Outcomes, Final, RegisteredPCs, BeforeCommand, Publish, Waited, NodeEnds,
    NodeRaises, NodeState, FinalState, ReleaseController

\* Nobody works, nothing has been told.
LEMMA ExecutionInit == Init => ExecutionInv
<1> SUFFICES ASSUME Init PROVE ExecutionInv
  OBVIOUS
<1> USE DEF Init
<1>1. TypeOK
  <2>1. inbox \in Seq(Apps) /\ Len(inbox) <= submitted
    OBVIOUS
  <2>2. shown \in [Apps -> Final \union {"none", "RUNNING"}]
    OBVIOUS
  <2>3. step \in 0 .. Steps /\ {started, succeeded} \subseteq 0 .. 2 * Steps /\ late \in Seq(Phases)
    OBVIOUS
  <2>4. submitted \in 0 .. MaxRuns /\ cancels \in 0 .. MaxCancels
    OBVIOUS
  <2>. QED BY <2>1, <2>2, <2>3, <2>4 DEF TypeOK
<1>2. Actors /\ OneCommand /\ Flagged
  BY DEF Actors, OneCommand, Flagged
<1>3. Counted /\ Told /\ Owed /\ OverIsEarned
  BY DEF Counted, Told, Owed, OverIsEarned
<1>. QED BY <1>1, <1>2, <1>3 DEF ExecutionInv

\* Steps of the taskflow thread up to the node runner.
LEMMA RunStep ==
    ASSUME ExecutionInv, Take \/ Reject \/ StartExecution \/ PublishStarted
               \/ Check \/ Skip \/ Begin \/ CheckAgain
    PROVE  ExecutionInv'
<1> USE DEF ExecutionInv
<1>1. CASE Take
  <2> USE <1>1 DEF Take
  <2>1. inbox' \in Seq(Apps) /\ Len(inbox') <= submitted' /\ app' \in Apps
    BY HeadTailProperties DEF TypeOK
  <2>2. step' \in 0 .. Steps /\ {started', succeeded'} \subseteq 0 .. 2 * Steps
        /\ late' \in Seq(Phases)
    OBVIOUS
  <2>3. TypeOK'
    BY <2>1, <2>2 DEF TypeOK
  <2>4. (Actors /\ OneCommand /\ Flagged)'
    BY <2>1 DEF Actors, OneCommand, Flagged
  <2>5. (Counted /\ Told /\ Owed /\ OverIsEarned)'
    BY DEF Counted, Told, Owed, OverIsEarned
  <2>. QED BY <2>3, <2>4, <2>5
<1>2. CASE Reject
  BY <1>2 DEF Reject, TypeOK, Actors, OneCommand, Flagged, Counted, Told, Owed, OverIsEarned
<1>3. CASE StartExecution
  BY <1>3 DEF StartExecution, TypeOK, Actors, OneCommand, Flagged, Counted, Told, Owed, OverIsEarned
<1>4. CASE PublishStarted
  BY <1>4 DEF PublishStarted, TypeOK, Actors, OneCommand, Flagged, Counted, Told, Owed, OverIsEarned
<1>5. CASE Check
  BY <1>5 DEF Check, TypeOK, Actors, OneCommand, Flagged, Counted, Told, Owed, OverIsEarned
<1>6. CASE Skip
  BY <1>6 DEF Skip, TypeOK, Actors, OneCommand, Flagged, Counted, Told, Owed, OverIsEarned
<1>7. CASE Begin
  BY <1>7 DEF Begin, TypeOK, Actors, OneCommand, Flagged, Counted, Told, Owed, OverIsEarned
<1>8. CASE CheckAgain
  BY <1>8 DEF CheckAgain, TypeOK, Actors, OneCommand, Flagged, Counted, Told, Owed, OverIsEarned
<1>. QED BY <1>1, <1>2, <1>3, <1>4, <1>5, <1>6, <1>7, <1>8

\* What StartCommand and StartSnapshot do with the record of late starts.
LEMMA LateAppend ==
    ASSUME NEW x \in Phases
    PROVE  /\ Append(<<>>, x) = <<x>> /\ Append(<<"return">>, x) = <<"return", x>>
           /\ {<<>>, <<x>>, <<"return", x>>} \subseteq Seq(Phases)
<1>1. Append(<<>>, x) = <<x>>
  OBVIOUS
<1>2. "return" \in Phases
  OBVIOUS
<1>3. /\ Append(<<"return">>, x) \in Seq(Phases) /\ <<"return", x>> \in Seq(Phases)
      /\ Len(Append(<<"return">>, x)) = 2 /\ Len(<<"return", x>>) = 2
  BY <1>2
<1>4. ASSUME NEW i \in 1 .. 2 PROVE Append(<<"return">>, x)[i] = <<"return", x>>[i]
  BY <1>2
<1>5. Append(<<"return">>, x) = <<"return", x>>
  BY <1>3, <1>4, SeqEqual
<1>. QED BY <1>1, <1>3, <1>5

\* What a command and its end may change keeps its type.
LEMMA CommandTypes ==
    ASSUME TypeOK, succeeded' \in 0 .. 2 * Steps, phase' \in Phases, wpc' \in WorkerPCs,
           outcome' \in Outcomes, command' \in {"none", "taskflow", "recording"},
           killed' \in BOOLEAN, gate' \in BOOLEAN, owing' \in BOOLEAN,
           UNCHANGED <<inbox, controller, app, step, handler, shown, bounds, preCancelled,
                       started, late, wasKilled, finals>>
    PROVE  TypeOK'
  BY SMT DEF TypeOK

\* The command or the commands of a node.
LEMMA CommandStep ==
    ASSUME ExecutionInv, RefuseCommand \/ PassChecks \/ SkipReturn \/ StartCommand
               \/ StartSnapshot \/ FailSnapshot \/ EndCommand \/ TimeOut
               \/ EndInterrupted \/ RaiseInterrupted
    PROVE  ExecutionInv'
<1> USE DEF ExecutionInv
<1>1. CASE RefuseCommand
  <2> USE <1>1 DEF RefuseCommand
  <2>1. TypeOK'
    <3>1. /\ phase' \in Phases /\ wpc' \in WorkerPCs /\ outcome' \in Outcomes
          /\ command' \in {"none", "taskflow", "recording"} /\ killed' \in BOOLEAN
      BY DEF TypeOK
    <3>2. gate' \in BOOLEAN /\ owing' \in BOOLEAN
      BY DEF TypeOK
    <3>3. succeeded' \in 0 .. 2 * Steps
      BY DEF TypeOK, Counted
    <3>4. UNCHANGED <<inbox, controller, app, step, handler, shown, bounds, preCancelled,
                      started, late, wasKilled, finals>>
      OBVIOUS
    <3>. QED BY <3>1, <3>2, <3>3, <3>4, CommandTypes
  <2>2. Actors'
    BY DEF Actors
  <2>3. OneCommand'
    BY DEF OneCommand
  <2>4. Flagged'
    BY DEF Flagged, TypeOK
  <2>5. Counted'
    BY DEF Counted, TypeOK, OneCommand
  <2>6. (Told /\ Owed /\ OverIsEarned)'
    BY DEF Told, Owed, OneCommand, OverIsEarned
  <2>. QED BY <2>1, <2>2, <2>3, <2>4, <2>5, <2>6
<1>2. CASE PassChecks
  <2> USE <1>2 DEF PassChecks
  <2>1. TypeOK'
    <3>1. /\ phase' \in Phases /\ wpc' \in WorkerPCs /\ outcome' \in Outcomes
          /\ command' \in {"none", "taskflow", "recording"} /\ killed' \in BOOLEAN
      BY DEF TypeOK
    <3>2. gate' \in BOOLEAN /\ owing' \in BOOLEAN
      BY DEF TypeOK
    <3>3. succeeded' \in 0 .. 2 * Steps
      BY DEF TypeOK, Counted
    <3>4. UNCHANGED <<inbox, controller, app, step, handler, shown, bounds, preCancelled,
                      started, late, wasKilled, finals>>
      OBVIOUS
    <3>. QED BY <3>1, <3>2, <3>3, <3>4, CommandTypes
  <2>2. Actors'
    BY DEF Actors
  <2>3. OneCommand'
    BY DEF OneCommand
  <2>4. Flagged'
    BY DEF Flagged, TypeOK
  <2>5. Counted'
    BY DEF Counted, TypeOK, OneCommand
  <2>6. (Told /\ Owed /\ OverIsEarned)'
    BY DEF Told, Owed, OneCommand, OverIsEarned
  <2>. QED BY <2>1, <2>2, <2>3, <2>4, <2>5, <2>6
<1>3. CASE SkipReturn
  <2> USE <1>3 DEF SkipReturn
  <2>1. TypeOK'
    <3>1. /\ phase' \in Phases /\ wpc' \in WorkerPCs /\ outcome' \in Outcomes
          /\ command' \in {"none", "taskflow", "recording"} /\ killed' \in BOOLEAN
      BY DEF TypeOK
    <3>2. gate' \in BOOLEAN /\ owing' \in BOOLEAN
      BY DEF TypeOK
    <3>3. succeeded' \in 0 .. 2 * Steps
      BY DEF TypeOK, Counted
    <3>4. UNCHANGED <<inbox, controller, app, step, handler, shown, bounds, preCancelled,
                      started, late, wasKilled, finals>>
      OBVIOUS
    <3>. QED BY <3>1, <3>2, <3>3, <3>4, CommandTypes
  <2>2. Actors'
    BY DEF Actors
  <2>3. OneCommand'
    BY DEF OneCommand
  <2>4. Flagged'
    BY DEF Flagged, TypeOK
  <2>5. Counted'
    BY DEF Counted, TypeOK, OneCommand
  <2>6. (Told /\ Owed /\ OverIsEarned)'
    BY DEF Told, Owed, OneCommand, OverIsEarned
  <2>. QED BY <2>1, <2>2, <2>3, <2>4, <2>5, <2>6
<1>4. CASE StartCommand
  <2> USE <1>4 DEF StartCommand, Start
  <2>1. phase \in Phases /\ late = <<>> /\ cancelled \in BOOLEAN
    BY DEF TypeOK, Flagged
  <2>2. late' \in {<<>>, <<phase>>} /\ (late' # <<>> => cancelled)
    BY <2>1, LateAppend
  <2>3. late' \in Seq(Phases)
    BY <2>1, <2>2, LateAppend, Zenon
  <2>4. TypeOK'
    BY <2>3 DEF TypeOK, Counted
  <2>5. Actors'
    BY DEF Actors
  <2>6. (OneCommand /\ Told /\ Owed)'
    BY DEF OneCommand, Told, Owed
  <2>7. Flagged'
    BY <2>1, <2>2 DEF Flagged, OneCommand
  <2>8. (Counted /\ OverIsEarned)'
    BY DEF Counted, TypeOK, OneCommand, Told, OverIsEarned
  <2>. QED BY <2>4, <2>5, <2>6, <2>7, <2>8
<1>5. CASE StartSnapshot
  <2> USE <1>5 DEF StartSnapshot, Start
  <2>1. phase = "snapshot" /\ late \in {<<>>, <<"return">>} /\ cancelled \in BOOLEAN
        /\ "snapshot" \in Phases /\ "return" \in Phases
    BY DEF TypeOK, Flagged, OneCommand
  <2>2. late' \in {<<>>, <<"return">>, <<"snapshot">>, <<"return", "snapshot">>}
        /\ (late' # late => cancelled)
    BY <2>1, LateAppend
  <2>3. late' \in Seq(Phases)
    BY <2>1, <2>2, LateAppend, Zenon
  <2>4. TypeOK'
    BY <2>3 DEF TypeOK, Counted
  <2>5. Actors'
    BY DEF Actors
  <2>6. (OneCommand /\ Told /\ Owed)'
    BY DEF OneCommand, Told, Owed
  <2>7. Flagged'
    BY <2>1, <2>2 DEF Flagged, OneCommand
  <2>8. (Counted /\ OverIsEarned)'
    BY DEF Counted, TypeOK, OneCommand, Told, OverIsEarned
  <2>. QED BY <2>4, <2>5, <2>6, <2>7, <2>8
<1>6. CASE FailSnapshot
  <2> USE <1>6 DEF FailSnapshot
  <2>1. TypeOK'
    <3>1. /\ phase' \in Phases /\ wpc' \in WorkerPCs /\ outcome' \in Outcomes
          /\ command' \in {"none", "taskflow", "recording"} /\ killed' \in BOOLEAN
      BY DEF TypeOK
    <3>2. gate' \in BOOLEAN /\ owing' \in BOOLEAN
      BY DEF TypeOK
    <3>3. succeeded' \in 0 .. 2 * Steps
      BY DEF TypeOK, Counted
    <3>4. UNCHANGED <<inbox, controller, app, step, handler, shown, bounds, preCancelled,
                      started, late, wasKilled, finals>>
      OBVIOUS
    <3>. QED BY <3>1, <3>2, <3>3, <3>4, CommandTypes
  <2>2. Actors'
    BY DEF Actors
  <2>3. OneCommand'
    BY DEF OneCommand
  <2>4. Flagged'
    BY DEF Flagged, TypeOK
  <2>5. Counted'
    BY DEF Counted, TypeOK, OneCommand
  <2>6. (Told /\ Owed /\ OverIsEarned)'
    BY DEF Told, Owed, OneCommand, OverIsEarned
  <2>. QED BY <2>1, <2>2, <2>3, <2>4, <2>5, <2>6
<1>7. CASE EndCommand
  <2> USE <1>7 DEF EndCommand
  <2>1. TypeOK'
    <3>1. /\ phase' \in Phases /\ wpc' \in WorkerPCs /\ outcome' \in Outcomes
          /\ command' \in {"none", "taskflow", "recording"} /\ killed' \in BOOLEAN
      BY DEF TypeOK
    <3>2. gate' \in BOOLEAN /\ owing' \in BOOLEAN
      BY DEF TypeOK
    <3>3. succeeded' \in 0 .. 2 * Steps
      BY DEF TypeOK, Counted
    <3>4. UNCHANGED <<inbox, controller, app, step, handler, shown, bounds, preCancelled,
                      started, late, wasKilled, finals>>
      OBVIOUS
    <3>. QED BY <3>1, <3>2, <3>3, <3>4, CommandTypes
  <2>2. Actors'
    BY DEF Actors
  <2>3. OneCommand'
    BY DEF OneCommand
  <2>4. Flagged'
    BY DEF Flagged, TypeOK
  <2>5. Counted'
    BY DEF Counted, TypeOK, OneCommand
  <2>6. (Told /\ Owed /\ OverIsEarned)'
    BY DEF Told, Owed, OneCommand, OverIsEarned
  <2>. QED BY <2>1, <2>2, <2>3, <2>4, <2>5, <2>6
<1>8. CASE TimeOut
  <2> USE <1>8 DEF TimeOut
  <2>1. TypeOK'
    <3>1. /\ phase' \in Phases /\ wpc' \in WorkerPCs /\ outcome' \in Outcomes
          /\ command' \in {"none", "taskflow", "recording"} /\ killed' \in BOOLEAN
      BY DEF TypeOK
    <3>2. gate' \in BOOLEAN /\ owing' \in BOOLEAN
      BY DEF TypeOK
    <3>3. succeeded' \in 0 .. 2 * Steps
      BY DEF TypeOK, Counted
    <3>4. UNCHANGED <<inbox, controller, app, step, handler, shown, bounds, preCancelled,
                      started, late, wasKilled, finals>>
      OBVIOUS
    <3>. QED BY <3>1, <3>2, <3>3, <3>4, CommandTypes
  <2>2. Actors'
    BY DEF Actors
  <2>3. OneCommand'
    BY DEF OneCommand
  <2>4. Flagged'
    BY DEF Flagged, TypeOK
  <2>5. Counted'
    BY DEF Counted, TypeOK, OneCommand
  <2>6. (Told /\ Owed /\ OverIsEarned)'
    BY DEF Told, Owed, OneCommand, OverIsEarned
  <2>. QED BY <2>1, <2>2, <2>3, <2>4, <2>5, <2>6
<1>9. CASE EndInterrupted
  <2> USE <1>9 DEF EndInterrupted
  <2>1. TypeOK'
    <3>1. /\ phase' \in Phases /\ wpc' \in WorkerPCs /\ outcome' \in Outcomes
          /\ command' \in {"none", "taskflow", "recording"} /\ killed' \in BOOLEAN
      BY DEF TypeOK
    <3>2. gate' \in BOOLEAN /\ owing' \in BOOLEAN
      BY DEF TypeOK
    <3>3. succeeded' \in 0 .. 2 * Steps
      BY DEF TypeOK, Counted
    <3>4. UNCHANGED <<inbox, controller, app, step, handler, shown, bounds, preCancelled,
                      started, late, wasKilled, finals>>
      OBVIOUS
    <3>. QED BY <3>1, <3>2, <3>3, <3>4, CommandTypes
  <2>2. Actors'
    BY DEF Actors
  <2>3. OneCommand'
    BY DEF OneCommand
  <2>4. Flagged'
    BY DEF Flagged, TypeOK
  <2>5. Counted'
    BY DEF Counted, TypeOK, OneCommand
  <2>6. (Told /\ Owed /\ OverIsEarned)'
    BY DEF Told, Owed, OneCommand, OverIsEarned
  <2>. QED BY <2>1, <2>2, <2>3, <2>4, <2>5, <2>6
<1>10. CASE RaiseInterrupted
  <2> USE <1>10 DEF RaiseInterrupted
  <2>1. TypeOK'
    <3>1. /\ phase' \in Phases /\ wpc' \in WorkerPCs /\ outcome' \in Outcomes
          /\ command' \in {"none", "taskflow", "recording"} /\ killed' \in BOOLEAN
      BY DEF TypeOK
    <3>2. gate' \in BOOLEAN /\ owing' \in BOOLEAN
      BY DEF TypeOK
    <3>3. succeeded' \in 0 .. 2 * Steps
      BY DEF TypeOK, Counted
    <3>4. UNCHANGED <<inbox, controller, app, step, handler, shown, bounds, preCancelled,
                      started, late, wasKilled, finals>>
      OBVIOUS
    <3>. QED BY <3>1, <3>2, <3>3, <3>4, CommandTypes
  <2>2. Actors'
    BY DEF Actors
  <2>3. OneCommand'
    BY DEF OneCommand
  <2>4. Flagged'
    BY DEF Flagged, TypeOK
  <2>5. Counted'
    BY DEF Counted, TypeOK, OneCommand
  <2>6. (Told /\ Owed /\ OverIsEarned)'
    BY DEF Told, Owed, OneCommand, OverIsEarned
  <2>. QED BY <2>1, <2>2, <2>3, <2>4, <2>5, <2>6
<1>. QED BY <1>1, <1>2, <1>3, <1>4, <1>5, <1>6, <1>7, <1>8, <1>9, <1>10

\* What is told, and the release of the controller.
LEMMA ReportStep ==
    ASSUME ExecutionInv, PublishNode \/ PublishError \/ FinishFailed \/ FinishExecution
               \/ PublishFinished
    PROVE  ExecutionInv'
<1> USE DEF ExecutionInv
<1>1. CASE PublishNode
  <2> USE <1>1 DEF PublishNode
  <2>1. /\ wpc = "ended" /\ wpc' \in {"check", "finish", "except"}
        /\ wpc' = "check" => outcome = "success" /\ step' < Steps
        /\ outcome = "success" => step' = step + 1 /\ wpc' # "except"
        /\ outcome = "success" /\ wpc' = "finish" => step' >= Steps
    BY DEF TypeOK
  <2>2. TypeOK'
    <3>1. step' \in 0 .. Steps /\ wpc' \in WorkerPCs
      BY <2>1 DEF TypeOK, Counted
    <3>2. shown' \in [Apps -> Final \union {"none", "RUNNING"}] /\ finals' \subseteq Final
      BY DEF TypeOK
    <3>3. UNCHANGED <<inbox, controller, app, phase, outcome, handler, gdk, bounds, history>>
      OBVIOUS
    <3>. QED BY <3>1, <3>2, <3>3 DEF TypeOK
  <2>3. (Actors /\ OneCommand /\ Flagged)'
    BY <2>1 DEF Actors, OneCommand, Flagged
  <2>4. Counted'
    BY <2>1 DEF Counted, TypeOK
  <2>5. (Told /\ Owed /\ OverIsEarned)'
    BY DEF Told, Owed, OverIsEarned, TypeOK, Counted
  <2>. QED BY <2>2, <2>3, <2>4, <2>5
<1>2. CASE PublishError
  BY <1>2 DEF PublishError, TypeOK, Actors, OneCommand, Flagged, Counted, Told, Owed, OverIsEarned
<1>3. CASE FinishFailed
  <2> USE <1>3 DEF FinishFailed
  <2>1. TypeOK'
    <3>1. cancelled' \in BOOLEAN /\ active' \in Apps \union {NoApp} /\ wpc' \in WorkerPCs
      OBVIOUS
    <3>2. pending' = pending /\ UNCHANGED <<inbox, app, step, phase, outcome, hpc, target, command,
              killed, gate, shown, submitted, cancels, preCancelled, started, succeeded, late,
              wasKilled, owing, finals>>
      OBVIOUS
    <3>. QED BY <3>1, <3>2, SMT DEF TypeOK
  <2>2. Actors'
    BY DEF Actors
  <2>3. (OneCommand /\ Flagged)'
    BY DEF OneCommand, Flagged
  <2>4. (Counted /\ Told /\ Owed /\ OverIsEarned)'
    BY DEF Counted, Told, Owed, OverIsEarned
  <2>. QED BY <2>1, <2>2, <2>3, <2>4
<1>4. CASE FinishExecution
  <2> USE <1>4 DEF FinishExecution
  <2>1. TypeOK'
    <3>1. cancelled' \in BOOLEAN /\ active' \in Apps \union {NoApp} /\ wpc' \in WorkerPCs
      OBVIOUS
    <3>2. pending' = pending /\ UNCHANGED <<inbox, app, step, phase, outcome, hpc, target, command,
              killed, gate, shown, submitted, cancels, preCancelled, started, succeeded, late,
              wasKilled, owing, finals>>
      OBVIOUS
    <3>. QED BY <3>1, <3>2, SMT DEF TypeOK
  <2>2. Actors'
    BY DEF Actors
  <2>3. (OneCommand /\ Flagged)'
    BY DEF OneCommand, Flagged
  <2>4. (Counted /\ Told /\ Owed /\ OverIsEarned)'
    BY DEF Counted, Told, Owed, OverIsEarned
  <2>. QED BY <2>1, <2>2, <2>3, <2>4
<1>5. CASE PublishFinished
  BY <1>5 DEF PublishFinished, TypeOK, Actors, OneCommand, Flagged, Counted, Told, Owed, OverIsEarned
<1>. QED BY <1>1, <1>2, <1>3, <1>4, <1>5

\* Messages, cancellations, and the robot-state thread.
LEMMA OtherStep ==
    ASSUME ExecutionInv,
           \/ \E a \in Apps : Submit(a)
           \/ \E a \in Apps \union {NoApp} : RequestCancel(a)
           \/ Handler
           \/ Record \/ EndRecording \/ ConfirmRecovery
    PROVE  ExecutionInv'
<1> USE DEF ExecutionInv
<1>1. ASSUME NEW a \in Apps, Submit(a) PROVE ExecutionInv'
  <2> USE <1>1 DEF Submit
  <2>1. inbox' \in Seq(Apps) /\ Len(inbox') = Len(inbox) + 1
    BY AppendProperties DEF TypeOK
  <2>2. submitted' \in 0 .. MaxRuns /\ Len(inbox') <= submitted'
    BY <2>1 DEF TypeOK
  <2>3. TypeOK'
    BY <2>1, <2>2 DEF TypeOK
  <2>4. (Actors /\ OneCommand /\ Flagged)'
    BY DEF Actors, OneCommand, Flagged
  <2>5. (Counted /\ Told /\ Owed /\ OverIsEarned)'
    BY DEF Counted, Told, Owed, OverIsEarned
  <2>. QED BY <2>3, <2>4, <2>5
<1>2. ASSUME NEW a \in Apps \union {NoApp}, RequestCancel(a) PROVE ExecutionInv'
  <2> USE <1>2 DEF RequestCancel
  <2>1. cancels' \in 0 .. MaxCancels
    BY DEF TypeOK
  <2>2. TypeOK'
    <3>1. CASE cancelled' = TRUE /\ pending' = pending /\ target' \in Apps /\ hpc' = "inject"
      BY <2>1, <3>1 DEF TypeOK
    <3>2. CASE UNCHANGED <<cancelled, target, hpc>> /\ pending' \subseteq Apps
      BY <2>1, <3>2 DEF TypeOK
    <3>. QED BY <3>1, <3>2 DEF TypeOK
  <2>3. Actors'
    BY DEF TypeOK, Actors
  <2>4. (OneCommand /\ Flagged)'
    BY DEF OneCommand, Flagged
  <2>5. (Counted /\ Told /\ Owed /\ OverIsEarned)'
    BY DEF Counted, Told, Owed, OverIsEarned
  <2>. QED BY <2>2, <2>3, <2>4, <2>5
<1>3. CASE Inject
  BY <1>3 DEF Inject, TypeOK, Actors, OneCommand, Flagged, Counted, Told, Owed, OverIsEarned
<1>4. CASE PublishCanceling
  BY <1>4 DEF PublishCanceling, TypeOK, Actors, OneCommand, Flagged, Counted, Told, Owed, OverIsEarned
<1>5. CASE Record
  BY <1>5 DEF Record, TypeOK, Actors, OneCommand, Flagged, Counted, Told, Owed, OverIsEarned
<1>6. CASE EndRecording
  <2> USE <1>6 DEF EndRecording
  <2>1. TypeOK'
    <3>1. command' \in {"none", "taskflow", "recording"} /\ killed' \in BOOLEAN
      OBVIOUS
    <3>2. UNCHANGED <<inbox, controller, worker, handler, gate, shown, bounds, history, finals>>
      OBVIOUS
    <3>. QED BY <3>1, <3>2, SMT DEF TypeOK
  <2>2. (Actors /\ OneCommand /\ Flagged)'
    BY DEF Actors, OneCommand, Flagged
  <2>3. (Counted /\ Told /\ Owed /\ OverIsEarned)'
    BY DEF Counted, Told, Owed, OverIsEarned
  <2>. QED BY <2>1, <2>2, <2>3
<1>7. CASE ConfirmRecovery
  <2> USE <1>7 DEF ConfirmRecovery
  <2>1. TypeOK'
    <3>1. gate' \in BOOLEAN /\ owing' \in BOOLEAN
      OBVIOUS
    <3>2. UNCHANGED <<inbox, controller, worker, handler, command, killed, shown, bounds,
                      preCancelled, started, succeeded, late, wasKilled, finals>>
      OBVIOUS
    <3>. QED BY <3>1, <3>2, SMT DEF TypeOK
  <2>2. (Actors /\ OneCommand /\ Flagged)'
    BY DEF Actors, OneCommand, Flagged
  <2>3. (Counted /\ Told /\ Owed /\ OverIsEarned)'
    BY DEF Counted, Told, Owed, OverIsEarned
  <2>. QED BY <2>1, <2>2, <2>3
<1>. QED BY <1>1, <1>2, <1>3, <1>4, <1>5, <1>6, <1>7 DEF Handler

\* ExecutionInv is inductive.
LEMMA ExecutionNext == ExecutionInv /\ [Next]_vars => ExecutionInv'
<1> SUFFICES ASSUME ExecutionInv, [Next]_vars PROVE ExecutionInv'
  OBVIOUS
<1>1. CASE Worker
  BY <1>1, RunStep, CommandStep, ReportStep DEF Worker
<1>2. CASE \/ \E a \in Apps : Submit(a)
           \/ \E a \in Apps \union {NoApp} : RequestCancel(a)
           \/ Handler
           \/ Record \/ EndRecording \/ ConfirmRecovery
  BY <1>2, OtherStep
<1>3. CASE UNCHANGED vars
  BY <1>3 DEF vars, ExecutionInv, TypeOK, Actors, OneCommand, Flagged, Counted, Told, Owed, OverIsEarned
<1>. QED BY <1>1, <1>2, <1>3 DEF Next

----------------------------------------------------------------------------
\* The invariant holds throughout: registration, commands, flags, counts and what was
\* told agree whatever the threads' order.
THEOREM ExecutionInvariant == Spec => []ExecutionInv
BY ExecutionInit, ExecutionNext, PTL DEF Spec

\* TypeOK for every number of executions, nodes, messages and cancellations: the lists and
\* counters that both threads of cli.py use keep their ranges.
THEOREM ExecutionTypes == Spec => []TypeOK
<1>1. ExecutionInv => TypeOK
  BY DEF ExecutionInv
<1>. QED BY <1>1, ExecutionInvariant, PTL

\* CancelStopsRun, however long the taskflow: taskflow/scheduler.py checks the flag twice per
\* node, and qr_mapping/pose_service.py not between the return motion and the snapshot, so
\* what starts after the run was flagged is a control command, a snapshot, or these two.
THEOREM CancellationStops == Spec => []CancelStopsRun
<1>1. ExecutionInv => CancelStopsRun
  BY DEF ExecutionInv, Flagged, CancelStopsRun
<1>. QED BY <1>1, ExecutionInvariant, PTL

\* OverIsEarned: publish_execution_finished says OVER only of a run each of whose nodes had
\* its commands done, with success and not killed, and of which nothing else terminal was told.
THEOREM OverEarned == Spec => []OverIsEarned
<1>1. ExecutionInv => OverIsEarned
  BY DEF ExecutionInv
<1>. QED BY <1>1, ExecutionInvariant, PTL

\* UnconfirmedIsTold: process_taskflow_message is not done with a run that closed the gate or
\* met it closed before it has published STOP_UNCONFIRMED or, where something raised, ERROR.
THEOREM UnconfirmedTold == Spec => []UnconfirmedIsTold
<1>1. ExecutionInv => UnconfirmedIsTold
  BY DEF ExecutionInv, Told, Owed, UnconfirmedIsTold
<1>. QED BY <1>1, ExecutionInvariant, PTL

\* KillEndsRun: after cancel_active_command killed a command of a run, the scheduler
\* starts no other command of it.
THEOREM KillEnds == Spec => KillEndsRun
<1>1. ExecutionInv /\ [Next]_vars
        => [wasKilled /\ wpc # "idle" => started' = started \/ ~wasKilled']_vars
  <2> SUFFICES ASSUME ExecutionInv, Next, wasKilled, wpc # "idle"
               PROVE  started' = started
    OBVIOUS
  <2>1. CASE StartCommand \/ StartSnapshot
    BY <2>1 DEF StartCommand, StartSnapshot, ExecutionInv, Told
  <2>2. CASE Worker /\ ~StartCommand /\ ~StartSnapshot
    BY <2>2 DEF Worker, Take, Reject, StartExecution, PublishStarted, Check, Skip, Begin,
                CheckAgain, RefuseCommand, PassChecks, SkipReturn, FailSnapshot, EndCommand,
                TimeOut, EndInterrupted, RaiseInterrupted, PublishNode, PublishError,
                FinishFailed, FinishExecution, PublishFinished
  <2>3. CASE ~Worker
    BY <2>3 DEF Next, Submit, RequestCancel, Handler, Inject, PublishCanceling, Record,
                EndRecording, ConfirmRecovery
  <2>. QED BY <2>1, <2>2, <2>3
<1>. QED BY <1>1, ExecutionInvariant, PTL DEF Spec, KillEndsRun

----------------------------------------------------------------------------
(* Why every run ends                                                      *)

\* The steps of the taskflow thread that a run still takes at most; a node takes nine.
Rank ==
    CASE wpc = "start" -> 15
      [] wpc = "announce" -> 14
      [] wpc = "check" -> 13
      [] wpc = "begin" -> 12
      [] wpc = "check2" -> 11
      [] wpc = "call" -> 10
      [] wpc = "lease" -> 9
      [] wpc = "command" /\ phase = "return" -> 8
      [] wpc = "snapshot" -> 7
      [] wpc = "skip" -> 6
      [] wpc = "command" /\ phase # "return" -> 6
      [] wpc = "ended" -> 5
      [] wpc \in {"finish", "except"} -> 2
      [] wpc \in {"report", "release"} -> 1
      [] wpc = "idle" -> 0

Remaining == 9 * (Steps - step) + Rank

\* process_taskflow_message gets nearer to its end with each of its steps, whatever the
\* commands return and whatever raises; cancels, recordings and confirmations by the other
\* threads do not set it back.
RunDescends ==
    [][/\ Remaining \in Nat
       /\ Worker /\ wpc # "idle" => Remaining' < Remaining
       /\ ~Worker => Remaining' = Remaining]_vars

\* The same for a run that has been flagged as cancelled: the number of nodes that it still
\* had to run does not matter any more.
CancelledRank ==
    CASE wpc = "announce" -> 17
      [] wpc = "begin" -> 16
      [] wpc = "check2" -> 15
      [] wpc = "call" -> 14
      [] wpc = "lease" -> 13
      [] wpc = "command" /\ phase = "return" -> 12
      [] wpc = "snapshot" -> 11
      [] wpc = "command" /\ phase # "return" -> 10
      [] wpc = "ended" -> IF outcome = "success" THEN 9 ELSE 6
      [] wpc = "check" -> 8
      [] wpc = "skip" -> 7
      [] wpc \in {"finish", "except"} -> 2
      [] wpc \in {"report", "release"} -> 1
      [] OTHER -> 0

\* A cancellation that has been accepted ends its run within 17 steps of the taskflow
\* thread, and stays in force until then.
CancelledRunDescends ==
    [][cancelled =>
         /\ CancelledRank \in 0 .. 17
         /\ Worker => CancelledRank' < CancelledRank
         /\ ~Worker => CancelledRank' = CancelledRank
         /\ cancelled' \/ active' = NoApp]_vars

\* What the other threads do leaves the taskflow thread where it is.
LEMMA OthersKeep == Next /\ ~Worker => UNCHANGED <<wpc, step, phase, outcome>> /\ (cancelled => cancelled')
  BY DEF Next, Submit, RequestCancel, Handler, Inject, PublishCanceling, Record, EndRecording,
         ConfirmRecovery

\* A run of any number of nodes ends after a bounded number of its own steps.
THEOREM RunIsBounded == Spec => RunDescends
<1>1. ASSUME ExecutionInv, Worker, wpc # "idle"
      PROVE  \/ step' = step /\ Rank' < Rank
             \/ step' = step + 1 /\ Rank' < Rank + 9
  <2>1. CASE Reject \/ StartExecution \/ PublishStarted
    <3>1. /\ step' = step
          /\ \/ wpc = "start" /\ wpc' \in {"idle", "announce", "except"}
             \/ wpc = "announce" /\ wpc' \in {"check", "except"}
      BY <2>1 DEF Reject, StartExecution, PublishStarted
    <3>. QED BY <3>1 DEF Rank
  <2>2. CASE Check \/ Skip \/ Begin \/ CheckAgain
    BY <2>2 DEF Check, Skip, Begin, CheckAgain, Rank
  <2>3. CASE RefuseCommand \/ PassChecks \/ SkipReturn \/ StartCommand
    BY <1>1, <2>3 DEF RefuseCommand, PassChecks, SkipReturn, StartCommand, Start, ExecutionInv,
                      OneCommand, Rank
  <2>4. CASE StartSnapshot \/ FailSnapshot
    BY <1>1, <2>4 DEF StartSnapshot, FailSnapshot, Start, ExecutionInv, OneCommand, Rank
  <2>5. CASE EndCommand \/ TimeOut \/ EndInterrupted \/ RaiseInterrupted
    BY <2>5 DEF EndCommand, TimeOut, EndInterrupted, RaiseInterrupted, Rank
  <2>6. CASE PublishNode
    <3>1. wpc = "ended" /\ wpc' \in {"check", "finish", "except"} /\ step' \in {step, step + 1}
          /\ (step' = step => wpc' \in {"finish", "except"})
      BY <1>1, <2>6 DEF PublishNode, ExecutionInv, TypeOK
    <3>. QED BY <3>1 DEF Rank
  <2>7. CASE PublishError \/ FinishFailed \/ FinishExecution \/ PublishFinished
    BY <2>7 DEF PublishError, FinishFailed, FinishExecution, PublishFinished, Rank
  <2>. QED BY <1>1, <2>1, <2>2, <2>3, <2>4, <2>5, <2>6, <2>7 DEF Worker, Take
<1>2. ExecutionInv => step \in 0 .. Steps /\ Rank \in 0 .. 15
  <2>1. ASSUME ExecutionInv PROVE step \in 0 .. Steps /\ wpc \in WorkerPCs
    BY <2>1 DEF ExecutionInv, TypeOK
  <2>2. wpc \in WorkerPCs => Rank \in 0 .. 15
    BY DEF Rank
  <2>. QED BY <2>1, <2>2
<1>3. (ExecutionInv => step \in 0 .. Steps /\ Rank \in 0 .. 15)'
  BY <1>2, PTL
<1>4. ASSUME ExecutionInv, ExecutionInv', Worker, wpc # "idle"
      PROVE  Remaining' < Remaining
  BY <1>1, <1>2, <1>3, <1>4 DEF Remaining
<1>5. ASSUME Next, ~Worker
      PROVE  Remaining' = Remaining
  BY <1>5, OthersKeep DEF Remaining, Rank
<1>6. ExecutionInv => Remaining \in Nat
  BY <1>2 DEF Remaining
<1>7. ExecutionInv /\ ExecutionInv' /\ [Next]_vars =>
          [/\ Remaining \in Nat
           /\ Worker /\ wpc # "idle" => Remaining' < Remaining
           /\ ~Worker => Remaining' = Remaining]_vars
  BY <1>4, <1>5, <1>6
<1>. QED BY <1>7, ExecutionInvariant, PTL DEF Spec, RunDescends

\* A cancelled run ends soon, however long it would have gone on.
THEOREM CancelledRunIsShort == Spec => CancelledRunDescends
<1>1. ASSUME ExecutionInv, cancelled
      PROVE  wpc \in RegisteredPCs /\ CancelledRank \in 0 .. 17
  BY <1>1 DEF ExecutionInv, TypeOK, Actors, CancelledRank
<1>2. ASSUME ExecutionInv, cancelled, Worker
      PROVE  CancelledRank' < CancelledRank
  <2>1. CASE PublishStarted \/ Skip \/ Begin
    BY <2>1 DEF PublishStarted, Skip, Begin, CancelledRank
  <2>2. CASE Check
    BY <1>2, <2>2 DEF Check, CancelledRank
  <2>3. CASE CheckAgain
    BY <1>2, <2>3 DEF CheckAgain, CancelledRank
  <2>4. CASE RefuseCommand \/ PassChecks \/ SkipReturn \/ StartCommand
    <3>1. \/ wpc = "call" /\ wpc' = "ended" /\ outcome' # "success"
          \/ wpc = "call" /\ wpc' \in {"lease", "snapshot"}
          \/ wpc = "lease" /\ wpc' = "command"
      BY <2>4 DEF RefuseCommand, PassChecks, SkipReturn, StartCommand, Start
    <3>. QED BY <3>1 DEF CancelledRank
  <2>5. CASE StartSnapshot \/ FailSnapshot
    <3>1. /\ wpc = "snapshot" /\ phase = "snapshot"
          /\ \/ wpc' = "command" /\ phase' = "snapshot"
             \/ wpc' = "ended" /\ outcome' # "success"
      BY <1>2, <2>5 DEF StartSnapshot, FailSnapshot, Start, ExecutionInv, OneCommand
    <3>. QED BY <3>1 DEF CancelledRank
  <2>6. CASE EndCommand \/ TimeOut \/ EndInterrupted \/ RaiseInterrupted
    BY <2>6 DEF EndCommand, TimeOut, EndInterrupted, RaiseInterrupted, CancelledRank
  <2>7. CASE PublishNode
    <3>1. /\ wpc = "ended" /\ wpc' \in {"check", "finish", "except"}
          /\ wpc' = "check" => outcome = "success"
      BY <2>7 DEF PublishNode
    <3>. QED BY <3>1 DEF CancelledRank
  <2>8. CASE PublishError \/ FinishFailed \/ FinishExecution
    BY <2>8 DEF PublishError, FinishFailed, FinishExecution, CancelledRank
  <2>. QED BY <1>1, <1>2, <2>1, <2>2, <2>3, <2>4, <2>5, <2>6, <2>7, <2>8
           DEF Worker, Take, Reject, StartExecution, PublishFinished
<1>3. ASSUME ExecutionInv, cancelled, Worker
      PROVE  cancelled' \/ active' = NoApp
  <2>0. ~StartExecution
    BY <1>1, <1>3 DEF StartExecution
  <2>1. CASE FinishFailed \/ FinishExecution
    BY <2>1 DEF FinishFailed, FinishExecution
  <2>2. CASE UNCHANGED cancelled
    BY <1>3, <2>2
  <2>. QED
    BY <1>3, <2>0, <2>1, <2>2
       DEF Worker, Take, Reject, PublishStarted, Check, Skip, Begin, CheckAgain, RefuseCommand,
           PassChecks, SkipReturn, StartCommand, StartSnapshot, Start, FailSnapshot, EndCommand,
           TimeOut, EndInterrupted, RaiseInterrupted, PublishNode, PublishError, PublishFinished
<1>4. ASSUME Next, ~Worker, cancelled
      PROVE  CancelledRank' = CancelledRank /\ cancelled'
  BY <1>4, OthersKeep DEF CancelledRank
<1>5. ExecutionInv /\ [Next]_vars =>
          [cancelled =>
             /\ CancelledRank \in 0 .. 17
             /\ Worker => CancelledRank' < CancelledRank
             /\ ~Worker => CancelledRank' = CancelledRank
             /\ cancelled' \/ active' = NoApp]_vars
  BY <1>1, <1>2, <1>3, <1>4
<1>. QED BY <1>5, ExecutionInvariant, PTL DEF Spec, CancelledRunDescends
=============================================================================
