-------------------------- MODULE TaskflowScheduler --------------------------
(***************************************************************************)
(* What parse_taskflow_yaml accepts (validate_definition in                *)
(* taskflow/parser.py) and how TaskflowScheduler.run walks it              *)
(* (taskflow/scheduler.py): nodes, timers, loops over a chain of children,  *)
(* output contracts, cancellation checks and the step budget.              *)
(*                                                                         *)
(* The definition is picked in Init among all that validation accepts.     *)
(* validate_definition admits only success transitions and one per node,   *)
(* so transitions are a function; a child list is a set, since validation  *)
(* and scheduler both take its order from the transitions.                 *)
(***************************************************************************)
EXTENDS Naturals, Sequences, FiniteSets

CONSTANTS
    Nodes,      \* node ids
    Start,      \* start_node
    None,
    Iterations  \* iteration_max of a loop

ASSUME SchedulerAssumption ==
    /\ IsFiniteSet(Nodes) /\ Start \in Nodes /\ None \notin Nodes
    /\ Iterations \in Nat \ {0}

VARIABLES
    \* the definition
    kind,     \* node_type; an assign node is run like a worker node
    next,     \* target of the success transition
    parent,   \* the loop a node is a child of
    \* the scheduler
    pc,
    current,    \* current_node_id
    child,      \* the child being run, inside a loop
    iteration,  \* completed_iterations of the loop
    result,     \* outcome of the node being run
    visited,
    stepIndex,  \* step_index
    events,     \* ScheduledNodeEvents: node and outcome
    status,     \* last NodeExecutionEvent published for a node
    written,    \* status last written to the variable store for a node; nodes with the
                \* same output_var write to one entry
    ended,      \* outcome of the schedule, or what was raised
    \* its environment
    cancelled,  \* cancel_checker returns a cancellation
    late        \* history: nodes begun since

definition == <<kind, next, parent>>
position   == <<current, child, iteration>>
reports    == <<events, status, written>>
vars == <<definition, pc, position, result, visited, stepIndex, reports, ended, cancelled, late>>

----------------------------------------------------------------------------
(* validate_definition                                                     *)

Kinds == {"worker", "timer", "loop", "end"}
Loops(k) == {n \in Nodes : k[n] = "loop"}

Children(p, l) == {n \in Nodes : p[n] = l}

\* Children exist, are worker or timer nodes and of one loop each; no loop is empty.
ChildrenAreSteps(k, p) ==
    /\ \A n \in Nodes : p[n] # None => p[n] \in Loops(k) /\ k[n] \in {"worker", "timer"}
    /\ \A l \in Loops(k) : Children(p, l) # {}

\* No transition out of an end, into the start or across the border of a loop.
TransitionsStay(k, p, t) ==
    \A n \in Nodes : t[n] # None =>
        k[n] # "end" /\ t[n] # Start /\ p[n] = p[t[n]]

Terminals(k, p, t) ==
    {n \in Nodes : p[n] = None /\ (k[n] = "end" \/ t[n] = None)}

\* The nodes met from n on: those in every set of nodes that holds n and what follows.
Closed(t, S) == \A i \in S : t[i] # None => t[i] \in S

Met(t, n) ==
    {m \in Nodes : \A S \in SUBSET Nodes : n \in S /\ Closed(t, S) => m \in S}

Entries(p, t, l) ==
    {n \in Children(p, l) : \A m \in Children(p, l) : t[m] # n}

\* validate_loop_body_transitions: one entry, one exit, no branch, all connected.
BodyIsChain(p, t, l) ==
    LET body == Children(p, l) IN
    /\ Cardinality({n \in body : t[n] # None}) = Cardinality(body) - 1
    /\ Cardinality(Entries(p, t, l)) = 1
    /\ \A n \in Entries(p, t, l) : Met(t, n) = body

Accepted(k, p, t) ==
    /\ ChildrenAreSteps(k, p)
    /\ TransitionsStay(k, p, t)
    /\ Cardinality(Terminals(k, p, t)) = 1
    /\ \A l \in Loops(k) : BodyIsChain(p, t, l)

----------------------------------------------------------------------------
(* TaskflowScheduler.run                                                   *)

\* Mutant: the budget forgets the children of the loops.
MaxStepsFlat == Cardinality(Nodes) + 1

\* calculate_default_max_steps
MaxSteps ==
    Cardinality(Nodes) + Iterations * Cardinality({n \in Nodes : parent[n] # None}) + 1

\* Mutant: the children in the order of their declaration.
EntryDeclared == CHOOSE n \in Nodes : n \in Children(parent, current)

\* ordered_loop_children: the entry, and then along the transitions.
Entry == CHOOSE n \in Nodes : n \in Entries(parent, next, current)

At == IF child = None THEN current ELSE child

Init ==
    /\ kind \in [Nodes -> Kinds]
    /\ parent \in [Nodes -> {None} \union Loops(kind)]
    /\ ChildrenAreSteps(kind, parent)
    /\ next \in [Nodes -> Nodes \union {None}]
    /\ Accepted(kind, parent, next)
    /\ pc = "step" /\ current = Start /\ child = None /\ iteration = 0
    /\ result = "success" /\ visited = {} /\ stepIndex = 0
    /\ events = <<>>
    /\ status = [n \in Nodes |-> "none"] /\ written = [n \in Nodes |-> "none"]
    /\ ended = "no" /\ cancelled = FALSE /\ late = 0

\* The cancel callback's thread flags the execution.
Cancel ==
    /\ ~cancelled /\ ended = "no"
    /\ cancelled' = TRUE
    /\ UNCHANGED <<definition, pc, position, result, visited, stepIndex, reports, ended, late>>

End(outcome) == pc' = "done" /\ ended' = outcome

OutOfSteps == stepIndex >= MaxSteps

\* The head of the while loop: budget, revisit, cancellation, then the node.
CheckStep ==
    /\ pc = "step"
    /\ IF OutOfSteps \/ current \in visited
       THEN /\ End(IF OutOfSteps THEN "steps" ELSE "cycle")
            /\ UNCHANGED visited
       ELSE /\ visited' = visited \union {current}
            /\ pc' = IF cancelled THEN "refuse"
                     ELSE IF kind[current] = "loop" THEN "loop" ELSE "begin"
            /\ UNCHANGED ended
    /\ UNCHANGED <<definition, position, result, stepIndex, reports, cancelled, late>>

\* execute_node_once: take a step index, announce the node.
Begin ==
    /\ pc = "begin"
    /\ IF OutOfSteps
       THEN End("steps") /\ UNCHANGED <<stepIndex, status, late>>
       ELSE /\ stepIndex' = stepIndex + 1
            /\ status' = [status EXCEPT ![At] = "running"]
            /\ late' = IF cancelled THEN late + 1 ELSE late
            /\ pc' = kind[At]
            /\ UNCHANGED ended
    /\ UNCHANGED <<definition, position, result, visited, events, written, cancelled>>

\* execute_regular_node: an end node has nothing to do ...
RunEnd ==
    /\ pc = "end"
    /\ result' = "success"
    /\ pc' = "record"
    /\ UNCHANGED <<definition, position, visited, stepIndex, reports, ended, cancelled, late>>

\* Mutant: a timer sleeps through a cancellation.
RunTimerSleeps ==
    /\ pc = "timer"
    /\ result' = "success"
    /\ pc' = "record"
    /\ UNCHANGED <<definition, position, visited, stepIndex, reports, ended, cancelled, late>>

\* Mutant: a timer ends only by a cancellation.
RunTimerWaits ==
    /\ pc = "timer" /\ cancelled
    /\ result' = "cancelled"
    /\ pc' = "record"
    /\ UNCHANGED <<definition, position, visited, stepIndex, reports, ended, cancelled, late>>

\* ... a timer polls for a cancellation until it expires ...
RunTimer ==
    /\ pc = "timer"
    /\ result' = IF cancelled THEN "cancelled" ELSE "success"
    /\ pc' = "record"
    /\ UNCHANGED <<definition, position, visited, stepIndex, reports, ended, cancelled, late>>

\* ... and the other nodes check once more before the runner is called.
CheckAgain ==
    /\ pc = "worker"
    /\ IF cancelled
       THEN result' = "cancelled" /\ pc' = "record"
       ELSE pc' = "runner" /\ UNCHANGED result
    /\ UNCHANGED <<definition, position, visited, stepIndex, reports, ended, cancelled, late>>

\* A cancelled command reports itself as cancelled (error_detail_to_outcome).
RunNode ==
    /\ pc = "runner"
    /\ result' \in {"success", "error", "cancelled"}
    /\ pc' = "record"
    /\ UNCHANGED <<definition, position, visited, stepIndex, reports, ended, cancelled, late>>

Report(outcome) ==
    /\ written' = [written EXCEPT ![At] = outcome]
    /\ status' = [status EXCEPT ![At] = outcome]
    /\ events' = Append(events, [node |-> At, outcome |-> outcome])

\* validate_output_contract: only a worker node has a contract, and its success may break it.
Checked ==
    IF kind[At] = "worker" /\ result = "success" THEN {"success", "error"} ELSE {result}

\* Mutant: a broken contract is reported, the entry keeps the success.
RecordUnwritten ==
    /\ pc = "record"
    /\ result' \in Checked
    /\ written' = [written EXCEPT ![At] = result]
    /\ status' = [status EXCEPT ![At] = result']
    /\ events' = Append(events, [node |-> At, outcome |-> result'])
    /\ pc' = IF child = None THEN "after" ELSE "afterChild"
    /\ UNCHANGED <<definition, position, visited, stepIndex, ended, cancelled, late>>

\* record_node_result: a success of a worker node that breaks its output contract is
\* written as one, then overwritten as an error, before it is reported.
Record ==
    /\ pc = "record"
    /\ result' \in Checked
    /\ Report(result')
    /\ pc' = IF child = None THEN "after" ELSE "afterChild"
    /\ UNCHANGED <<definition, position, visited, stepIndex, ended, cancelled, late>>

\* execute_cancelled_node: announced, written and reported without being run.
Refuse ==
    /\ pc = "refuse"
    /\ IF OutOfSteps
       THEN End("steps") /\ UNCHANGED <<stepIndex, reports, result, child>>
       ELSE /\ stepIndex' = stepIndex + 1
            /\ Report("cancelled")
            /\ result' = "cancelled"
            /\ IF child = None
               THEN End("cancelled") /\ UNCHANGED child
               ELSE pc' = "loopEnd" /\ child' = None /\ UNCHANGED ended
    /\ UNCHANGED <<definition, current, iteration, visited, cancelled, late>>

\* What run_command raises, the node runner does not catch.
RunnerRaises ==
    /\ pc = "runner"
    /\ End("raised")
    /\ UNCHANGED <<definition, position, result, visited, stepIndex, reports, cancelled, late>>

\* Nor is what the node event handler raises, before it has published the event or after: of
\* the event that a node is running ...
AnnounceRaises ==
    /\ pc \in {"begin", "refuse", "loop"}
    /\ status' \in {status, [status EXCEPT ![At] = "running"]}
    /\ stepIndex' = IF pc = "loop" THEN stepIndex ELSE stepIndex + 1
    /\ pc # "loop" => ~OutOfSteps
    /\ late' = IF cancelled /\ pc # "refuse" THEN late + 1 ELSE late
    /\ End("raised")
    /\ UNCHANGED <<definition, position, result, visited, events, written, cancelled>>

\* ... and of the final event, when the result has been written.
ReportRaises ==
    /\ pc \in {"record", "refuse", "loopEnd"}
    /\ result' \in CASE pc = "refuse" -> {"cancelled"}
                    [] pc = "record" -> Checked
                    [] OTHER -> {result}
    /\ written' = [written EXCEPT ![At] = result']
    /\ status' \in {[status EXCEPT ![At] = o] : o \in {"running", result'}}
    /\ stepIndex' = IF pc = "refuse" THEN stepIndex + 1 ELSE stepIndex
    /\ pc = "refuse" => ~OutOfSteps
    /\ End("raised")
    /\ UNCHANGED <<definition, position, visited, events, cancelled, late>>

\* After a node: end the schedule, or follow the transition.
AfterNode ==
    /\ pc = "after"
    /\ IF result # "success" \/ next[current] = None
       THEN End(result) /\ UNCHANGED current
       ELSE current' = next[current] /\ pc' = "step" /\ UNCHANGED ended
    /\ UNCHANGED <<definition, child, iteration, result, visited, stepIndex, reports,
                   cancelled, late>>

----------------------------------------------------------------------------
(* execute_loop_node                                                       *)

BeginLoop ==
    /\ pc = "loop"
    /\ status' = [status EXCEPT ![current] = "running"]
    /\ late' = IF cancelled THEN late + 1 ELSE late
    /\ iteration' = 0
    /\ pc' = "iteration"
    /\ UNCHANGED <<definition, current, child, result, visited, stepIndex, events, written,
                   ended, cancelled>>

\* Mutant: one iteration too many.
IterateOnceMore ==
    /\ pc = "iteration"
    /\ IF iteration > Iterations \/ cancelled
       THEN /\ result' = IF iteration > Iterations THEN "success" ELSE "cancelled"
            /\ pc' = "loopEnd"
            /\ UNCHANGED child
       ELSE /\ child' = Entry
            /\ pc' = "child"
            /\ UNCHANGED result
    /\ UNCHANGED <<definition, current, iteration, visited, stepIndex, reports, ended,
                   cancelled, late>>

\* The head of an iteration.
Iterate ==
    /\ pc = "iteration"
    /\ IF iteration = Iterations \/ cancelled
       THEN /\ result' = IF iteration = Iterations THEN "success" ELSE "cancelled"
            /\ pc' = "loopEnd"
            /\ UNCHANGED child
       ELSE /\ child' = Entry
            /\ pc' = "child"
            /\ UNCHANGED result
    /\ UNCHANGED <<definition, current, iteration, visited, stepIndex, reports, ended,
                   cancelled, late>>

CheckChild ==
    /\ pc = "child"
    /\ pc' = IF cancelled THEN "refuse" ELSE "begin"
    /\ UNCHANGED <<definition, position, result, visited, stepIndex, reports, ended,
                   cancelled, late>>

AfterChild ==
    /\ pc = "afterChild"
    /\ IF result # "success"
       THEN pc' = "loopEnd" /\ child' = None /\ UNCHANGED iteration
       ELSE /\ child' = next[child]
            /\ IF next[child] = None
               THEN pc' = "iteration" /\ iteration' = iteration + 1
               ELSE pc' = "child" /\ UNCHANGED iteration
    /\ UNCHANGED <<definition, current, result, visited, stepIndex, reports, ended,
                   cancelled, late>>

\* The loop is written and reported; only then it takes its step index.
EndLoop ==
    /\ pc = "loopEnd"
    /\ written' = [written EXCEPT ![current] = result]
    /\ status' = [status EXCEPT ![current] = result]
    /\ IF OutOfSteps
       THEN End("steps") /\ UNCHANGED <<stepIndex, events>>
       ELSE /\ stepIndex' = stepIndex + 1
            /\ events' = Append(events, [node |-> current, outcome |-> result])
            /\ pc' = "after"
            /\ UNCHANGED ended
    /\ UNCHANGED <<definition, position, result, visited, cancelled, late>>

----------------------------------------------------------------------------
Scheduler ==
    \/ CheckStep \/ Begin \/ RunEnd \/ RunTimer \/ CheckAgain \/ RunNode \/ Record
    \/ Refuse \/ AfterNode \/ BeginLoop \/ Iterate \/ CheckChild \/ AfterChild \/ EndLoop
    \/ RunnerRaises \/ AnnounceRaises \/ ReportRaises

Next == Scheduler \/ Cancel

\* The taskflow thread runs on; a node ends (a timer expires, a command has a deadline).
Spec == Init /\ [][Next]_vars /\ WF_vars(Scheduler)

----------------------------------------------------------------------------
(* Properties.                                                             *)

Results == {"success", "error", "cancelled"}

TypeOK ==
    /\ kind \in [Nodes -> Kinds]
    /\ next \in [Nodes -> Nodes \union {None}] /\ parent \in [Nodes -> Nodes \union {None}]
    /\ pc \in {"step", "begin", "runner", "record", "refuse", "after", "iteration", "child",
               "afterChild", "loopEnd", "done"} \union Kinds
    /\ current \in Nodes /\ child \in Nodes \union {None}
    /\ iteration \in 0 .. Iterations /\ result \in Results
    /\ visited \subseteq Nodes /\ stepIndex \in 0 .. MaxSteps
    /\ events \in Seq([node : Nodes, outcome : Results])
    /\ status \in [Nodes -> Results \union {"none", "running"}]
    /\ written \in [Nodes -> Results \union {"none"}]
    /\ ended \in Results \union {"no", "cycle", "steps", "raised"}
    /\ cancelled \in BOOLEAN /\ late \in Nat

\* The default budget is never what ends the schedule of an accepted definition.
BudgetSuffices == ended # "steps"

\* The nodes along the transitions from n on, at most as many as there are.
Walk(t, n) ==
    LET w[i \in 0 .. Cardinality(Nodes)] ==
            IF i = 0 THEN n ELSE IF w[i - 1] = None THEN None ELSE t[w[i - 1]]
    IN  w

\* The order a reader of the YAML expects: the nodes along the transitions, a loop
\* after Iterations rounds of its chain.
PathOf(n) == [i \in 1 .. Cardinality(Met(next, n)) |-> Walk(next, n)[i - 1]]

Rounds(l) ==
    LET chain == PathOf(CHOOSE n \in Nodes : n \in Entries(parent, next, l))
    IN  [i \in 1 .. Iterations * Len(chain) |-> chain[((i - 1) % Len(chain)) + 1]]

Part(n) == (IF kind[n] = "loop" THEN Rounds(n) ELSE <<>>) \o <<n>>

\* The parts of the first i nodes on the path.
UpTo ==
    LET path == PathOf(Start)
        upTo[i \in 0 .. Len(path)] == IF i = 0 THEN <<>> ELSE upTo[i - 1] \o Part(path[i])
    IN  upTo

Expected == UpTo[Cardinality(Met(next, Start))]

\* The nodes that succeeded are a prefix of the expected order; the node that failed or
\* was cancelled is the next in it, or the loop around that one, and only the loop around
\* it is reported after it; a schedule that ends in success has run all of it.
Follows(order, n) ==
    /\ n <= Len(order)
    /\ \A i \in 1 .. n : events[i] = [node |-> order[i], outcome |-> "success"]
    /\ Len(events) > n =>
           /\ n < Len(order) /\ events[n + 1].outcome # "success"
           /\ events[n + 1].node \in {order[n + 1], parent[order[n + 1]]}
    /\ Len(events) > n + 1 =>
           /\ Len(events) = n + 2
           /\ events[n + 2] = [node |-> parent[events[n + 1].node],
                               outcome |-> events[n + 1].outcome]

RunsAsWritten ==
    LET order == Expected
    IN  \E n \in 0 .. Len(events) :
            /\ Follows(order, n)
            /\ ended = "success" => n = Len(order) /\ Len(events) = n

\* When the schedule has ended, in whatever way, the client was last told of every node what
\* was last written for it.  Only an exception leaves nodes reported as running: the one it
\* came from, and the loop around it; no report is ahead of what is written then, either.
ReportsSettled ==
    pc = "done" =>
        \A n \in Nodes :
            status[n] # written[n] =>
                ended = "raised" /\ status[n] = "running" /\ n \in {At, current}

\* After the cancellation at most one more node is begun (the check and the beginning are
\* apart), and then the schedule ends as cancelled, unless that node was the end node or
\* something raised.
CancelledSoon ==
    /\ late <= 1
    /\ late = 1 /\ ended # "no" => ended \in {"cancelled", "raised"} \/ kind[current] = "end"

\* Every schedule ends, those of the definitions with a cycle too.
Terminates == <>(ended # "no")

\* taskflow/models.py:175 calls what parse_taskflow_yaml returns a DAG, which the scheduler
\* walks without meeting a node twice.
ParsedIsDag == ended # "cycle"
=============================================================================
