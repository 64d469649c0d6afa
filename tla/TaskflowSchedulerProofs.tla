----------------------- MODULE TaskflowSchedulerProofs -----------------------
(***************************************************************************)
(* Proofs about TaskflowScheduler, for every accepted definition over any  *)
(* finite set of nodes and any number of iterations: the default budget    *)
(* suffices, the reports are settled at the end, a cancellation ends the   *)
(* schedule within one more node, and the nodes run in the order that the  *)
(* transitions and the loops of the definition say.                        *)
(***************************************************************************)
EXTENDS TaskflowScheduler, Integers, FiniteSetTheorems, SequenceTheorems, WellFoundedInduction,
        TLAPS

Running == {"worker", "timer", "end", "runner", "record"}
Body == Children(parent, current)

\* Where the scheduler is, inside a loop and outside.
Placed ==
    /\ ChildrenAreSteps(kind, parent) /\ Accepted(kind, parent, next)
    /\ child # None =>
          /\ kind[current] = "loop" /\ child \in Body /\ iteration < Iterations
          /\ pc \in {"child", "begin", "refuse", "afterChild", "done"} \union Running
    /\ pc \in {"child", "afterChild"} => child # None
    /\ pc \in {"loop", "iteration", "loopEnd"} => child = None /\ kind[current] = "loop"
    /\ pc \in {"step", "after"} => child = None
    /\ pc = "begin" /\ child = None => kind[current] # "loop"
    /\ pc = "end" => child = None /\ kind[current] = "end"
    /\ pc \notin {"step", "done"} => current \in visited
    /\ ended = "no" <=> pc # "done"

\* The steps the nodes of V take at most, with the children of the loops among them.
ChildrenOf(V) == {n \in Nodes : parent[n] \in V}
Spent(V) == Cardinality(V) + Iterations * Cardinality(ChildrenOf(V))

\* The steps before the current loop, and those of its finished iterations.
Before == Spent(visited \ {current})
Done   == Before + iteration * Cardinality(Body)

\* R has run in this iteration: a stretch of the chain from its entry to before child.
Ran(R) ==
    /\ child \notin R /\ Entry \in R \union {child}
    /\ \A r \in R : next[r] \in R \union {child}

Budgeted ==
    /\ pc \in {"step", "after"} => stepIndex <= Spent(visited)
    /\ child = None /\ pc \in {"begin", "refuse", "loop"} => stepIndex <= Before
    /\ child = None /\ pc \in Running => stepIndex <= Spent(visited)
    /\ pc = "iteration" => stepIndex <= Done
    /\ pc = "loopEnd" => stepIndex <= Before + Iterations * Cardinality(Body)
    /\ child # None /\ pc \in {"child", "begin", "refuse"} =>
          \E R \in SUBSET Body : Ran(R) /\ stepIndex <= Done + Cardinality(R)
    /\ child # None /\ pc \in Running \union {"afterChild"} =>
          \E R \in SUBSET Body : Ran(R) /\ stepIndex <= Done + Cardinality(R) + 1

SchedulerInv == TypeOK /\ Placed /\ Budgeted

----------------------------------------------------------------------------
(* Sizes                                                                   *)

USE SchedulerAssumption DEF definition, position, reports

LEMMA Sizes ==
    ASSUME NEW S \in SUBSET Nodes
    PROVE  IsFiniteSet(S) /\ Cardinality(S) \in Nat /\ Cardinality(S) <= Cardinality(Nodes)
  BY FS_Subset, FS_CardinalityType

LEMMA MaxStepsNat == MaxSteps \in Nat
  BY Sizes DEF MaxSteps

\* Times a number keeps an order and adds up.
LEMMA Times ==
    ASSUME NEW a \in Nat, NEW b \in Nat, NEW k \in Nat
    PROVE  /\ k * a \in Nat
           /\ k * (a + b) = k * a + k * b
           /\ (k + 1) * a = k * a + a
           /\ a <= b => k * a <= k * b /\ a * k <= b * k
  OBVIOUS

LEMMA SpentType ==
    ASSUME NEW V \in SUBSET Nodes
    PROVE  Spent(V) \in Nat /\ ChildrenOf(V) \in SUBSET Nodes /\ Cardinality(ChildrenOf(V)) \in Nat
<1>1. ChildrenOf(V) \in SUBSET Nodes
  BY DEF ChildrenOf
<1>. QED BY <1>1, Sizes, Times DEF Spent

\* A node more costs a step, and the children of a loop one each per iteration.
LEMMA SpentVisit ==
    ASSUME NEW V \in SUBSET Nodes, NEW c \in V
    PROVE  Spent(V) = Spent(V \ {c}) + 1 + Iterations * Cardinality(Children(parent, c))
<1> DEFINE W == V \ {c}
           B == Children(parent, c)
<1>1. W \in SUBSET Nodes /\ B \in SUBSET Nodes
  BY DEF Children
<1>2. Cardinality(V) = Cardinality(W) + 1
  BY Sizes, FS_RemoveElement
<1>3. ChildrenOf(V) = ChildrenOf(W) \union B /\ ChildrenOf(W) \intersect B = {}
  BY DEF ChildrenOf, Children
<1>4. IsFiniteSet(ChildrenOf(W)) /\ IsFiniteSet(B)
  BY <1>1, Sizes, SpentType
<1>5. Cardinality(ChildrenOf(V)) = Cardinality(ChildrenOf(W)) + Cardinality(B)
  <2> HIDE DEF W, B
  <2>1. Cardinality(ChildrenOf(W) \union B)
          = Cardinality(ChildrenOf(W)) + Cardinality(B) - Cardinality(ChildrenOf(W) \intersect B)
    BY <1>4, FS_Union
  <2>. QED BY <1>1, <1>3, <2>1, FS_EmptySet, Sizes, SpentType
<1>6. Cardinality(W) \in Nat /\ Cardinality(B) \in Nat /\ Cardinality(ChildrenOf(W)) \in Nat
  BY <1>1, Sizes, SpentType
<1>7. Iterations * Cardinality(ChildrenOf(V))
        = Iterations * Cardinality(ChildrenOf(W)) + Iterations * Cardinality(B)
  BY <1>5, <1>6, Times
<1>8. Iterations * Cardinality(ChildrenOf(W)) \in Nat /\ Iterations * Cardinality(B) \in Nat
  BY <1>6, Times
<1> HIDE DEF W, B
<1>9. Spent(V) = Spent(W) + 1 + Iterations * Cardinality(B)
  BY <1>2, <1>6, <1>7, <1>8 DEF Spent
<1>. QED BY <1>9 DEF W, B

\* No set of nodes costs the whole budget.
LEMMA SpentMax ==
    ASSUME TypeOK, NEW V \in SUBSET Nodes
    PROVE  Spent(V) < MaxSteps
<1> DEFINE All == {n \in Nodes : parent[n] # None}
<1>1. ChildrenOf(V) \subseteq All /\ All \in SUBSET Nodes
  BY DEF ChildrenOf
<1>2. Cardinality(ChildrenOf(V)) <= Cardinality(All)
  BY <1>1, Sizes, FS_Subset
<1>3. /\ Cardinality(All) \in Nat /\ Cardinality(ChildrenOf(V)) \in Nat
      /\ Cardinality(V) \in Nat /\ Cardinality(V) <= Cardinality(Nodes)
      /\ Cardinality(Nodes) \in Nat
  BY <1>1, Sizes, SpentType
<1>4. /\ Iterations * Cardinality(ChildrenOf(V)) <= Iterations * Cardinality(All)
      /\ Iterations * Cardinality(ChildrenOf(V)) \in Nat /\ Iterations * Cardinality(All) \in Nat
  <2> HIDE DEF All
  <2>. QED BY <1>2, <1>3, Times
<1>5. MaxSteps = Cardinality(Nodes) + Iterations * Cardinality(All) + 1
  BY DEF MaxSteps
<1> HIDE DEF All
<1>. QED BY <1>3, <1>4, <1>5 DEF Spent

----------------------------------------------------------------------------
(* The chain of a loop                                                     *)

\* The entry is a child, and the chain has a last child.
LEMMA ChainEnds ==
    ASSUME TypeOK, Placed, kind[current] = "loop"
    PROVE  /\ Entry \in Entries(parent, next, current) /\ Entry \in Body
           /\ \E n \in Body : next[n] = None
           /\ Met(next, Entry) = Body
<1>1. BodyIsChain(parent, next, current) /\ current \in Nodes
  BY DEF Placed, Accepted, Loops, TypeOK
<1>2. Body \in SUBSET Nodes /\ Entries(parent, next, current) \in SUBSET Nodes
  BY DEF Body, Children, Entries
<1>3. Entries(parent, next, current) # {}
  BY <1>1, <1>2, Sizes, FS_EmptySet DEF BodyIsChain
<1>4. Entry \in Entries(parent, next, current)
  BY <1>2, <1>3 DEF Entry
<1>5. Entry \in Body /\ Met(next, Entry) = Body
  BY <1>1, <1>4 DEF BodyIsChain, Entries, Body
<1>6. ASSUME \A n \in Body : next[n] # None
      PROVE  FALSE
  <2>1. {n \in Body : next[n] # None} = Body
    BY <1>6
  <2>2. Cardinality({n \in Body : next[n] # None}) = Cardinality(Body) - 1
    BY <1>1 DEF BodyIsChain, Body
  <2>. QED BY <1>2, <2>1, <2>2, Sizes
<1>. QED BY <1>4, <1>5, <1>6

\* What follows a stretch of the chain from its entry is a child outside of it.
LEMMA ChainGoesOn ==
    ASSUME TypeOK, Placed, kind[current] = "loop",
           NEW R \in SUBSET Body, NEW c \in Body, Entry \in R \union {c},
           \A r \in R : next[r] \in R \union {c}, next[c] # None
    PROVE  next[c] \in Body /\ next[c] \notin R \union {c}
<1>1. R \union {c} \in SUBSET Nodes /\ c \in Nodes
  BY DEF Body, Children
<1>2. next[c] \in Body
  BY <1>1 DEF Placed, Accepted, TransitionsStay, Body, Children, TypeOK
<1>3. ASSUME next[c] \in R \union {c}
      PROVE  FALSE
  <2>1. Closed(next, R \union {c})
    BY <1>3 DEF Closed
  <2>2. Body \subseteq R \union {c}
    BY <1>1, <2>1, ChainEnds DEF Met
  <2>3. \A n \in R \union {c} : next[n] # None
    BY <1>1
  <2>. QED BY <2>2, <2>3, ChainEnds
<1>. QED BY <1>2, <1>3

\* A child with the stretch before it fits in what the loop may spend.
LEMMA Room ==
    ASSUME TypeOK, Placed, child # None,
           NEW R \in SUBSET Body, child \notin R
    PROVE  /\ Cardinality(R) \in Nat /\ Before \in Nat /\ Done \in Nat
           /\ Done + Cardinality(Body) <= Before + Iterations * Cardinality(Body)
           /\ Done + Cardinality(R) + 1 <= Done + Cardinality(Body)
           /\ Before + Iterations * Cardinality(Body) = Spent(visited) - 1 \/ current \notin visited
<1>1. child \in Body /\ iteration \in Nat /\ iteration + 1 <= Iterations /\ iteration + 1 \in Nat
  BY DEF Placed, TypeOK
<1>2. Body \in SUBSET Nodes /\ R \in SUBSET Nodes /\ visited \ {current} \in SUBSET Nodes
  BY DEF Body, Children, TypeOK
<1>3. Cardinality(R \union {child}) = Cardinality(R) + 1
  BY <1>2, Sizes, FS_AddElement
<1>4. Cardinality(R \union {child}) <= Cardinality(Body)
  BY <1>1, <1>2, Sizes, FS_Subset
<1>5. Cardinality(R) \in Nat /\ Cardinality(Body) \in Nat /\ Before \in Nat
  BY <1>2, Sizes, SpentType DEF Before
<1>6. /\ iteration * Cardinality(Body) \in Nat /\ Iterations * Cardinality(Body) \in Nat
      /\ iteration * Cardinality(Body) + Cardinality(Body) = (iteration + 1) * Cardinality(Body)
      /\ (iteration + 1) * Cardinality(Body) <= Iterations * Cardinality(Body)
  BY <1>1, <1>5, Times
<1>7. current \in visited =>
        Spent(visited) = Before + 1 + Iterations * Cardinality(Body)
  BY SpentVisit DEF Before, Body, TypeOK
<1>8. current \in visited => Before + Iterations * Cardinality(Body) = Spent(visited) - 1
  <2> DEFINE k == Iterations * Cardinality(Body)
  <2>1. k \in Nat
    BY <1>6
  <2> HIDE DEF k
  <2>. QED BY <1>5, <1>7, <2>1 DEF k
<1> DEFINE i == iteration * Cardinality(Body)
           j == (iteration + 1) * Cardinality(Body)
           k == Iterations * Cardinality(Body)
<1>9. i \in Nat /\ k \in Nat /\ i + Cardinality(Body) = j /\ j <= k /\ Done = Before + i
  BY <1>6 DEF Done
<1> HIDE DEF i, j
<1>10. Done \in Nat /\ Done + Cardinality(Body) <= Before + k
  <2> HIDE DEF k
  <2>. QED BY <1>5, <1>9
<1>. QED BY <1>3, <1>4, <1>5, <1>8, <1>10

----------------------------------------------------------------------------
(* The budget is never met                                                 *)

LEMMA NeverOut ==
    ASSUME SchedulerInv, pc \in {"step", "begin", "refuse", "loopEnd"}
    PROVE  ~OutOfSteps /\ stepIndex + 1 \in 0 .. MaxSteps
<1>1. /\ stepIndex \in Nat /\ MaxSteps \in Nat
      /\ visited \in SUBSET Nodes /\ visited \ {current} \in SUBSET Nodes
  BY MaxStepsNat DEF SchedulerInv, TypeOK
<1>2. Spent(visited) \in Nat /\ Spent(visited) < MaxSteps /\ Before \in Nat /\ Before < MaxSteps
  BY <1>1, SpentType, SpentMax DEF SchedulerInv, Before
<1>3. stepIndex < MaxSteps
  <2>1. CASE pc = "step"
    BY <1>1, <1>2, <2>1 DEF SchedulerInv, Budgeted
  <2>2. CASE pc \in {"begin", "refuse"} /\ child = None
    BY <1>1, <1>2, <2>2 DEF SchedulerInv, Budgeted
  <2>3. CASE pc = "loopEnd"
    <3> DEFINE k == Iterations * Cardinality(Body)
    <3>1. current \in visited /\ stepIndex <= Before + k
      BY <2>3 DEF SchedulerInv, Placed, Budgeted
    <3>2. k \in Nat
      BY Sizes, Times DEF Body, Children
    <3>3. Spent(visited) = Before + 1 + k
      BY <1>1, <3>1, SpentVisit DEF Before, Body
    <3> HIDE DEF k
    <3>. QED BY <1>1, <1>2, <3>1, <3>2, <3>3
  <2>4. CASE pc \in {"begin", "refuse"} /\ child # None
    <3>1. PICK R \in SUBSET Body : Ran(R) /\ stepIndex <= Done + Cardinality(R)
      BY <2>4 DEF SchedulerInv, Budgeted
    <3> DEFINE b == Cardinality(Body)
               k == Before + Iterations * Cardinality(Body)
    <3>2. b \in Nat
      BY Sizes DEF Body, Children
    <3>3. /\ Cardinality(R) \in Nat /\ Done \in Nat
          /\ Done + b <= k /\ Done + Cardinality(R) + 1 <= Done + b
          /\ k = Spent(visited) - 1
      BY <2>4, <3>1, Room DEF SchedulerInv, Placed, Ran
    <3> HIDE DEF b, k
    <3>. QED BY <1>1, <1>2, <3>1, <3>2, <3>3
  <2>. QED BY <2>1, <2>2, <2>3, <2>4
<1>. QED BY <1>1, <1>3 DEF OutOfSteps

\* What a step leaves alone of the definition and the position.
LEMMA SameDefinition ==
    ASSUME UNCHANGED definition
    PROVE  MaxSteps' = MaxSteps
  BY DEF MaxSteps

LEMMA SameLoop ==
    ASSUME UNCHANGED <<definition, current, visited>>
    PROVE  /\ Body' = Body /\ Entry' = Entry /\ Before' = Before
           /\ Spent(visited)' = Spent(visited)
  BY DEF Body, Entry, Before, Spent, ChildrenOf, Children, Entries

LEMMA SamePlace ==
    ASSUME UNCHANGED <<definition, position, visited>>
    PROVE  /\ Done' = Done
           /\ \A R : Ran(R)' <=> Ran(R)
<1>1. Body' = Body /\ Entry' = Entry /\ Before' = Before
  BY SameLoop
<1>. QED BY <1>1 DEF Done, Ran

----------------------------------------------------------------------------
(* Every step keeps the invariant                                          *)

LEMMA InitInv == Init => SchedulerInv
<1> SUFFICES ASSUME Init PROVE SchedulerInv
  OBVIOUS
<1>1. TypeOK
  <2>1. Loops(kind) \in SUBSET Nodes /\ 0 \in 0 .. MaxSteps
    BY MaxStepsNat DEF Loops
  <2>2. parent \in [Nodes -> Nodes \union {None}]
    BY <2>1 DEF Init
  <2>3. 0 \in 0 .. Iterations /\ events \in Seq([node : Nodes, outcome : Results])
    BY DEF Init
  <2>. QED BY <2>1, <2>2, <2>3 DEF Init, TypeOK, Results
<1>2. Placed
  BY DEF Init, Placed
<1>3. Budgeted
  <2>1. Spent(visited) \in Nat
    BY SpentType DEF Init
  <2>. QED BY <2>1 DEF Init, Budgeted, Running
<1>. QED BY <1>1, <1>2, <1>3 DEF SchedulerInv

LEMMA CancelStep == SchedulerInv /\ Cancel => SchedulerInv'
<1> SUFFICES ASSUME SchedulerInv, Cancel PROVE SchedulerInv'
  OBVIOUS
<1>1. TypeOK'
  BY SameDefinition DEF SchedulerInv, TypeOK, Cancel
<1>2. Placed'
  BY SameLoop DEF SchedulerInv, Placed, Cancel
<1>3. Budgeted'
  BY SameLoop, SamePlace DEF SchedulerInv, Budgeted, Cancel
<1>. QED BY <1>1, <1>2, <1>3 DEF SchedulerInv

LEMMA CheckStepStep == SchedulerInv /\ CheckStep => SchedulerInv'
<1> SUFFICES ASSUME SchedulerInv, CheckStep PROVE SchedulerInv'
  OBVIOUS
<1>1. TypeOK'
  BY SameDefinition DEF SchedulerInv, TypeOK, CheckStep, End
<1>2. Placed'
  BY DEF SchedulerInv, Placed, CheckStep, End, Body, Running, TypeOK
<1>3. Budgeted'
  <2>1. CASE pc' = "done"
    BY <2>1 DEF Budgeted, Running
  <2>2. CASE pc' # "done"
    <3>1. visited' \ {current'} = visited /\ child' = None /\ pc' \in {"refuse", "loop", "begin"}
      BY <2>2 DEF CheckStep, End, SchedulerInv, Placed
    <3>2. Before' = Spent(visited)
      BY <3>1 DEF CheckStep, Before, Spent, ChildrenOf
    <3>. QED BY <3>1, <3>2 DEF CheckStep, SchedulerInv, Budgeted, Running
  <2>. QED BY <2>1, <2>2
<1>. QED BY <1>1, <1>2, <1>3 DEF SchedulerInv

LEMMA BeginStep == SchedulerInv /\ Begin => SchedulerInv'
<1> SUFFICES ASSUME SchedulerInv, Begin PROVE SchedulerInv'
  OBVIOUS
<1>0. ~OutOfSteps /\ stepIndex + 1 \in 0 .. MaxSteps
  BY NeverOut DEF Begin
<1>1. At \in Nodes /\ kind[At] \in {"worker", "timer", "end"}
  BY DEF SchedulerInv, TypeOK, Placed, Begin, At, Kinds, Body, Children, ChildrenAreSteps
<1>2. TypeOK'
  BY <1>0, <1>1, SameDefinition DEF SchedulerInv, TypeOK, Begin, Kinds
<1>3. Placed'
  <2>1. /\ UNCHANGED <<definition, position, visited, ended>> /\ Body' = Body
        /\ pc' = kind[At] /\ pc = "begin"
    BY <1>0, SameLoop DEF Begin
  <2>2. child # None => kind[At] # "end"
    BY DEF At, SchedulerInv, TypeOK, Placed, Body, Children, ChildrenAreSteps
  <2>3. child = None => At = current
    BY DEF At
  <2>. QED BY <1>1, <2>1, <2>2, <2>3 DEF SchedulerInv, Placed, Running
<1>4. Budgeted'
  <2>1. /\ stepIndex' = stepIndex + 1 /\ UNCHANGED <<definition, position, visited>>
        /\ pc' \in {"worker", "timer", "end"} /\ stepIndex \in Nat
    BY <1>0, <1>1 DEF Begin, SchedulerInv, TypeOK
  <2>2. CASE child = None
    <3> DEFINE k == Iterations * Cardinality(Body)
    <3>1. k \in Nat /\ Before \in Nat
      BY Sizes, Times, SpentType DEF Body, Children, Before, SchedulerInv, TypeOK
    <3>2. Spent(visited) = Before + 1 + k
      BY SpentVisit DEF Before, Body, SchedulerInv, TypeOK, Placed, Begin
    <3>3. stepIndex <= Before
      BY <2>2 DEF SchedulerInv, Budgeted, Begin
    <3> HIDE DEF k
    <3>4. stepIndex' <= Spent(visited)'
      BY <2>1, <3>1, <3>2, <3>3, SameLoop
    <3>. QED BY <2>1, <2>2, <3>4 DEF Budgeted
  <2>3. CASE child # None
    <3>1. PICK R \in SUBSET Body : Ran(R) /\ stepIndex <= Done + Cardinality(R)
      BY <2>3 DEF SchedulerInv, Budgeted, Begin
    <3>2. Cardinality(R) \in Nat /\ Done \in Nat
      BY <2>3, <3>1, Room DEF SchedulerInv, Ran
    <3>3. R \in SUBSET Body' /\ Ran(R)' /\ stepIndex' <= Done' + Cardinality(R) + 1
      BY <2>1, <3>1, <3>2, SameLoop, SamePlace
    <3>. QED BY <2>1, <2>3, <3>3 DEF Budgeted
  <2>. QED BY <2>2, <2>3
<1>. QED BY <1>2, <1>3, <1>4 DEF SchedulerInv

LEMMA NodeStep ==
    SchedulerInv /\ (RunEnd \/ RunTimer \/ CheckAgain \/ RunNode) => SchedulerInv'
<1> SUFFICES ASSUME SchedulerInv, RunEnd \/ RunTimer \/ CheckAgain \/ RunNode
             PROVE  SchedulerInv'
  OBVIOUS
<1>1. /\ UNCHANGED <<definition, position, visited, stepIndex, reports, ended, cancelled, late>>
      /\ pc \in Running /\ pc' \in {"runner", "record"} /\ result' \in Results
  BY DEF RunEnd, RunTimer, CheckAgain, RunNode, Running, SchedulerInv, TypeOK, Results
<1>2. TypeOK'
  BY <1>1, SameDefinition DEF SchedulerInv, TypeOK
<1>3. Placed'
  BY <1>1, SameLoop DEF SchedulerInv, Placed, Running
<1>4. Budgeted'
  BY <1>1, SameLoop, SamePlace DEF SchedulerInv, Budgeted, Running
<1>. QED BY <1>2, <1>3, <1>4 DEF SchedulerInv

LEMMA RecordStep == SchedulerInv /\ Record => SchedulerInv'
<1> SUFFICES ASSUME SchedulerInv, Record PROVE SchedulerInv'
  OBVIOUS
<1>1. /\ UNCHANGED <<definition, position, visited, stepIndex, ended, cancelled, late>>
      /\ pc = "record" /\ pc' = IF child = None THEN "after" ELSE "afterChild"
      /\ result' \in Results /\ At \in Nodes
      /\ events' = Append(events, [node |-> At, outcome |-> result'])
      /\ status' = [status EXCEPT ![At] = result'] /\ written' = [written EXCEPT ![At] = result']
  BY DEF Record, Report, Checked, Results, At, SchedulerInv, TypeOK
<1>2. TypeOK'
  BY <1>1, SameDefinition DEF SchedulerInv, TypeOK
<1>3. Placed'
  BY <1>1, SameLoop DEF SchedulerInv, Placed, Running
<1>4. Budgeted'
  BY <1>1, SameLoop, SamePlace DEF SchedulerInv, Budgeted, Running
<1>. QED BY <1>2, <1>3, <1>4 DEF SchedulerInv

LEMMA RefuseStep == SchedulerInv /\ Refuse => SchedulerInv'
<1> SUFFICES ASSUME SchedulerInv, Refuse PROVE SchedulerInv'
  OBVIOUS
<1>1. ~OutOfSteps /\ stepIndex + 1 \in 0 .. MaxSteps /\ stepIndex \in Nat
  BY NeverOut DEF Refuse, SchedulerInv, TypeOK
<1>2. /\ UNCHANGED <<definition, current, iteration, visited, cancelled, late>>
      /\ pc = "refuse" /\ stepIndex' = stepIndex + 1
      /\ result' = "cancelled" /\ At \in Nodes /\ child' = None
      /\ events' = Append(events, [node |-> At, outcome |-> "cancelled"])
      /\ status' = [status EXCEPT ![At] = "cancelled"]
      /\ written' = [written EXCEPT ![At] = "cancelled"]
      /\ IF child = None THEN pc' = "done" /\ ended' = "cancelled"
                         ELSE pc' = "loopEnd" /\ UNCHANGED ended
  BY <1>1 DEF Refuse, Report, End, At, SchedulerInv, TypeOK
<1>3. TypeOK'
  BY <1>1, <1>2, SameDefinition DEF SchedulerInv, TypeOK, Results
<1>4. Placed'
  BY <1>2, SameLoop DEF SchedulerInv, Placed, Running
<1>5. Budgeted'
  <2>1. CASE child = None
    BY <1>2, <2>1 DEF Budgeted, Running
  <2>2. CASE child # None
    <3>1. PICK R \in SUBSET Body : Ran(R) /\ stepIndex <= Done + Cardinality(R)
      BY <1>2, <2>2 DEF SchedulerInv, Budgeted
    <3> DEFINE b == Cardinality(Body)
               k == Before + Iterations * Cardinality(Body)
    <3>2. /\ Cardinality(R) \in Nat /\ Done \in Nat /\ b \in Nat /\ k \in Nat
          /\ Done + b <= k /\ Done + Cardinality(R) + 1 <= Done + b
      <4>1. b \in Nat
        BY Sizes DEF Body, Children
      <4>. QED BY <2>2, <3>1, <4>1, Room, Times DEF SchedulerInv, Ran
    <3>3. k' = k
      BY <1>2, SameLoop
    <3> HIDE DEF b, k
    <3>4. stepIndex' <= k'
      BY <1>1, <1>2, <3>1, <3>2, <3>3
    <3>. QED BY <1>2, <2>2, <3>4 DEF Budgeted, Running, k
  <2>. QED BY <2>1, <2>2
<1>. QED BY <1>3, <1>4, <1>5 DEF SchedulerInv

LEMMA AfterNodeStep == SchedulerInv /\ AfterNode => SchedulerInv'
<1> SUFFICES ASSUME SchedulerInv, AfterNode PROVE SchedulerInv'
  OBVIOUS
<1>1. TypeOK'
  BY SameDefinition DEF SchedulerInv, TypeOK, AfterNode, End, Results
<1>2. Placed'
  BY DEF SchedulerInv, TypeOK, Results, Placed, AfterNode, End, Running
<1>3. Budgeted'
  <2>1. Spent(visited)' = Spent(visited)
    BY DEF AfterNode, Spent, ChildrenOf
  <2>. QED BY <2>1 DEF SchedulerInv, Budgeted, Placed, AfterNode, End, Running
<1>. QED BY <1>1, <1>2, <1>3 DEF SchedulerInv

LEMMA BeginLoopStep == SchedulerInv /\ BeginLoop => SchedulerInv'
<1> SUFFICES ASSUME SchedulerInv, BeginLoop PROVE SchedulerInv'
  OBVIOUS
<1>1. TypeOK'
  BY SameDefinition DEF SchedulerInv, TypeOK, BeginLoop
<1>2. Placed'
  BY SameLoop DEF SchedulerInv, Placed, BeginLoop, Running
<1>3. Budgeted'
  <2>1. Body' = Body /\ Before' = Before /\ iteration' = 0
    BY SameLoop DEF BeginLoop
  <2>2. Cardinality(Body) \in Nat /\ Before \in Nat
    BY Sizes, SpentType DEF Body, Children, Before, SchedulerInv, TypeOK
  <2>3. Done' = Before
    BY <2>1, <2>2 DEF Done
  <2>. QED BY <2>3 DEF SchedulerInv, Placed, Budgeted, BeginLoop, Running
<1>. QED BY <1>1, <1>2, <1>3 DEF SchedulerInv

LEMMA IterateStep == SchedulerInv /\ Iterate => SchedulerInv'
<1> SUFFICES ASSUME SchedulerInv, Iterate PROVE SchedulerInv'
  OBVIOUS
<1>1. Entry \in Body /\ Body \in SUBSET Nodes
  BY ChainEnds DEF SchedulerInv, Placed, Iterate, Body, Children
<1>2. TypeOK'
  BY <1>1, SameDefinition DEF SchedulerInv, TypeOK, Iterate, Results
<1>3. /\ UNCHANGED <<definition, current, iteration, visited, stepIndex, ended>>
      /\ Body' = Body /\ Entry' = Entry /\ Before' = Before
  BY SameLoop DEF Iterate
<1>4. Placed'
  BY <1>1, <1>3 DEF SchedulerInv, TypeOK, Placed, Iterate, Running
<1>5. Budgeted'
  <2>1. stepIndex <= Done /\ stepIndex \in Nat /\ Cardinality(Body) \in Nat /\ Before \in Nat
    BY <1>1, Sizes, SpentType DEF SchedulerInv, Budgeted, Iterate, TypeOK, Before
  <2>2. CASE pc' = "loopEnd"
    <3> DEFINE k == Iterations * Cardinality(Body)
               i == iteration * Cardinality(Body)
    <3>1. i <= k /\ i \in Nat /\ k \in Nat
      <4>1. iteration \in Nat /\ iteration <= Iterations
        BY DEF SchedulerInv, TypeOK
      <4>. QED BY <2>1, <4>1, Times
    <3>2. stepIndex <= Before + k
      <4> HIDE DEF k
      <4>1. stepIndex <= Before + i
        BY <2>1 DEF Done
      <4> HIDE DEF i
      <4>. QED BY <2>1, <3>1, <4>1
    <3>3. stepIndex' <= Before' + Iterations * Cardinality(Body')
      BY <1>3, <3>2
    <3>. QED BY <2>2, <3>3 DEF Budgeted, Running
  <2>3. CASE pc' # "loopEnd"
    <3>1. child' = Entry /\ pc' = "child"
      BY <2>3 DEF Iterate
    <3>2. Ran({})' /\ {} \in SUBSET Body' /\ Done' = Done
      BY <1>3, <3>1 DEF Ran, Done
    <3>3. stepIndex' <= Done' + Cardinality({})
      <4>1. Cardinality({}) = 0
        BY FS_EmptySet
      <4>2. Done \in Nat
        BY <2>1, Times DEF Done, SchedulerInv, TypeOK
      <4>. QED BY <1>3, <2>1, <3>2, <4>1, <4>2
    <3>. QED BY <3>1, <3>2, <3>3 DEF Budgeted, Running
  <2>. QED BY <2>2, <2>3
<1>. QED BY <1>2, <1>4, <1>5 DEF SchedulerInv

LEMMA CheckChildStep == SchedulerInv /\ CheckChild => SchedulerInv'
<1> SUFFICES ASSUME SchedulerInv, CheckChild PROVE SchedulerInv'
  OBVIOUS
<1>1. TypeOK'
  BY SameDefinition DEF SchedulerInv, TypeOK, CheckChild
<1>2. Placed'
  BY SameLoop DEF SchedulerInv, Placed, CheckChild, Running
<1>3. Budgeted'
  BY SameLoop, SamePlace DEF SchedulerInv, Placed, Budgeted, CheckChild, Running
<1>. QED BY <1>1, <1>2, <1>3 DEF SchedulerInv

LEMMA AfterChildStep == SchedulerInv /\ AfterChild => SchedulerInv'
<1> SUFFICES ASSUME SchedulerInv, AfterChild PROVE SchedulerInv'
  OBVIOUS
<1>1. /\ UNCHANGED <<definition, current, result, visited, stepIndex, reports, ended,
                     cancelled, late>>
      /\ Body' = Body /\ Entry' = Entry /\ Before' = Before
      /\ pc = "afterChild" /\ child \in Body /\ Body \in SUBSET Nodes /\ kind[current] = "loop"
      /\ iteration \in Nat /\ iteration < Iterations /\ next[child] \in Nodes \union {None}
  BY SameLoop DEF AfterChild, SchedulerInv, TypeOK, Placed, Body, Children
<1>2. PICK R \in SUBSET Body : Ran(R) /\ stepIndex <= Done + Cardinality(R) + 1
  BY <1>1 DEF SchedulerInv, Placed, Budgeted
<1>3. next[child] # None => next[child] \in Body /\ next[child] \notin R \union {child}
  BY <1>1, <1>2, ChainGoesOn DEF SchedulerInv, Ran
<1>4. TypeOK'
  BY <1>1, SameDefinition DEF SchedulerInv, TypeOK, AfterChild
<1>5. Placed'
  BY <1>1, <1>3 DEF SchedulerInv, TypeOK, Placed, AfterChild, Running
<1>6. Budgeted'
  <2> DEFINE b == Cardinality(Body)
             k == Iterations * Cardinality(Body)
             r == Cardinality(R)
  <2>1. /\ r \in Nat /\ b \in Nat /\ k \in Nat /\ Done \in Nat /\ stepIndex \in Nat
        /\ Before \in Nat /\ Done + b <= Before + k /\ Done + r + 1 <= Done + b
    <3>1. b \in Nat /\ k \in Nat
      BY <1>1, Sizes, Times
    <3>2. child # None
      BY <1>1 DEF SchedulerInv, Placed
    <3>. QED BY <1>2, <3>1, <3>2, Room DEF SchedulerInv, TypeOK, Ran
  <2>2. CASE result # "success"
    <3>1. stepIndex <= Before + k
      <4> HIDE DEF b, k, r
      <4>1. stepIndex <= Done + r + 1
        BY <1>2 DEF r
      <4>. QED BY <2>1, <4>1
    <3>2. pc' = "loopEnd" /\ child' = None /\ stepIndex' <= Before' + Iterations * Cardinality(Body')
      BY <1>1, <2>2, <3>1 DEF AfterChild
    <3>. QED BY <3>2 DEF Budgeted, Running
  <2>3. CASE result = "success" /\ next[child] = None
    <3>1. Done' = Done + b
      <4> DEFINE i == iteration * Cardinality(Body)
                 j == (iteration + 1) * Cardinality(Body)
      <4>1. i \in Nat /\ j = i + b
        BY <1>1, <2>1, Times
      <4>2. Done = Before + i /\ Done' = Before + j
        BY <1>1, <2>3 DEF Done, AfterChild
      <4> HIDE DEF b, i, j
      <4>. QED BY <2>1, <4>1, <4>2
    <3>2. stepIndex' <= Done'
      <4> HIDE DEF b, k, r
      <4>1. stepIndex <= Done + r + 1
        BY <1>2 DEF r
      <4>. QED BY <1>1, <2>1, <3>1, <4>1
    <3>3. pc' = "iteration"
      BY <2>3 DEF AfterChild
    <3>. QED BY <3>2, <3>3 DEF Budgeted, Running
  <2>4. CASE result = "success" /\ next[child] # None
    <3>1. child' = next[child] /\ pc' = "child" /\ iteration' = iteration
      BY <2>4 DEF AfterChild
    <3>2. PICK S \in SUBSET Body : S = R \union {child}
      BY <1>1
    <3>3. Cardinality(S) = r + 1
      BY <1>1, <1>2, <3>2, Sizes, FS_AddElement DEF Ran
    <3>4. Done' = Done
      BY <1>1, <3>1 DEF Done
    <3>5. Ran(S)'
      BY <1>1, <1>2, <1>3, <2>4, <3>1, <3>2 DEF Ran
    <3>6. stepIndex' <= Done' + Cardinality(S)
      <4> HIDE DEF b, k, r
      <4>1. stepIndex <= Done + r + 1
        BY <1>2 DEF r
      <4>. QED BY <1>1, <2>1, <3>3, <3>4, <4>1
    <3>7. child' # None /\ S \in SUBSET Body'
      BY <1>1, <2>4, <3>1
    <3>. QED BY <3>1, <3>5, <3>6, <3>7 DEF Budgeted, Running
  <2>. QED BY <2>2, <2>3, <2>4
<1>. QED BY <1>4, <1>5, <1>6 DEF SchedulerInv

LEMMA EndLoopStep == SchedulerInv /\ EndLoop => SchedulerInv'
<1> SUFFICES ASSUME SchedulerInv, EndLoop PROVE SchedulerInv'
  OBVIOUS
<1>1. ~OutOfSteps /\ stepIndex + 1 \in 0 .. MaxSteps
  BY NeverOut DEF EndLoop
<1>2. /\ UNCHANGED <<definition, position, result, visited, ended, cancelled, late>>
      /\ pc = "loopEnd" /\ pc' = "after" /\ stepIndex' = stepIndex + 1
      /\ current \in visited /\ child = None
  BY <1>1 DEF EndLoop, SchedulerInv, Placed
<1>3. TypeOK'
  <2>1. /\ events' = Append(events, [node |-> current, outcome |-> result])
        /\ status' = [status EXCEPT ![current] = result]
        /\ written' = [written EXCEPT ![current] = result]
    BY <1>1 DEF EndLoop
  <2>2. MaxSteps' = MaxSteps
    BY <1>2, SameDefinition
  <2>. QED BY <1>1, <1>2, <2>1, <2>2 DEF SchedulerInv, TypeOK
<1>4. Placed'
  BY <1>2, SameLoop DEF SchedulerInv, Placed, Running
<1>5. Budgeted'
  <2> DEFINE k == Iterations * Cardinality(Body)
  <2>1. k \in Nat /\ Before \in Nat /\ stepIndex \in Nat
    BY Sizes, Times, SpentType DEF Body, Children, Before, SchedulerInv, TypeOK
  <2>2. Spent(visited) = Before + 1 + k
    BY <1>2, SpentVisit DEF Before, Body, SchedulerInv, TypeOK
  <2>3. stepIndex <= Before + k
    BY <1>2 DEF SchedulerInv, Budgeted
  <2> HIDE DEF k
  <2>4. stepIndex' <= Spent(visited)'
    BY <1>2, <2>1, <2>2, <2>3, SameLoop
  <2>. QED BY <1>2, <2>4 DEF Budgeted, Running
<1>. QED BY <1>3, <1>4, <1>5 DEF SchedulerInv

\* An exception ends the schedule where it is.
Raise == RunnerRaises \/ AnnounceRaises \/ ReportRaises

LEMMA Raised ==
    ASSUME SchedulerInv, Raise
    PROVE  /\ UNCHANGED <<definition, position, visited, events, cancelled>>
           /\ pc \in {"runner", "begin", "refuse", "loop", "record", "loopEnd"} /\ ended = "no"
           /\ pc' = "done" /\ ended' = "raised"
           /\ stepIndex' \in {stepIndex, stepIndex + 1} /\ stepIndex' \in 0 .. MaxSteps
<1>1. pc \in {"begin", "refuse"} => stepIndex + 1 \in 0 .. MaxSteps
  BY NeverOut
<1>. QED BY <1>1 DEF Raise, RunnerRaises, AnnounceRaises, ReportRaises, End, SchedulerInv,
                      TypeOK, Placed

LEMMA RaiseStep == SchedulerInv /\ Raise => SchedulerInv'
<1> SUFFICES ASSUME SchedulerInv, Raise PROVE SchedulerInv'
  OBVIOUS
<1>1. TypeOK'
  <2>1. At \in Nodes /\ MaxSteps' = MaxSteps
    BY Raised, SameDefinition DEF At, SchedulerInv, TypeOK
  <2>2. result' \in Results /\ late' \in Nat
    BY DEF Raise, RunnerRaises, AnnounceRaises, ReportRaises, Checked, SchedulerInv, TypeOK,
           Results
  <2>3. /\ status' \in [Nodes -> Results \union {"none", "running"}]
        /\ written' \in [Nodes -> Results \union {"none"}]
    BY <2>1, <2>2 DEF Raise, RunnerRaises, AnnounceRaises, ReportRaises, SchedulerInv, TypeOK
  <2>. QED BY <2>1, <2>2, <2>3, Raised DEF SchedulerInv, TypeOK
<1>2. Placed'
  BY Raised, SameLoop DEF SchedulerInv, Placed
<1>3. Budgeted'
  BY Raised DEF Budgeted, Running
<1>. QED BY <1>1, <1>2, <1>3 DEF SchedulerInv

LEMMA StutterStep == SchedulerInv /\ UNCHANGED vars => SchedulerInv'
<1> SUFFICES ASSUME SchedulerInv, UNCHANGED vars PROVE SchedulerInv'
  OBVIOUS
<1>1. UNCHANGED <<definition, pc, position, result, visited, stepIndex, reports, ended,
                  cancelled, late>>
  BY DEF vars
<1>2. TypeOK'
  BY <1>1, SameDefinition DEF SchedulerInv, TypeOK
<1>3. Placed'
  BY <1>1, SameLoop DEF SchedulerInv, Placed
<1>4. Budgeted'
  BY <1>1, SameLoop, SamePlace DEF SchedulerInv, Budgeted
<1>. QED BY <1>2, <1>3, <1>4 DEF SchedulerInv

\* Every reachable state has its position and its steps within the budget.
THEOREM SchedulerInvariant == Spec => []SchedulerInv
<1>1. SchedulerInv /\ [Next]_vars => SchedulerInv'
  BY CancelStep, CheckStepStep, BeginStep, NodeStep, RecordStep, RefuseStep, AfterNodeStep,
     BeginLoopStep, IterateStep, CheckChildStep, AfterChildStep, EndLoopStep, RaiseStep,
     StutterStep DEF Next, Scheduler, Raise
<1>. QED BY InitInv, <1>1, PTL DEF Spec

\* The types of the scheduler's state: the step index stays within the budget.
THEOREM TypeCorrect == Spec => []TypeOK
<1>1. SchedulerInv => TypeOK
  BY DEF SchedulerInv
<1>. QED BY <1>1, SchedulerInvariant, PTL

----------------------------------------------------------------------------
(* The end of the schedule                                                 *)

\* What is still open: the report of the node at work and that of the loop around it.
Open ==
    IF pc \in Running THEN {At, current}
    ELSE IF child # None \/ pc \in {"iteration", "loopEnd"} THEN {current}
    ELSE {}

Settled ==
    IF pc = "done" THEN ReportsSettled
    ELSE /\ \A n \in Nodes \ Open : status[n] = written[n]
         /\ \A n \in Open : status[n] = "running"

\* Where the one node begun after the cancellation has got to.
Overtaken ==
    \/ pc \in {"worker", "timer", "end"}
    \/ pc = "iteration" /\ iteration = 0
    \/ pc \in {"record", "afterChild", "loopEnd", "after"} /\ result = "cancelled"
    \/ pc \in {"record", "after"} /\ child = None /\ kind[current] = "end"
    \/ pc = "done" /\ (ended \in {"cancelled", "raised"} \/ kind[current] = "end")

LateOnce ==
    /\ late \in {0, 1}
    /\ late = 1 => cancelled /\ Overtaken

EndInv == BudgetSuffices /\ Settled /\ LateOnce

LEMMA EndInit == Init => EndInv
<1> SUFFICES ASSUME Init PROVE EndInv
  OBVIOUS
<1>1. status = written /\ ended = "no" /\ late = 0
  BY DEF Init
<1>2. Settled
  BY <1>1 DEF Settled, Open, Init, Running
<1>3. BudgetSuffices
  BY <1>1 DEF BudgetSuffices
<1>4. LateOnce
  BY <1>1 DEF LateOnce
<1>. QED BY <1>2, <1>3, <1>4 DEF EndInv

LEMMA BudgetStep == SchedulerInv /\ BudgetSuffices /\ [Next]_vars => BudgetSuffices'
<1> SUFFICES ASSUME SchedulerInv, BudgetSuffices, [Next]_vars PROVE BudgetSuffices'
  OBVIOUS
<1>1. CASE CheckStep \/ Begin \/ Refuse \/ EndLoop
  <2>1. ~OutOfSteps
    BY <1>1, NeverOut DEF CheckStep, Begin, Refuse, EndLoop
  <2>. QED BY <1>1, <2>1 DEF BudgetSuffices, CheckStep, Begin, Refuse, EndLoop, End
<1>2. CASE AfterNode
  BY <1>2 DEF BudgetSuffices, AfterNode, End, SchedulerInv, TypeOK, Results
<1>3. CASE UNCHANGED ended \/ Raise
  BY <1>3, Raised DEF BudgetSuffices
<1>. QED BY <1>1, <1>2, <1>3 DEF Next, Scheduler, Raise, Cancel, RunEnd, RunTimer, CheckAgain,
     RunNode, Record, BeginLoop, Iterate, CheckChild, AfterChild, vars

LEMMA SettledStep == SchedulerInv /\ Settled /\ [Next]_vars => Settled'
<1> SUFFICES ASSUME SchedulerInv, Settled, [Next]_vars PROVE Settled'
  OBVIOUS
<1> USE DEF SchedulerInv, TypeOK, Placed
<1>1. CASE CheckStep
  BY <1>1 DEF Settled, ReportsSettled, Open, CheckStep, End, Running
<1>2. CASE Begin
  <2>1. ~OutOfSteps
    BY <1>2, NeverOut DEF Begin
  <2>2. /\ At \in Nodes /\ kind[At] \in {"worker", "timer", "end"} /\ At' = At
        /\ pc = "begin" /\ pc' = kind[At] /\ UNCHANGED <<current, written>>
        /\ status' = [status EXCEPT ![At] = "running"]
    BY <1>2, <2>1 DEF Begin, At, Kinds, Body, Children, ChildrenAreSteps
  <2>3. Open' = {At, current} /\ Open \subseteq Open' /\ Open = Open' \ {At}
    BY <1>2, <2>2 DEF Begin, Open, At, Running, Body, Children, ChildrenAreSteps
  <2>4. \A n \in Nodes \ Open' : status'[n] = written'[n]
    BY <2>2, <2>3 DEF Settled
  <2>5. \A n \in Open' : status'[n] = "running"
    BY <2>2, <2>3 DEF Settled
  <2>. QED BY <2>2, <2>4, <2>5 DEF Settled
<1>3. CASE RunEnd \/ RunTimer \/ CheckAgain \/ RunNode
  BY <1>3 DEF Settled, Open, RunEnd, RunTimer, CheckAgain, RunNode, At, Running
<1>4. CASE Record
  <2>1. /\ At \in Nodes /\ pc = "record" /\ UNCHANGED <<current, child>>
        /\ status' = [status EXCEPT ![At] = result'] /\ written' = [written EXCEPT ![At] = result']
        /\ pc' = IF child = None THEN "after" ELSE "afterChild"
    BY <1>4 DEF Record, Report, At
  <2>2. Open = {At, current} /\ Open' = IF child = None THEN {} ELSE {current}
    BY <2>1 DEF Open, Running
  <2>3. child # None => current # At /\ current \in Nodes
    BY DEF At, Body, Children, ChildrenAreSteps
  <2>4. \A n \in Nodes \ Open' : status'[n] = written'[n]
    BY <2>1, <2>2 DEF Settled, At
  <2>5. \A n \in Open' : status'[n] = "running"
    BY <2>1, <2>2, <2>3 DEF Settled
  <2>. QED BY <2>1, <2>4, <2>5 DEF Settled
<1>5. CASE Refuse
  <2>1. ~OutOfSteps
    BY <1>5, NeverOut DEF Refuse
  <2>2. /\ At \in Nodes /\ pc = "refuse" /\ UNCHANGED current /\ child' = None
        /\ status' = [status EXCEPT ![At] = "cancelled"]
        /\ written' = [written EXCEPT ![At] = "cancelled"]
        /\ pc' = IF child = None THEN "done" ELSE "loopEnd"
    BY <1>5, <2>1 DEF Refuse, Report, End, At
  <2>3. \A n \in Nodes \ Open : status'[n] = written'[n]
    BY <2>2 DEF Settled
  <2>4. CASE child = None
    <3>1. Open = {}
      BY <2>2, <2>4 DEF Open, Running
    <3>2. \A n \in Nodes : status'[n] = written'[n]
      BY <2>3, <3>1
    <3>. QED BY <2>2, <2>4, <3>2 DEF Settled, ReportsSettled
  <2>5. CASE child # None
    <3>1. Open = {current} /\ Open' = {current} /\ current # At
      BY <2>2, <2>5 DEF Open, Running, At, Body, Children, ChildrenAreSteps
    <3>2. status'[current] = "running"
      BY <2>2, <3>1 DEF Settled
    <3>. QED BY <2>2, <2>3, <2>5, <3>1, <3>2 DEF Settled
  <2>. QED BY <2>4, <2>5
<1>6. CASE AfterNode
  BY <1>6 DEF Settled, ReportsSettled, Open, AfterNode, End, Running
<1>7. CASE BeginLoop
  BY <1>7 DEF Settled, Open, BeginLoop, Running
<1>8. CASE Iterate
  <2>1. Entry \in Nodes
    BY <1>8, ChainEnds DEF Iterate, Body, Children
  <2>2. Open = {current} /\ Open' = {current}
    BY <1>8, <2>1 DEF Open, Iterate, Running
  <2>. QED BY <1>8, <2>2 DEF Settled, Iterate
<1>9. CASE CheckChild
  BY <1>9 DEF Settled, Open, CheckChild, Running
<1>10. CASE AfterChild
  BY <1>10 DEF Settled, Open, AfterChild, Running
<1>11. CASE EndLoop
  <2>1. ~OutOfSteps
    BY <1>11, NeverOut DEF EndLoop
  <2>. QED BY <1>11, <2>1 DEF Settled, Open, EndLoop, Running
<1>12. CASE Cancel \/ UNCHANGED vars
  BY <1>12 DEF Settled, ReportsSettled, Open, Cancel, vars, At
<1>13. CASE Raise
  <2>1. /\ At \in Nodes /\ At' = At /\ UNCHANGED current /\ pc # "done"
        /\ pc' = "done" /\ ended' = "raised"
    BY <1>13, Raised DEF At
  <2>2. Open \subseteq {At, current}
    BY <1>13, Raised DEF Open
  <2>3. \A n \in Nodes \ {At} : status'[n] = status[n] /\ written'[n] = written[n]
    BY <1>13, <2>1 DEF Raise, RunnerRaises, AnnounceRaises, ReportRaises
  <2>4. \A n \in Nodes \ {At} : status[n] # written[n] => status[n] = "running" /\ n = current
    BY <2>1, <2>2 DEF Settled
  <2>5. status'[At] # written'[At] => status'[At] = "running"
    <3>1. CASE RunnerRaises
      BY <2>1, <3>1 DEF RunnerRaises, Settled, Open
    <3>2. CASE AnnounceRaises
      <4>1. status[At] # written[At] => status[At] = "running"
        BY <2>1, <2>2 DEF Settled
      <4>. QED BY <2>1, <3>2, <4>1 DEF AnnounceRaises
    <3>3. CASE ReportRaises
      BY <2>1, <3>3 DEF ReportRaises
    <3>. QED BY <1>13, <3>1, <3>2, <3>3 DEF Raise
  <2>. QED BY <2>1, <2>3, <2>4, <2>5 DEF Settled, ReportsSettled
<1>. QED BY <1>1, <1>2, <1>3, <1>4, <1>5, <1>6, <1>7, <1>8, <1>9, <1>10, <1>11, <1>12, <1>13
     DEF Next, Scheduler, Raise

LEMMA LateStep == SchedulerInv /\ LateOnce /\ [Next]_vars => LateOnce'
<1> SUFFICES ASSUME SchedulerInv, LateOnce, [Next]_vars PROVE LateOnce'
  OBVIOUS
<1> USE DEF SchedulerInv, TypeOK, Placed
<1>1. CASE CheckStep \/ CheckChild
  BY <1>1 DEF LateOnce, Overtaken, CheckStep, CheckChild
<1>2. CASE Begin
  <2>1. ~OutOfSteps
    BY <1>2, NeverOut DEF Begin
  <2>2. At \in Nodes /\ kind[At] \in {"worker", "timer", "end"}
    BY <1>2 DEF Begin, At, Kinds, Body, Children, ChildrenAreSteps
  <2>. QED BY <1>2, <2>1, <2>2 DEF LateOnce, Overtaken, Begin
<1>3. CASE RunEnd \/ RunTimer \/ CheckAgain \/ RunNode
  BY <1>3 DEF LateOnce, Overtaken, RunEnd, RunTimer, CheckAgain, RunNode
<1>4. CASE Record
  BY <1>4 DEF LateOnce, Overtaken, Record, Checked, At
<1>5. CASE Refuse
  BY <1>5 DEF LateOnce, Overtaken, Refuse
<1>6. CASE AfterNode
  <2>1. kind[current] = "end" => next[current] = None
    BY DEF Accepted, TransitionsStay
  <2>. QED BY <1>6, <2>1 DEF LateOnce, Overtaken, AfterNode, End
<1>7. CASE BeginLoop
  BY <1>7 DEF LateOnce, Overtaken, BeginLoop
<1>8. CASE Iterate
  BY <1>8 DEF LateOnce, Overtaken, Iterate
<1>9. CASE AfterChild
  BY <1>9 DEF LateOnce, Overtaken, AfterChild
<1>10. CASE EndLoop
  <2>1. ~OutOfSteps
    BY <1>10, NeverOut DEF EndLoop
  <2>. QED BY <1>10, <2>1 DEF LateOnce, Overtaken, EndLoop
<1>11. CASE Cancel \/ UNCHANGED vars
  BY <1>11 DEF LateOnce, Overtaken, Cancel, vars
<1>12. CASE Raise
  <2>1. late' \in {late, late + 1} /\ (late' # late => cancelled /\ pc \in {"begin", "loop"})
    BY <1>12 DEF Raise, RunnerRaises, AnnounceRaises, ReportRaises
  <2>2. pc \in {"begin", "loop"} => late = 0
    BY DEF LateOnce, Overtaken
  <2>. QED BY <1>12, <2>1, <2>2, Raised DEF LateOnce, Overtaken
<1>. QED BY <1>1, <1>2, <1>3, <1>4, <1>5, <1>6, <1>7, <1>8, <1>9, <1>10, <1>11, <1>12
     DEF Next, Scheduler, Raise

THEOREM EndInvariant == Spec => []EndInv
<1>1. SchedulerInv /\ EndInv /\ [Next]_vars => EndInv'
  BY BudgetStep, SettledStep, LateStep DEF EndInv
<1>. QED BY EndInit, <1>1, SchedulerInvariant, PTL DEF Spec

\* For every accepted definition the default budget is never what ends the schedule.
THEOREM BudgetEnough == Spec => []BudgetSuffices
<1>1. EndInv => BudgetSuffices
  BY DEF EndInv
<1>. QED BY <1>1, EndInvariant, PTL

\* When the schedule has ended, every node's last report is what was last written for it;
\* after an exception the node it came from and the loop around it may be left as running.
THEOREM ReportsAgree == Spec => []ReportsSettled
<1>1. EndInv => ReportsSettled
  <2>1. EndInv /\ pc = "done" => ReportsSettled
    BY DEF EndInv, Settled
  <2>. QED BY <2>1 DEF ReportsSettled
<1>. QED BY <1>1, EndInvariant, PTL

\* At most one node is begun after a cancellation, and the schedule ends as cancelled
\* unless that node is the end node or something raised.
THEOREM CancellationBinds == Spec => []CancelledSoon
<1>1. SchedulerInv /\ EndInv => CancelledSoon
  BY DEF EndInv, LateOnce, Overtaken, CancelledSoon, SchedulerInv, Placed
<1>. QED BY <1>1, SchedulerInvariant, EndInvariant, PTL

----------------------------------------------------------------------------
(* Recursive functions over an interval of numbers                         *)

\* A nonempty set of numbers has a least one.
LEMMA Least ==
    ASSUME NEW S \in SUBSET Nat, S # {}
    PROVE  \E n \in S : \A m \in S : n <= m
<1> DEFINE less == {p \in Nat \X Nat : p[1] < p[2]}
<1>1. IsWellFoundedOn(less, Nat)
  BY NatLessThanWellFounded DEF OpToRel
<1>2. PICK n \in S : \A m \in S : ~(<<m, n>> \in less)
  <2> HIDE DEF less
  <2>. QED BY <1>1, WFMin
<1>3. ASSUME NEW m \in S PROVE n <= m
  <2>1. <<m, n>> \in Nat \X Nat /\ <<m, n>>[1] = m /\ <<m, n>>[2] = n
    OBVIOUS
  <2>2. ~(m < n)
    BY <1>2, <2>1
  <2>. QED BY <2>2
<1>. QED BY <1>3

\* What is in a set at 0 and passes on to the next is in it up to the end.
LEMMA Stepwise ==
    ASSUME NEW N \in Nat, NEW S, 0 \in S,
           \A i \in 1 .. N : i - 1 \in S => i \in S
    PROVE  \A i \in 0 .. N : i \in S
<1>. SUFFICES ASSUME NEW k \in 0 .. N, k \notin S PROVE FALSE
  OBVIOUS
<1>1. PICK n \in {i \in 0 .. N : i \notin S} : \A m \in {i \in 0 .. N : i \notin S} : n <= m
  <2>1. {i \in 0 .. N : i \notin S} \in SUBSET Nat /\ {i \in 0 .. N : i \notin S} # {}
    OBVIOUS
  <2>. QED BY <2>1, Least
<1>2. n # 0 /\ n \in 1 .. N /\ n - 1 \in 0 .. N /\ ~(n <= n - 1)
  BY <1>1
<1>3. n - 1 \in S
  BY <1>1, <1>2
<1>. QED BY <1>1, <1>2, <1>3

\* A function over 0 .. N from its first value and the step from each number to the next.
Steps(N, T) == [1 .. N -> [T -> T]]

Unfolds(f, N, T, first, G) ==
    /\ f \in [0 .. N -> T]
    /\ f[0] = first
    /\ \A i \in 1 .. N : f[i] = G[i][f[i - 1]]

\* There is one ...
LEMMA Recursion ==
    ASSUME NEW N \in Nat, NEW T, NEW first \in T, NEW G \in Steps(N, T)
    PROVE  \E f : Unfolds(f, N, T, first, G)
<1> DEFINE S == {m \in 0 .. N : \E f : Unfolds(f, m, T, first, G)}
<1>1. 0 \in S
  <2>1. Unfolds([i \in 0 .. 0 |-> first], 0, T, first, G)
    BY DEF Unfolds
  <2>2. 0 \in 0 .. N
    OBVIOUS
  <2>. QED BY <2>1, <2>2
<1>2. ASSUME NEW m \in 1 .. N, m - 1 \in S PROVE m \in S
  <2>1. PICK f : Unfolds(f, m - 1, T, first, G)
    BY <1>2
  <2> DEFINE g == [i \in 0 .. m |-> IF i = m THEN G[m][f[m - 1]] ELSE f[i]]
  <2>2. m \in 1 .. N /\ m - 1 \in 0 .. m - 1 /\ f[m - 1] \in T
    BY <2>1 DEF Unfolds
  <2>3. G[m][f[m - 1]] \in T
    BY <2>2 DEF Steps
  <2>4. g \in [0 .. m -> T] /\ g[m] = G[m][f[m - 1]] /\ \A i \in 0 .. m - 1 : g[i] = f[i]
    BY <2>1, <2>3 DEF Unfolds
  <2> HIDE DEF g
  <2>5. g[0] = first
    BY <2>1, <2>4 DEF Unfolds
  <2>6. ASSUME NEW i \in 1 .. m PROVE g[i] = G[i][g[i - 1]]
    <3>1. i - 1 \in 0 .. m - 1 /\ g[i - 1] = f[i - 1]
      BY <2>4
    <3>2. CASE i = m
      BY <2>4, <3>1, <3>2
    <3>3. CASE i # m
      BY <2>1, <2>4, <3>1, <3>3 DEF Unfolds
    <3>. QED BY <3>2, <3>3
  <2>7. Unfolds(g, m, T, first, G)
    BY <2>4, <2>5, <2>6 DEF Unfolds
  <2>. QED BY <2>7
<1> HIDE DEF S
<1>3. N \in S
  BY <1>1, <1>2, Stepwise
<1>. QED BY <1>3 DEF S

\* ... and no other.
LEMMA Unique ==
    ASSUME NEW N \in Nat, NEW T, NEW first \in T, NEW G \in Steps(N, T),
           NEW f, Unfolds(f, N, T, first, G), NEW g, DOMAIN g = 0 .. N, g[0] = first,
           \A i \in 1 .. N : g[i - 1] \in T => g[i] = G[i][g[i - 1]]
    PROVE  \A i \in 0 .. N : g[i] = f[i]
<1> DEFINE S == {i \in 0 .. N : g[i] = f[i]}
<1>1. 0 \in S
  BY DEF Unfolds
<1>2. ASSUME NEW i \in 1 .. N, i - 1 \in S PROVE i \in S
  <2>1. i - 1 \in 0 .. N /\ f[i - 1] \in T
    BY DEF Unfolds
  <2>2. g[i - 1] = f[i - 1]
    BY <1>2
  <2>. QED BY <2>1, <2>2 DEF Unfolds
<1> HIDE DEF S
<1>3. \A i \in 0 .. N : i \in S
  BY <1>1, <1>2, Stepwise
<1>. QED BY <1>3 DEF S

----------------------------------------------------------------------------
(* The nodes along the transitions                                         *)

LEMMA WalkDef ==
    ASSUME NEW t \in [Nodes -> Nodes \union {None}], NEW n \in Nodes
    PROVE  /\ Walk(t, n) \in [0 .. Cardinality(Nodes) -> Nodes \union {None}]
           /\ Walk(t, n)[0] = n
           /\ \A i \in 1 .. Cardinality(Nodes) :
                 Walk(t, n)[i] = IF Walk(t, n)[i - 1] = None THEN None
                                 ELSE t[Walk(t, n)[i - 1]]
<1> DEFINE N == Cardinality(Nodes)
           T == Nodes \union {None}
           G == [i \in 1 .. N |-> [x \in T |-> IF x = None THEN None ELSE t[x]]]
           IsWalk(w) == w = [i \in 0 .. N |->
                                IF i = 0 THEN n ELSE IF w[i - 1] = None THEN None ELSE t[w[i - 1]]]
<1>1. N \in Nat
  BY Sizes
<1>2. G \in Steps(N, T) /\ n \in T
  BY DEF Steps
<1>3. PICK f : Unfolds(f, N, T, n, G)
  <2> HIDE DEF G, N, T
  <2>. QED BY <1>1, <1>2, Recursion
<1>4. f \in [0 .. N -> T] /\ f[0] = n
  BY <1>3 DEF Unfolds
<1>5. ASSUME NEW i \in 1 .. N
      PROVE  f[i] = IF f[i - 1] = None THEN None ELSE t[f[i - 1]]
  <2>1. f[i - 1] \in T
    BY <1>1, <1>4
  <2>. QED BY <1>3, <2>1 DEF Unfolds
<1>6. IsWalk(f)
  BY <1>1, <1>4, <1>5
<1>7. Walk(t, n) = CHOOSE w : IsWalk(w)
  BY DEF Walk
<1>8. IsWalk(Walk(t, n))
  <2> HIDE DEF IsWalk
  <2>. QED BY <1>6, <1>7
<1> DEFINE W == Walk(t, n)
<1>9. W = [i \in 0 .. N |-> IF i = 0 THEN n ELSE IF W[i - 1] = None THEN None ELSE t[W[i - 1]]]
  BY <1>8
<1> HIDE DEF W
<1>10. \A i \in 0 .. N : W[i] = f[i]
  <2>1. DOMAIN W = 0 .. N /\ W[0] = n
    BY <1>1, <1>9
  <2>2. ASSUME NEW i \in 1 .. N, W[i - 1] \in T
        PROVE  W[i] = G[i][W[i - 1]]
    <3>1. W[i] = IF W[i - 1] = None THEN None ELSE t[W[i - 1]]
      BY <1>1, <1>9
    <3>. QED BY <2>2, <3>1
  <2> HIDE DEF G, N, T
  <2>. QED BY <1>1, <1>2, <1>3, <2>1, <2>2, Unique
<1>11. W = f
  <2>1. W = [i \in 0 .. N |-> W[i]] /\ f = [i \in 0 .. N |-> f[i]]
    BY <1>4, <1>9
  <2>. QED BY <1>10, <2>1, Zenon
<1>. QED BY <1>1, <1>4, <1>5, <1>11 DEF W

LEMMA WalkOn ==
    ASSUME NEW t \in [Nodes -> Nodes \union {None}], NEW n \in Nodes,
           NEW j \in Nat, j + 1 \in 1 .. Cardinality(Nodes), Walk(t, n)[j] \in Nodes
    PROVE  Walk(t, n)[j + 1] = t[Walk(t, n)[j]]
<1> DEFINE W == Walk(t, n)
<1>1. W[j + 1] = IF W[(j + 1) - 1] = None THEN None ELSE t[W[(j + 1) - 1]]
  BY WalkDef
<1> HIDE DEF W
<1>2. (j + 1) - 1 = j /\ W[j] # None
  BY DEF W
<1>. QED BY <1>1, <1>2 DEF W

\* The first c nodes of a walk.
Stretch(t, n, c) == {Walk(t, n)[i] : i \in 0 .. c - 1}

\* They are met from its first node, and are no more than c.
LEMMA StretchMet ==
    ASSUME NEW t \in [Nodes -> Nodes \union {None}], NEW n \in Nodes,
           NEW c \in 1 .. Cardinality(Nodes), Stretch(t, n, c) \subseteq Nodes
    PROVE  /\ Stretch(t, n, c) \subseteq Met(t, n) /\ n \in Stretch(t, n, c)
           /\ Cardinality(Stretch(t, n, c)) <= c
<1> DEFINE W == Walk(t, n)
<1>1. Cardinality(Nodes) \in Nat /\ c \in Nat /\ c - 1 \in Nat
  BY Sizes
<1>2. /\ DOMAIN W = 0 .. Cardinality(Nodes) /\ W[0] = n
      /\ \A i \in 1 .. Cardinality(Nodes) : W[i] = IF W[i - 1] = None THEN None ELSE t[W[i - 1]]
  BY WalkDef
<1> HIDE DEF W
<1>3. Stretch(t, n, c) = {W[i] : i \in 0 .. c - 1}
  BY DEF Stretch, W
<1>4. \A i \in 0 .. c - 1 : W[i] \in Nodes
  BY <1>3
<1>5. ASSUME NEW T \in SUBSET Nodes, n \in T, Closed(t, T)
      PROVE  Stretch(t, n, c) \subseteq T
  <2> DEFINE S == {i \in 0 .. c - 1 : W[i] \in T}
  <2>1. 0 \in S
    BY <1>1, <1>2, <1>5
  <2>2. ASSUME NEW i \in 1 .. c - 1, i - 1 \in S PROVE i \in S
    <3>1. i \in 1 .. Cardinality(Nodes) /\ i \in 0 .. c - 1 /\ W[i - 1] \in T
          /\ W[i - 1] # None
      BY <1>1, <2>2
    <3>2. W[i] = t[W[i - 1]]
      BY <1>2, <3>1
    <3>3. W[i] \in T
      BY <1>4, <1>5, <3>1, <3>2 DEF Closed
    <3>. QED BY <3>1, <3>3
  <2> HIDE DEF S
  <2>3. \A i \in 0 .. c - 1 : i \in S
    BY <1>1, <2>1, <2>2, Stepwise
  <2>. QED BY <1>3, <2>3 DEF S
<1>6. Stretch(t, n, c) \subseteq Met(t, n)
  BY <1>5 DEF Met
<1>7. Cardinality(Stretch(t, n, c)) <= c
  <2> DEFINE f == [i \in 0 .. c - 1 |-> W[i]]
  <2>1. f \in Surjection(0 .. c - 1, Stretch(t, n, c))
    BY <1>3 DEF Surjection
  <2>2. IsFiniteSet(0 .. c - 1) /\ Cardinality(0 .. c - 1) = c
    <3>1. 0 \in Int /\ c - 1 \in Int /\ ~(0 > c - 1) /\ (c - 1) - 0 + 1 = c
      BY <1>1
    <3>. QED BY <3>1, FS_Interval
  <2>. QED BY <2>1, <2>2, FS_Surjection
<1>. QED BY <1>1, <1>2, <1>3, <1>6, <1>7

\* They are all that is met, when what follows them is none or one of them.
LEMMA StretchCloses ==
    ASSUME NEW t \in [Nodes -> Nodes \union {None}], NEW n \in Nodes,
           NEW c \in 1 .. Cardinality(Nodes), Stretch(t, n, c) \subseteq Nodes,
           Walk(t, n)[c] \in Stretch(t, n, c) \union {None}
    PROVE  Met(t, n) = Stretch(t, n, c)
<1> DEFINE W == Walk(t, n)
<1>1. Cardinality(Nodes) \in Nat /\ c \in Nat /\ c - 1 \in Nat
  BY Sizes
<1>2. \A i \in 1 .. Cardinality(Nodes) : W[i] = IF W[i - 1] = None THEN None ELSE t[W[i - 1]]
  BY WalkDef
<1> HIDE DEF W
<1>3. Stretch(t, n, c) = {W[i] : i \in 0 .. c - 1} /\ W[c] \in Stretch(t, n, c) \union {None}
  BY DEF Stretch, W
<1>4. Closed(t, Stretch(t, n, c))
  <2>. SUFFICES ASSUME NEW x \in Stretch(t, n, c), t[x] # None
                PROVE  t[x] \in Stretch(t, n, c)
    BY DEF Closed
  <2>1. PICK i \in 0 .. c - 1 : x = W[i]
    BY <1>3
  <2>2. W[i] # None
    BY <2>1
  <2>3. i + 1 \in 1 .. Cardinality(Nodes) /\ (i + 1) - 1 = i
    BY <1>1
  <2>4. t[W[i]] = W[i + 1]
    BY <1>2, <2>2, <2>3
  <2>5. CASE i = c - 1
    <3>1. i + 1 = c
      BY <1>1, <2>5
    <3>. QED BY <1>3, <2>1, <2>4, <3>1
  <2>6. CASE i # c - 1
    <3>1. i + 1 \in 0 .. c - 1
      BY <1>1, <2>6
    <3>. QED BY <1>3, <2>1, <2>4, <3>1
  <2>. QED BY <2>5, <2>6
<1>5. Met(t, n) \subseteq Stretch(t, n, c)
  BY <1>4, StretchMet DEF Met
<1>. QED BY <1>5, StretchMet

\* A walk runs on as long as there are nodes it has not met.
LEMMA WalkNodes ==
    ASSUME NEW t \in [Nodes -> Nodes \union {None}], NEW n \in Nodes
    PROVE  /\ Met(t, n) \in SUBSET Nodes
           /\ Cardinality(Met(t, n)) \in 1 .. Cardinality(Nodes)
           /\ \A i \in 0 .. Cardinality(Met(t, n)) - 1 : Walk(t, n)[i] \in Nodes
<1> DEFINE W == Walk(t, n)
           m == Cardinality(Met(t, n))
<1>1. Met(t, n) \in SUBSET Nodes /\ n \in Met(t, n)
  BY DEF Met
<1>2. Cardinality(Nodes) \in Nat /\ m \in Nat /\ m <= Cardinality(Nodes) /\ m # 0
  BY <1>1, Sizes, FS_EmptySet
<1>3. W \in [0 .. Cardinality(Nodes) -> Nodes \union {None}] /\ W[0] = n
  BY WalkDef
<1>4. ASSUME NEW k \in 0 .. m - 1, W[k] \notin Nodes PROVE FALSE
  <2> DEFINE S == {i \in 0 .. m - 1 : W[i] \notin Nodes}
  <2>1. PICK c \in S : \A i \in S : c <= i
    <3>1. S \in SUBSET Nat /\ S # {}
      BY <1>4
    <3>. QED BY <3>1, Least
  <2>2. c \in 1 .. Cardinality(Nodes) /\ c <= m - 1 /\ W[c] = None
    <3> HIDE DEF W, m
    <3>. QED BY <1>2, <1>3
  <2>3. \A i \in 0 .. c - 1 : W[i] \in Nodes
    <3> HIDE DEF W
    <3>1. ASSUME NEW i \in 0 .. c - 1 PROVE i \in 0 .. m - 1 /\ ~(c <= i)
      BY <1>2, <2>2
    <3>. QED BY <2>1, <3>1
  <2>4. Stretch(t, n, c) \subseteq Nodes
    BY <2>3 DEF Stretch
  <2>5. Met(t, n) = Stretch(t, n, c)
    BY <2>2, <2>4, StretchCloses
  <2>6. m <= c
    BY <2>2, <2>4, <2>5, StretchMet
  <2> HIDE DEF m
  <2>. QED BY <1>2, <2>2, <2>6
<1>. QED BY <1>1, <1>2, <1>4

\* The path from a node.
LEMMA PathType ==
    ASSUME next \in [Nodes -> Nodes \union {None}], NEW n \in Nodes
    PROVE  /\ PathOf(n) \in Seq(Nodes) /\ Len(PathOf(n)) = Cardinality(Met(next, n))
           /\ \A i \in 1 .. Len(PathOf(n)) : PathOf(n)[i] = Walk(next, n)[i - 1]
<1> DEFINE m == Cardinality(Met(next, n))
           W == Walk(next, n)
<1>1. m \in Nat /\ \A i \in 0 .. m - 1 : W[i] \in Nodes
  BY WalkNodes, Sizes
<1>2. PathOf(n) = [i \in 1 .. m |-> W[i - 1]]
  BY DEF PathOf
<1> HIDE DEF m, W
<1>3. \A i \in 1 .. m : i - 1 \in 0 .. m - 1
  BY <1>1
<1>4. PathOf(n) \in Seq(Nodes) /\ Len(PathOf(n)) = m
  BY <1>1, <1>2, <1>3
<1>. QED BY <1>2, <1>4 DEF m, W

----------------------------------------------------------------------------
(* The expected order                                                      *)

\* The remainder of a multiple of b and a rest below it.
LEMMA Remainder ==
    ASSUME NEW i \in Nat, NEW b \in Nat \ {0}, NEW c \in 0 .. b - 1
    PROVE  (i * b + c) % b = c
<1> DEFINE x == i * b + c
           q == x \div b
           r == x % b
<1>1. i * b \in Nat /\ x \in Nat
  BY Times
<1>2. q \in Nat /\ r \in 0 .. b - 1 /\ x = b * q + r
  <2> HIDE DEF x
  <2>. QED BY <1>1
<1>3. x = q * b + r
  BY <1>2
<1> HIDE DEF q, r
<1>4. CASE i = q
  BY <1>1, <1>2, <1>3, <1>4 DEF r
<1>5. CASE i < q
  <2>1. PICK d \in Nat : q = i + 1 + d
    <3>1. q - (i + 1) \in Nat /\ q = i + 1 + (q - (i + 1))
      BY <1>2, <1>5
    <3>. QED BY <3>1
  <2>2. q * b = i * b + b + d * b /\ d * b \in Nat
    BY <2>1
  <2>. QED BY <1>1, <1>2, <1>3, <2>2
<1>6. CASE q < i
  <2>1. PICK d \in Nat : i = q + 1 + d
    <3>1. i - (q + 1) \in Nat /\ i = q + 1 + (i - (q + 1))
      BY <1>2, <1>6
    <3>. QED BY <3>1
  <2>2. i * b = q * b + b + d * b /\ d * b \in Nat
    BY <1>2, <2>1
  <2>. QED BY <1>1, <1>2, <1>3, <2>2
<1>. QED BY <1>2, <1>4, <1>5, <1>6

EntryOf(l) == CHOOSE n \in Nodes : n \in Entries(parent, next, l)

Definition ==
    /\ kind \in [Nodes -> Kinds] /\ Accepted(kind, parent, next)
    /\ next \in [Nodes -> Nodes \union {None}] /\ parent \in [Nodes -> Nodes \union {None}]

\* A loop is entered at a child, from which all its children are met.
LEMMA LoopEntry ==
    ASSUME Definition, NEW l \in Nodes, kind[l] = "loop"
    PROVE  /\ Children(parent, l) \in SUBSET Nodes /\ EntryOf(l) \in Children(parent, l)
           /\ Met(next, EntryOf(l)) = Children(parent, l)
           /\ Cardinality(Children(parent, l)) \in Nat \ {0}
<1>1. BodyIsChain(parent, next, l)
  BY DEF Definition, Accepted, Loops
<1>2. Children(parent, l) \in SUBSET Nodes /\ Entries(parent, next, l) \in SUBSET Nodes
  BY DEF Children, Entries
<1>3. Entries(parent, next, l) # {}
  BY <1>1, <1>2, Sizes, FS_EmptySet DEF BodyIsChain
<1>4. EntryOf(l) \in Entries(parent, next, l)
  BY <1>2, <1>3 DEF EntryOf
<1>5. EntryOf(l) \in Children(parent, l) /\ Met(next, EntryOf(l)) = Children(parent, l)
  BY <1>1, <1>4 DEF BodyIsChain, Entries
<1>6. Cardinality(Children(parent, l)) # 0
  BY <1>2, <1>5, Sizes, FS_EmptySet
<1>. QED BY <1>2, <1>5, <1>6, Sizes

\* A place in a round is within all the rounds.
LEMMA RoundPlace ==
    ASSUME NEW b \in Nat \ {0}, NEW i \in 0 .. Iterations - 1, NEW c \in 0 .. b - 1
    PROVE  i * b + c \in Nat /\ i * b + c + 1 \in 1 .. Iterations * b
<1>1. i \in Nat /\ i + 1 \in Nat /\ i + 1 <= Iterations /\ Iterations \in Nat /\ b \in Nat
  OBVIOUS
<1>2. (i + 1) * b <= Iterations * b /\ (i + 1) * b = i * b + b /\ i * b \in Nat
      /\ Iterations * b \in Nat
  BY <1>1, Times
<1> DEFINE x == i * b
           y == Iterations * b
           z == (i + 1) * b
<1> HIDE DEF x, y, z
<1>3. x + c + 1 <= y /\ x \in Nat /\ y \in Nat
  <2>1. z <= y /\ z = x + b /\ x \in Nat /\ y \in Nat
    BY <1>2 DEF x, y, z
  <2>. QED BY <2>1
<1>4. x + c \in Nat /\ x + c + 1 \in 1 .. y
  BY <1>3
<1>. QED BY <1>4 DEF x, y

\* The rounds of a loop repeat its chain.
LEMMA RoundsType ==
    ASSUME Definition, NEW l \in Nodes, kind[l] = "loop",
           NEW b, b = Cardinality(Children(parent, l))
    PROVE  /\ Rounds(l) \in Seq(Nodes) /\ Len(Rounds(l)) = Iterations * b
           /\ Iterations * b \in Nat /\ b \in Nat \ {0}
           /\ \A i \in 0 .. Iterations - 1, c \in 0 .. b - 1 :
                 Rounds(l)[i * b + c + 1] = Walk(next, EntryOf(l))[c]
<1> DEFINE chain == PathOf(EntryOf(l))
           k == Iterations * b
<1>1. b \in Nat \ {0} /\ k \in Nat /\ EntryOf(l) \in Nodes
  BY LoopEntry, Times
<1>2. /\ chain \in Seq(Nodes) /\ Len(chain) = b
      /\ \A i \in 1 .. b : chain[i] = Walk(next, EntryOf(l))[i - 1]
  BY <1>1, PathType, LoopEntry DEF Definition
<1>3. Rounds(l) = [i \in 1 .. Iterations * Len(chain) |-> chain[((i - 1) % Len(chain)) + 1]]
  BY DEF Rounds, EntryOf
<1> HIDE DEF chain, k
<1>4. Rounds(l) = [i \in 1 .. k |-> chain[((i - 1) % b) + 1]]
  BY <1>2, <1>3 DEF k
<1>5. ASSUME NEW i \in 1 .. k PROVE chain[((i - 1) % b) + 1] \in Nodes
  <2>1. i - 1 \in Nat /\ (i - 1) % b \in 0 .. b - 1
    BY <1>1
  <2>2. ((i - 1) % b) + 1 \in 1 .. b
    BY <1>1, <2>1
  <2>. QED BY <1>2, <2>2
<1>6. Rounds(l) \in Seq(Nodes) /\ Len(Rounds(l)) = k
  BY <1>1, <1>4, <1>5
<1>7. ASSUME NEW i \in 0 .. Iterations - 1, NEW c \in 0 .. b - 1
      PROVE  Rounds(l)[i * b + c + 1] = Walk(next, EntryOf(l))[c]
  <2> DEFINE x == i * b + c
  <2>1. x \in Nat /\ x + 1 \in 1 .. k /\ x % b = c
    <3>1. i \in Nat
      OBVIOUS
    <3>. QED BY <1>1, <3>1, RoundPlace, Remainder DEF k
  <2> HIDE DEF x
  <2>2. (x + 1) - 1 = x /\ c + 1 \in 1 .. b /\ (c + 1) - 1 = c
    BY <1>1, <2>1
  <2>3. Rounds(l)[x + 1] = chain[c + 1]
    BY <1>4, <2>1, <2>2
  <2>4. Rounds(l)[x + 1] = Walk(next, EntryOf(l))[c]
    BY <1>2, <2>2, <2>3
  <2>. QED BY <2>4 DEF x
<1>. QED BY <1>1, <1>6, <1>7 DEF k

\* The part of a node: the rounds of a loop, and the node.
LEMMA PartType ==
    ASSUME Definition, NEW n \in Nodes
    PROVE  /\ Part(n) \in Seq(Nodes)
           /\ kind[n] # "loop" => Len(Part(n)) = 1 /\ Part(n)[1] = n
           /\ kind[n] = "loop" =>
                 /\ Len(Part(n)) = Len(Rounds(n)) + 1 /\ Part(n)[Len(Rounds(n)) + 1] = n
                 /\ \A i \in 1 .. Len(Rounds(n)) : Part(n)[i] = Rounds(n)[i]
<1>1. CASE kind[n] = "loop"
  <2>1. Part(n) = Rounds(n) \o <<n>>
    BY <1>1 DEF Part
  <2>2. Rounds(n) \in Seq(Nodes) /\ <<n>> \in Seq(Nodes) /\ Len(<<n>>) = 1 /\ <<n>>[1] = n
    BY <1>1, RoundsType
  <2>3. /\ Rounds(n) \o <<n>> \in Seq(Nodes) /\ Len(Rounds(n) \o <<n>>) = Len(Rounds(n)) + 1
        /\ \A i \in 1 .. Len(Rounds(n)) : (Rounds(n) \o <<n>>)[i] = Rounds(n)[i]
        /\ (Rounds(n) \o <<n>>)[Len(Rounds(n)) + 1] = n
    BY <2>2
  <2>. QED BY <1>1, <2>1, <2>3
<1>2. CASE kind[n] # "loop"
  <2>1. Part(n) = <<>> \o <<n>>
    BY <1>2 DEF Part
  <2>2. Part(n) = <<n>>
    BY <2>1
  <2>. QED BY <1>2, <2>2
<1>. QED BY <1>1, <1>2

Track == Walk(next, Start)
Path == PathOf(Start)
Last == Cardinality(Met(next, Start))

LEMMA UpToDef ==
    ASSUME Definition
    PROVE  /\ Last \in Nat \ {0} /\ UpTo[0] = <<>>
           /\ \A i \in 0 .. Last : UpTo[i] \in Seq(Nodes)
           /\ \A i \in 1 .. Last : UpTo[i] = UpTo[i - 1] \o Part(Path[i])
<1> DEFINE T == Seq(Nodes)
           G == [i \in 1 .. Last |-> [s \in T |-> s \o Part(Path[i])]]
           IsUpTo(u) == u = [i \in 0 .. Len(Path) |->
                                IF i = 0 THEN <<>> ELSE u[i - 1] \o Part(Path[i])]
<1>1. Path \in Seq(Nodes) /\ Len(Path) = Last /\ Last \in Nat \ {0}
  <2>1. Path \in Seq(Nodes) /\ Len(Path) = Last
    BY PathType DEF Path, Last, Definition
  <2>2. Last \in 1 .. Cardinality(Nodes) /\ Cardinality(Nodes) \in Nat
    BY WalkNodes, Sizes DEF Last, Definition
  <2>. QED BY <2>1, <2>2
<1>2. \A i \in 1 .. Last : Path[i] \in Nodes /\ Part(Path[i]) \in T
  BY <1>1, PartType
<1>3. G \in Steps(Last, T) /\ <<>> \in T
  <2>1. \A i \in 1 .. Last : \A s \in T : s \o Part(Path[i]) \in T
    BY <1>2
  <2> HIDE DEF T
  <2>2. \A i \in 1 .. Last : [s \in T |-> s \o Part(Path[i])] \in [T -> T]
    BY <2>1
  <2>3. <<>> \in T
    BY DEF T
  <2>. QED BY <2>2, <2>3 DEF Steps
<1>4. PICK f : Unfolds(f, Last, T, <<>>, G)
  <2> HIDE DEF G, T
  <2>. QED BY <1>1, <1>3, Recursion
<1>5. f \in [0 .. Last -> T] /\ f[0] = <<>>
  BY <1>4 DEF Unfolds
<1>6. ASSUME NEW i \in 1 .. Last
      PROVE  f[i] = f[i - 1] \o Part(Path[i])
  <2>1. f[i - 1] \in T
    <3> HIDE DEF T
    <3>. QED BY <1>1, <1>5
  <2>2. f[i] = G[i][f[i - 1]]
    BY <1>4 DEF Unfolds
  <2>. QED BY <2>1, <2>2
<1> HIDE DEF T
<1>7. IsUpTo(f)
  <2>1. \A i \in 0 .. Last : f[i] = IF i = 0 THEN <<>> ELSE f[i - 1] \o Part(Path[i])
    <3>. SUFFICES ASSUME NEW i \in 0 .. Last
                  PROVE  f[i] = IF i = 0 THEN <<>> ELSE f[i - 1] \o Part(Path[i])
      OBVIOUS
    <3>1. CASE i = 0
      BY <1>5, <3>1
    <3>2. CASE i # 0
      <4>1. i \in 1 .. Last
        BY <1>1, <3>2
      <4>. QED BY <1>6, <3>2, <4>1
    <3>. QED BY <3>1, <3>2
  <2>2. f = [i \in 0 .. Last |-> f[i]] /\ Len(Path) = Last
    BY <1>1, <1>5
  <2>. QED BY <2>1, <2>2, Zenon
<1>8. UpTo = CHOOSE u : IsUpTo(u)
  BY DEF UpTo, Path
<1>9. IsUpTo(UpTo)
  <2> HIDE DEF IsUpTo
  <2>. QED BY <1>7, <1>8
<1>10. UpTo = [i \in 0 .. Last |-> IF i = 0 THEN <<>> ELSE UpTo[i - 1] \o Part(Path[i])]
  BY <1>1, <1>9
<1>11. \A i \in 0 .. Last : UpTo[i] = f[i]
  <2>1. DOMAIN UpTo = 0 .. Last /\ UpTo[0] = <<>>
    BY <1>1, <1>10
  <2>2. ASSUME NEW i \in 1 .. Last, UpTo[i - 1] \in T
        PROVE  UpTo[i] = G[i][UpTo[i - 1]]
    <3>1. UpTo[i] = UpTo[i - 1] \o Part(Path[i])
      BY <1>1, <1>10
    <3>. QED BY <2>2, <3>1
  <2> HIDE DEF G
  <2>. QED BY <1>1, <1>3, <1>4, <2>1, <2>2, Unique
<1>12. \A i \in 1 .. Last : UpTo[i] = UpTo[i - 1] \o Part(Path[i])
  BY <1>1, <1>10
<1>13. UpTo[0] = <<>> /\ \A i \in 0 .. Last : UpTo[i] \in T
  BY <1>1, <1>5, <1>11
<1>. QED BY <1>1, <1>12, <1>13 DEF T

\* What is expected up to a node is a beginning of what is expected.
LEMMA Beginning ==
    ASSUME Definition, NEW a \in 0 .. Last
    PROVE  /\ Len(UpTo[a]) \in Nat /\ Len(UpTo[a]) <= Len(Expected) /\ Expected \in Seq(Nodes)
           /\ \A i \in 1 .. Len(UpTo[a]) : Expected[i] = UpTo[a][i]
<1> DEFINE Begins(d) == /\ Len(UpTo[Last - d]) <= Len(Expected)
                        /\ \A i \in 1 .. Len(UpTo[Last - d]) : Expected[i] = UpTo[Last - d][i]
           S == {d \in 0 .. Last : Begins(d)}
<1>1. /\ Last \in Nat /\ Expected = UpTo[Last]
      /\ \A i \in 0 .. Last : UpTo[i] \in Seq(Nodes)
      /\ \A i \in 1 .. Last : UpTo[i] = UpTo[i - 1] \o Part(Path[i]) /\ Part(Path[i]) \in Seq(Nodes)
  <2>1. \A i \in 1 .. Last : Path[i] \in Nodes
    BY PathType, WalkNodes DEF Path, Last, Definition
  <2>. QED BY <2>1, UpToDef, PartType DEF Expected, Last
<1>2. 0 \in S
  BY <1>1
<1>3. ASSUME NEW d \in 1 .. Last, d - 1 \in S PROVE d \in S
  <2>1. PICK k \in 1 .. Last : k = Last - (d - 1) /\ k - 1 = Last - d /\ k - 1 \in 0 .. Last
    BY <1>1
  <2>2. Begins(d - 1)
    BY <1>3
  <2>3. /\ Len(UpTo[k]) <= Len(Expected)
        /\ \A i \in 1 .. Len(UpTo[k]) : Expected[i] = UpTo[k][i]
    BY <2>1, <2>2
  <2>4. PICK s \in Seq(Nodes) : s = UpTo[k - 1]
    BY <1>1, <2>1
  <2>5. PICK p \in Seq(Nodes) : p = Part(Path[k])
    BY <1>1
  <2>6. UpTo[k] = s \o p
    BY <1>1, <2>4, <2>5
  <2>7. Len(s \o p) = Len(s) + Len(p) /\ \A i \in 1 .. Len(s) : (s \o p)[i] = s[i]
    OBVIOUS
  <2>8. Len(s) <= Len(Expected) /\ \A i \in 1 .. Len(s) : Expected[i] = s[i]
    <3>1. Expected \in Seq(Nodes) /\ Len(Expected) \in Nat /\ Len(s) \in Nat /\ Len(p) \in Nat
      BY <1>1
    <3>. QED BY <2>3, <2>6, <2>7, <3>1
  <2>9. Begins(d)
    BY <2>1, <2>4, <2>8
  <2>. QED BY <2>9
<1> HIDE DEF S
<1>4. \A d \in 0 .. Last : d \in S
  BY <1>1, <1>2, <1>3, Stepwise
<1>5. Last - a \in 0 .. Last /\ Last - (Last - a) = a
  BY <1>1
<1>6. Begins(Last - a)
  BY <1>4, <1>5 DEF S
<1>. QED BY <1>1, <1>5, <1>6

\* The part of the next node on the path follows, and brings to the node after it.
LEMMA Continuation ==
    ASSUME Definition, NEW a \in 0 .. Last - 1
    PROVE  /\ Len(UpTo[a + 1]) = Len(UpTo[a]) + Len(Part(Track[a]))
           /\ Len(UpTo[a + 1]) <= Len(Expected)
           /\ Len(UpTo[a]) \in Nat /\ Len(Part(Track[a])) \in Nat
           /\ \A i \in 1 .. Len(Part(Track[a])) : Expected[Len(UpTo[a]) + i] = Part(Track[a])[i]
<1> DEFINE n == Track[a]
<1>1. Last \in Nat /\ a \in 0 .. Last /\ a + 1 \in 1 .. Last /\ (a + 1) - 1 = a
      /\ a + 1 \in 0 .. Last
  BY UpToDef
<1>2. Path[a + 1] = n /\ n \in Nodes
  BY <1>1, PathType, WalkNodes DEF Path, Last, Track, Definition
<1> HIDE DEF n
<1>3. UpTo[a + 1] = UpTo[a] \o Part(n)
  BY <1>1, <1>2, UpToDef
<1>4. PICK s \in Seq(Nodes) : s = UpTo[a]
  BY <1>1, UpToDef
<1>5. PICK p \in Seq(Nodes) : p = Part(n)
  BY <1>2, PartType
<1>6. /\ Len(s \o p) = Len(s) + Len(p) /\ Len(s) \in Nat /\ Len(p) \in Nat
      /\ \A i \in 1 .. Len(p) : (s \o p)[Len(s) + i] = p[i] /\ Len(s) + i \in 1 .. Len(s \o p)
  OBVIOUS
<1>7. /\ Len(s \o p) <= Len(Expected)
      /\ \A i \in 1 .. Len(s \o p) : Expected[i] = (s \o p)[i]
  <2>1. /\ Len(UpTo[a + 1]) <= Len(Expected)
        /\ \A i \in 1 .. Len(UpTo[a + 1]) : Expected[i] = UpTo[a + 1][i]
    BY <1>1, Beginning
  <2>2. UpTo[a + 1] = s \o p
    BY <1>3, <1>4, <1>5
  <2>. QED BY <2>1, <2>2
<1>. QED BY <1>3, <1>4, <1>5, <1>6, <1>7 DEF n

----------------------------------------------------------------------------
(* Where the schedule is in the expected order                             *)

Chain == Walk(next, Entry)

\* The nodes before the current one, and what is expected before it.
Behind == IF pc = "step" \/ ended = "cycle" THEN visited ELSE visited \ {current}
Base   == Len(UpTo[Cardinality(Behind)])
Round  == Base + iteration * Cardinality(Body)

OnTrack ==
    /\ Cardinality(Behind) \in 0 .. Cardinality(Nodes)
    /\ current = Track[Cardinality(Behind)]
    /\ Behind = {Track[i] : i \in 0 .. Cardinality(Behind) - 1}

\* R has run in this round, and child is the next of the chain.
OnChain(R) ==
    /\ Ran(R) /\ child = Chain[Cardinality(R)]
    /\ R = {Chain[i] : i \in 0 .. Cardinality(R) - 1}

\* The first n of the expected nodes have succeeded, and nothing else has been reported ...
Clean(n) ==
    /\ n \in 0 .. Len(Expected) /\ Len(events) = n
    /\ \A i \in 1 .. n : events[i] = [node |-> Expected[i], outcome |-> "success"]

\* ... or the failure of the next of them.
Broken(n) ==
    /\ n \in 0 .. Len(Expected) - 1 /\ Len(events) = n + 1
    /\ \A i \in 1 .. n : events[i] = [node |-> Expected[i], outcome |-> "success"]
    /\ events[n + 1] = [node |-> Expected[n + 1], outcome |-> result]

Fails == \E n \in 0 .. Len(events) : Follows(Expected, n)

OnTime ==
    /\ child = None /\ pc \in {"begin"} \union Running => kind[current] # "loop"
    /\ pc \in {"step", "loop"} => Clean(Base)
    /\ child = None /\ pc \in {"begin", "refuse"} \union Running => Clean(Base)
    /\ pc = "iteration" => Clean(Round)
    /\ child # None /\ pc \in {"child", "begin", "refuse"} \union Running =>
          \E R \in SUBSET Body : OnChain(R) /\ Clean(Round + Cardinality(R))
    /\ pc = "afterChild" =>
          \E R \in SUBSET Body : /\ OnChain(R)
                                 /\ IF result = "success"
                                    THEN Clean(Round + Cardinality(R) + 1)
                                    ELSE Broken(Round + Cardinality(R))
    /\ pc = "loopEnd" /\ result = "success" => Clean(Base + Iterations * Cardinality(Body))
    /\ pc = "loopEnd" /\ result # "success" =>
          \E n \in 0 .. Len(Expected) - 1 : /\ Clean(n) \/ Broken(n)
                                            /\ parent[Expected[n + 1]] = current
    /\ pc = "after" /\ result = "success" => Clean(Len(UpTo[Cardinality(visited)]))
    /\ pc = "after" /\ result # "success" => Fails
    /\ pc = "done" => RunsAsWritten

LEMMA DefinitionHolds == SchedulerInv => Definition
  BY DEF SchedulerInv, TypeOK, Placed, Definition

\* The current node, unless it is met again, is the next on the path.
LEMMA Here ==
    ASSUME SchedulerInv, OnTrack, current \notin Behind
    PROVE  /\ Cardinality(Behind) \in 0 .. Last - 1
           /\ Behind \union {current} = Stretch(next, Start, Cardinality(Behind) + 1)
           /\ Cardinality(Behind \union {current}) = Cardinality(Behind) + 1
           /\ Cardinality(Behind) + 1 \in 1 .. Cardinality(Nodes)
<1> DEFINE j == Cardinality(Behind)
           V == Behind \union {current}
<1>1. Behind \in SUBSET Nodes /\ current \in Nodes /\ V \in SUBSET Nodes
  BY DEF SchedulerInv, TypeOK, Behind
<1>2. Cardinality(V) = j + 1
  BY <1>1, Sizes, FS_AddElement
<1>3. j \in Nat /\ Cardinality(V) <= Cardinality(Nodes) /\ Cardinality(Nodes) \in Nat
  BY <1>1, Sizes
<1> HIDE DEF j, V
<1>4. j + 1 \in 1 .. Cardinality(Nodes)
  BY <1>2, <1>3
<1>5. V = Stretch(next, Start, j + 1)
  <2>1. current = Track[j] /\ Behind = {Track[i] : i \in 0 .. j - 1}
    BY DEF OnTrack, j
  <2>2. Stretch(next, Start, j + 1) = {Track[i] : i \in 0 .. (j + 1) - 1}
    BY DEF Stretch, Track
  <2>3. 0 .. (j + 1) - 1 = (0 .. j - 1) \union {j}
    BY <1>3
  <2>. QED BY <2>1, <2>2, <2>3 DEF V
<1>6. V \subseteq Met(next, Start)
  BY <1>1, <1>4, <1>5, StretchMet, DefinitionHolds DEF Definition
<1>7. Cardinality(V) <= Last /\ Last \in Nat
  <2>1. Met(next, Start) \in SUBSET Nodes /\ IsFiniteSet(Met(next, Start))
    BY Sizes DEF Met
  <2>. QED BY <1>6, <2>1, FS_Subset, Sizes DEF Last
<1>8. j \in 0 .. Last - 1
  BY <1>2, <1>3, <1>7
<1>. QED BY <1>2, <1>4, <1>5, <1>8 DEF j, V

\* What is expected from here is the part of the current node ...
LEMMA Ahead ==
    ASSUME SchedulerInv, OnTrack, current \notin Behind
    PROVE  /\ Base \in Nat /\ Len(Part(current)) \in Nat
           /\ Base + Len(Part(current)) <= Len(Expected)
           /\ Len(UpTo[Cardinality(Behind) + 1]) = Base + Len(Part(current))
           /\ \A i \in 1 .. Len(Part(current)) : Expected[Base + i] = Part(current)[i]
<1>1. Definition
  BY DefinitionHolds
<1>2. PICK j \in 0 .. Last - 1 : j = Cardinality(Behind) /\ current = Track[j]
  BY Here DEF OnTrack
<1>3. /\ Len(UpTo[j + 1]) = Len(UpTo[j]) + Len(Part(Track[j]))
      /\ Len(UpTo[j + 1]) <= Len(Expected)
      /\ Len(UpTo[j]) \in Nat /\ Len(Part(Track[j])) \in Nat
      /\ \A i \in 1 .. Len(Part(Track[j])) : Expected[Len(UpTo[j]) + i] = Part(Track[j])[i]
  BY <1>1, Continuation
<1>4. Base = Len(UpTo[j])
  BY <1>2 DEF Base
<1>. QED BY <1>2, <1>3, <1>4

\* ... which is the node ...
LEMMA NodeOrder ==
    ASSUME SchedulerInv, OnTrack, current \notin Behind, kind[current] # "loop"
    PROVE  /\ Base \in 0 .. Len(Expected) - 1 /\ Expected[Base + 1] = current
           /\ Len(UpTo[Cardinality(Behind) + 1]) = Base + 1
<1>1. Len(Part(current)) = 1 /\ Part(current)[1] = current
  BY DefinitionHolds, PartType DEF SchedulerInv, TypeOK
<1>2. Base + 1 <= Len(Expected) /\ Base \in Nat /\ Len(Expected) \in Nat
  BY <1>1, Ahead, DefinitionHolds, UpToDef, Beginning
<1>. QED BY <1>1, <1>2, Ahead

\* ... or the rounds of the loop, and the loop.
LEMMA LoopOrder ==
    ASSUME SchedulerInv, OnTrack, current \notin Behind, kind[current] = "loop"
    PROVE  LET b == Cardinality(Body)
               k == Iterations * b
           IN
           /\ Base \in Nat /\ b \in Nat \ {0} /\ k \in Nat
           /\ Base + k + 1 <= Len(Expected) /\ Expected[Base + k + 1] = current
           /\ Len(UpTo[Cardinality(Behind) + 1]) = Base + k + 1
           /\ \A i \in 0 .. Iterations - 1, c \in 0 .. b - 1 :
                 /\ i * b + c \in Nat /\ i * b + c + 1 <= k
                 /\ Expected[Base + (i * b + c) + 1] = Chain[c]
<1> DEFINE b == Cardinality(Body)
           k == Iterations * b
           j == Cardinality(Behind)
           p == Len(Part(current))
<1>1. Definition /\ current \in Nodes
  BY DefinitionHolds DEF SchedulerInv, TypeOK
<1>2. /\ Base \in Nat /\ Base + p <= Len(Expected) /\ Len(UpTo[j + 1]) = Base + p
      /\ \A i \in 1 .. p : Expected[Base + i] = Part(current)[i]
  BY Ahead
<1>3. /\ Len(Rounds(current)) = k /\ k \in Nat /\ b \in Nat \ {0}
      /\ \A i \in 0 .. Iterations - 1, c \in 0 .. b - 1 : Rounds(current)[i * b + c + 1] = Chain[c]
  <2>1. Body = Children(parent, current) /\ Chain = Walk(next, EntryOf(current))
    BY DEF Body, Chain, Entry, EntryOf
  <2>. QED BY <1>1, <2>1, RoundsType
<1>4. /\ p = k + 1 /\ Part(current)[k + 1] = current
      /\ \A i \in 1 .. k : Part(current)[i] = Rounds(current)[i]
  BY <1>1, <1>3, PartType
<1> HIDE DEF b, k, j, p
<1>5. k + 1 \in 1 .. p /\ Base + (k + 1) = Base + k + 1
  BY <1>2, <1>3, <1>4
<1>6. Expected[Base + k + 1] = current
  <2>1. Expected[Base + (k + 1)] = Part(current)[k + 1]
    BY <1>2, <1>5
  <2>. QED BY <1>4, <1>5, <2>1
<1>7. ASSUME NEW i \in 0 .. Iterations - 1, NEW c \in 0 .. b - 1
      PROVE  /\ i * b + c \in Nat /\ i * b + c + 1 <= k
             /\ Expected[Base + (i * b + c) + 1] = Chain[c]
  <2> DEFINE x == i * b + c
  <2>1. x \in Nat /\ x + 1 \in 1 .. k /\ Rounds(current)[x + 1] = Chain[c]
    BY <1>3, RoundPlace DEF k
  <2> HIDE DEF x
  <2>2. x + 1 \in 1 .. p /\ Base + (x + 1) = Base + x + 1 /\ x + 1 <= k
    BY <1>2, <1>3, <1>4, <2>1
  <2>3. Expected[Base + (x + 1)] = Chain[c]
    BY <1>2, <1>4, <2>1, <2>2
  <2>. QED BY <2>1, <2>2, <2>3 DEF x
<1>8. Base + k + 1 <= Len(Expected) /\ Len(UpTo[j + 1]) = Base + k + 1
  BY <1>2, <1>4, <1>5
<1>. QED BY <1>2, <1>3, <1>6, <1>7, <1>8 DEF b, k, j

\* The child at hand is the next of the expected nodes.
LEMMA ChildOrder ==
    ASSUME SchedulerInv, OnTrack, current \notin Behind, child # None,
           NEW R \in SUBSET Body, OnChain(R)
    PROVE  /\ Round + Cardinality(R) \in 0 .. Len(Expected) - 1
           /\ Expected[Round + Cardinality(R) + 1] = child
           /\ Cardinality(R) \in Nat /\ Cardinality(R) + 1 <= Cardinality(Body)
           /\ Cardinality(Body) \in Nat /\ Round \in Nat /\ parent[child] = current
<1> DEFINE b == Cardinality(Body)
           k == Iterations * b
           c == Cardinality(R)
<1>1. /\ kind[current] = "loop" /\ child \in Body /\ iteration \in 0 .. Iterations - 1
      /\ Body \in SUBSET Nodes /\ R \in SUBSET Nodes /\ child \notin R
  BY DEF SchedulerInv, TypeOK, Placed, Body, Children, OnChain, Ran
<1>2. Cardinality(R \union {child}) = c + 1 /\ R \union {child} \in SUBSET Body /\ c \in Nat
      /\ b \in Nat /\ IsFiniteSet(Body)
  BY <1>1, Sizes, FS_AddElement
<1>3. c + 1 <= b
  BY <1>2, FS_Subset
<1>4. c \in 0 .. b - 1
  <2> HIDE DEF b, c
  <2>. QED BY <1>2, <1>3
<1>5. /\ Base \in Nat /\ k \in Nat /\ Base + k + 1 <= Len(Expected)
      /\ iteration * b + c \in Nat /\ iteration * b + c + 1 <= k
      /\ Expected[Base + (iteration * b + c) + 1] = Chain[c]
  <2> HIDE DEF c
  <2>. QED BY <1>1, <1>4, LoopOrder
<1>6. Len(Expected) \in Nat
  BY DefinitionHolds, UpToDef, Beginning
<1>7. iteration * b \in Nat /\ Round = Base + iteration * b
  BY <1>1, <1>2, Times DEF Round
<1>8. parent[child] = current /\ child = Chain[c]
  BY <1>1 DEF Body, Children, OnChain
<1> DEFINE x == iteration * b
<1>9. /\ x \in Nat /\ x + c + 1 <= k /\ Round = Base + x /\ c \in Nat /\ Base \in Nat
      /\ k \in Nat /\ Base + k + 1 <= Len(Expected)
  BY <1>2, <1>5, <1>7
<1> HIDE DEF b, k, c, x
<1>10. /\ Base + (x + c) + 1 = Round + c + 1 /\ Round + c \in 0 .. Len(Expected) - 1 /\ Round \in Nat
  BY <1>6, <1>9
<1>11. Expected[Round + c + 1] = child
  BY <1>5, <1>8, <1>10 DEF x
<1>. QED BY <1>2, <1>3, <1>8, <1>10, <1>11 DEF b, c

----------------------------------------------------------------------------
(* What the reports amount to                                              *)

LEMMA ExpectedType == SchedulerInv => Expected \in Seq(Nodes) /\ Len(Expected) \in Nat
<1>. SUFFICES ASSUME SchedulerInv PROVE Expected \in Seq(Nodes)
  OBVIOUS
<1>1. Definition
  BY DefinitionHolds
<1>2. 0 \in 0 .. Last
  BY <1>1, UpToDef
<1>. QED BY <1>1, <1>2, Beginning

LEMMA SameExpected ==
    ASSUME UNCHANGED definition
    PROVE  /\ Expected' = Expected /\ UpTo' = UpTo /\ Track' = Track
<1>1. UpTo' = UpTo
  BY DEF UpTo, Part, Rounds, PathOf
<1>. QED BY <1>1 DEF Expected, Track

LEMMA SameReports ==
    ASSUME UNCHANGED definition, events' = events, NEW n
    PROVE  /\ Clean(n)' <=> Clean(n)
           /\ result' = result => (Broken(n)' <=> Broken(n))
           /\ Follows(Expected, n)' <=> Follows(Expected, n)
  BY SameExpected DEF Clean, Broken, Follows

LEMMA CleanFollows ==
    ASSUME SchedulerInv, NEW n, Clean(n)
    PROVE  n \in 0 .. Len(events) /\ Follows(Expected, n)
<1>1. n \in Nat /\ n <= Len(Expected) /\ Len(events) = n
  BY ExpectedType DEF Clean
<1>. QED BY <1>1 DEF Clean, Follows

LEMMA BrokenFollows ==
    ASSUME SchedulerInv, NEW n, Broken(n), result # "success"
    PROVE  n \in 0 .. Len(events) /\ Follows(Expected, n)
<1>1. n \in Nat /\ n < Len(Expected) /\ Len(events) = n + 1
  BY ExpectedType DEF Broken
<1>. QED BY <1>1 DEF Broken, Follows

\* One report more.
LEMMA NextReport ==
    ASSUME SchedulerInv, UNCHANGED definition, NEW n, Clean(n), n < Len(Expected),
           NEW x, NEW o, events' = Append(events, [node |-> x, outcome |-> o])
    PROVE  /\ o = "success" /\ x = Expected[n + 1] => Clean(n + 1)'
           /\ o = result' /\ x = Expected[n + 1] => Broken(n)'
           /\ o # "success" /\ x \in {Expected[n + 1], parent[Expected[n + 1]]} =>
                 n \in 0 .. Len(events') /\ Follows(Expected, n)'
<1> DEFINE e == [node |-> x, outcome |-> o]
<1>1. n \in 0 .. Len(Expected) - 1 /\ n \in Nat /\ Len(Expected) \in Nat
  BY ExpectedType DEF Clean
<1>2. /\ Len(events') = n + 1 /\ events'[n + 1] = e
      /\ \A i \in 1 .. n : events'[i] = [node |-> Expected[i], outcome |-> "success"]
  <2>1. Len(events) = n /\ \A i \in 1 .. n : events[i] = [node |-> Expected[i], outcome |-> "success"]
    BY DEF Clean
  <2>2. events \in Seq([node : Nodes, outcome : Results])
    BY DEF SchedulerInv, TypeOK
  <2> HIDE DEF e
  <2>3. /\ Len(Append(events, e)) = n + 1 /\ Append(events, e)[n + 1] = e
        /\ \A i \in 1 .. n : Append(events, e)[i] = events[i]
    BY <1>1, <2>1, <2>2
  <2>. QED BY <2>1, <2>3 DEF e
<1>3. e.node = x /\ e.outcome = o
  OBVIOUS
<1>4. Expected' = Expected /\ parent' = parent
  BY SameExpected
<1>5. ASSUME o = "success", x = Expected[n + 1] PROVE Clean(n + 1)'
  <2>1. \A i \in 1 .. n + 1 : events'[i] = [node |-> Expected[i], outcome |-> "success"]
    <3>1. events'[n + 1] = [node |-> Expected[n + 1], outcome |-> "success"]
      BY <1>2, <1>5
    <3> HIDE DEF e
    <3>. QED BY <1>1, <1>2, <3>1
  <2>2. n + 1 \in 0 .. Len(Expected)
    BY <1>1
  <2>. QED BY <1>2, <1>4, <2>1, <2>2 DEF Clean
<1>6. o = result' /\ x = Expected[n + 1] => Broken(n)'
  BY <1>1, <1>2, <1>4 DEF Broken
<1> HIDE DEF e
<1>7. ASSUME o # "success", x \in {Expected[n + 1], parent[Expected[n + 1]]}
      PROVE  n \in 0 .. Len(events') /\ Follows(Expected, n)'
  <2>1. n <= Len(Expected) /\ n < Len(Expected) /\ Len(events') > n /\ ~(Len(events') > n + 1)
        /\ n \in 0 .. Len(events')
    BY <1>1, <1>2
  <2>2. events'[n + 1].node = x /\ events'[n + 1].outcome = o
    BY <1>2, <1>3
  <2>. QED BY <1>2, <1>4, <1>7, <2>1, <2>2 DEF Follows
<1>. QED BY <1>5, <1>6, <1>7

\* The loop around a child that failed is reported after it.
LEMMA LoopReport ==
    ASSUME SchedulerInv, UNCHANGED <<definition, result>>, NEW n, Broken(n), result # "success",
           parent[Expected[n + 1]] = current,
           events' = Append(events, [node |-> current, outcome |-> result])
    PROVE  n \in 0 .. Len(events') /\ Follows(Expected, n)'
<1> DEFINE e == [node |-> current, outcome |-> result]
<1>1. n \in 0 .. Len(Expected) - 1 /\ n \in Nat /\ Len(Expected) \in Nat
  BY ExpectedType DEF Broken
<1>2. /\ Len(events) = n + 1 /\ events[n + 1] = [node |-> Expected[n + 1], outcome |-> result]
      /\ \A i \in 1 .. n : events[i] = [node |-> Expected[i], outcome |-> "success"]
      /\ events \in Seq([node : Nodes, outcome : Results])
  BY DEF Broken, SchedulerInv, TypeOK
<1> HIDE DEF e
<1>3. /\ Len(Append(events, e)) = n + 2 /\ Append(events, e)[n + 2] = e
      /\ \A i \in 1 .. n + 1 : Append(events, e)[i] = events[i]
  BY <1>1, <1>2
<1>4. events' = Append(events, e)
  BY DEF e
<1>5. /\ Len(events') = n + 2 /\ events'[n + 2] = e
      /\ \A i \in 1 .. n : events'[i] = [node |-> Expected[i], outcome |-> "success"]
      /\ events'[n + 1] = [node |-> Expected[n + 1], outcome |-> result]
  <2>1. n + 1 \in 1 .. n + 1 /\ \A i \in 1 .. n : i \in 1 .. n + 1
    BY <1>1
  <2>. QED BY <1>2, <1>3, <1>4, <2>1
<1>6. /\ events'[n + 1].node = Expected[n + 1] /\ events'[n + 1].outcome = result
      /\ events'[n + 2] = [node |-> parent[events'[n + 1].node], outcome |-> events'[n + 1].outcome]
  <2>1. /\ [node |-> Expected[n + 1], outcome |-> result].node = Expected[n + 1]
        /\ [node |-> Expected[n + 1], outcome |-> result].outcome = result
    OBVIOUS
  <2>2. events'[n + 1].node = Expected[n + 1] /\ events'[n + 1].outcome = result
    BY <1>5, <2>1, Zenon
  <2>. QED BY <1>5, <2>2 DEF e
<1>7. Expected' = Expected /\ parent' = parent
  BY SameExpected
<1>8. n <= Len(Expected) /\ n < Len(Expected) /\ n \in 0 .. Len(events')
  BY <1>1, <1>5
<1>. QED BY <1>5, <1>6, <1>7, <1>8 DEF Follows

----------------------------------------------------------------------------
(* Every step keeps to the order                                           *)

OrderInv == OnTrack /\ OnTime

\* A step that is not the head of the while loop, nor leads to it.
LEMMA SameBehind ==
    ASSUME SchedulerInv, OnTrack, UNCHANGED <<definition, current, visited>>,
           \/ pc # "step" /\ pc' # "step" /\ ended = "no" /\ ended' # "cycle"
           \/ UNCHANGED <<pc, ended>>
    PROVE  Behind' = Behind /\ Base' = Base /\ OnTrack'
<1>1. Behind' = Behind
  BY DEF Behind
<1>. QED BY <1>1, SameExpected DEF Base, OnTrack

LEMMA AtWork ==
    ASSUME SchedulerInv, ended = "no", pc # "step"
    PROVE  Behind = visited \ {current} /\ current \in visited /\ current \notin Behind
           /\ visited = Behind \union {current}
  BY DEF SchedulerInv, Placed, Behind

\* And neither is the child another one.
LEMMA SameRound ==
    ASSUME UNCHANGED <<definition, position, visited>>, Base' = Base
    PROVE  Round' = Round /\ Body' = Body /\ \A R : OnChain(R)' <=> OnChain(R)
<1>1. Body' = Body /\ Entry' = Entry
  BY SameLoop
<1>2. Chain' = Chain
  BY <1>1 DEF Chain
<1>. QED BY <1>1, <1>2, SamePlace DEF Round, OnChain

LEMMA OrderInit == Init => OrderInv
<1> SUFFICES ASSUME Init PROVE OrderInv
  OBVIOUS
<1>1. SchedulerInv /\ Definition
  BY InitInv, DefinitionHolds
<1>2. Behind = {} /\ Cardinality({}) = 0 /\ current = Start /\ Cardinality(Nodes) \in Nat
  BY FS_EmptySet, Sizes DEF Init, Behind
<1>3. OnTrack
  <2>1. Track[0] = Start
    BY <1>1, WalkDef DEF Track, Definition
  <2>2. {Track[i] : i \in 0 .. 0 - 1} = {}
    OBVIOUS
  <2>. QED BY <1>2, <2>1, <2>2 DEF OnTrack
<1>4. Clean(Base)
  <2>1. Base = 0
    BY <1>1, <1>2, UpToDef DEF Base
  <2>. QED BY <1>1, <2>1, ExpectedType DEF Init, Clean
<1>5. OnTime
  BY <1>4 DEF Init, OnTime, Running
<1>. QED BY <1>3, <1>5 DEF OrderInv

LEMMA CheckStepOrder == SchedulerInv /\ OrderInv /\ CheckStep => OrderInv'
<1> SUFFICES ASSUME SchedulerInv, OrderInv, CheckStep PROVE OrderInv'
  OBVIOUS
<1>1. ~OutOfSteps
  BY NeverOut DEF CheckStep
<1>2. /\ UNCHANGED <<definition, position, events, result>> /\ pc = "step" /\ child = None
      /\ \/ pc' = "done" /\ ended' = "cycle" /\ visited' = visited
         \/ /\ pc' \in {"refuse", "loop", "begin"} /\ ended' = "no" /\ current \notin visited
            /\ visited' = visited \union {current}
            /\ pc' = "begin" => kind[current] # "loop"
  BY <1>1 DEF CheckStep, End, SchedulerInv, Placed
<1>3. Behind' = Behind /\ Base' = Base
  <2>1. Behind' = Behind
    BY <1>2 DEF Behind
  <2>. QED BY <1>2, <2>1, SameExpected DEF Base
<1>4. OnTrack'
  BY <1>2, <1>3, SameExpected DEF OrderInv, OnTrack
<1>5. PICK n : n = Base
  OBVIOUS
<1>6. Clean(n)' /\ Clean(n)
  BY <1>2, <1>5, SameReports DEF OrderInv, OnTime
<1>7. CASE pc' = "done"
  <2>1. Follows(Expected, n)' /\ n \in 0 .. Len(events')
    BY <1>2, <1>6, CleanFollows, SameReports
  <2>2. RunsAsWritten'
    BY <1>2, <1>7, <2>1 DEF RunsAsWritten
  <2>. QED BY <1>2, <1>4, <1>7, <2>2 DEF OrderInv, OnTime, Running
<1>8. CASE pc' # "done"
  BY <1>2, <1>3, <1>4, <1>5, <1>6, <1>8 DEF OrderInv, OnTime, Running
<1>. QED BY <1>7, <1>8

\* The steps of a node before it is recorded.
LEMMA NodeOrderStep ==
    /\ SchedulerInv /\ OrderInv
    /\ Begin \/ CheckChild \/ RunEnd \/ RunTimer \/ CheckAgain \/ RunNode
    => OrderInv'
<1> SUFFICES ASSUME SchedulerInv, OrderInv,
                    Begin \/ CheckChild \/ RunEnd \/ RunTimer \/ CheckAgain \/ RunNode
             PROVE  OrderInv'
  OBVIOUS
<1>1. /\ UNCHANGED <<definition, position, visited, events>> /\ ended' = "no" /\ ended = "no"
      /\ pc \in {"child", "begin"} \union Running
      /\ pc' \in {"begin", "refuse"} \union Running
      /\ pc = "child" => child # None
  <2>1. CASE Begin
    <3>1. ~OutOfSteps
      BY <2>1, NeverOut DEF Begin
    <3>2. kind[At] \in {"worker", "timer", "end"}
      BY <2>1 DEF Begin, At, SchedulerInv, TypeOK, Placed, Kinds, Body, Children, ChildrenAreSteps
    <3>. QED BY <2>1, <3>1, <3>2 DEF Begin, SchedulerInv, Placed, Running
  <2>2. CASE CheckChild \/ RunEnd \/ RunTimer \/ CheckAgain \/ RunNode
    BY <2>2 DEF CheckChild, RunEnd, RunTimer, CheckAgain, RunNode, SchedulerInv, Placed, Running
  <2>. QED BY <2>1, <2>2
<1>2. Base' = Base /\ OnTrack'
  BY <1>1, SameBehind DEF OrderInv, Running
<1>3. Round' = Round /\ Body' = Body /\ \A R : OnChain(R)' <=> OnChain(R)
  BY <1>1, <1>2, SameRound
<1>4. CASE child = None
  <2>1. PICK n : n = Base
    OBVIOUS
  <2>2. Clean(n)'
    BY <1>1, <1>4, <2>1, SameReports DEF OrderInv, OnTime
  <2>. QED BY <1>1, <1>2, <1>4, <2>1, <2>2 DEF OrderInv, OnTime, Running
<1>5. CASE child # None
  <2>0. PICK R \in SUBSET Body : OnChain(R) /\ Clean(Round + Cardinality(R))
    BY <1>1, <1>5 DEF OrderInv, OnTime
  <2>1. PICK n : /\ R \in SUBSET Body /\ OnChain(R)
                 /\ Clean(n) /\ n = Round + Cardinality(R)
    BY <2>0
  <2>2. Clean(n)' /\ OnChain(R)' /\ n = Round' + Cardinality(R) /\ R \in SUBSET Body'
    BY <1>1, <1>3, <2>1, SameReports
  <2>3. Clean(Round + Cardinality(R))'
    BY <2>2
  <2>. QED BY <1>1, <1>2, <1>5, <2>2, <2>3 DEF OrderInv, OnTime, Running
<1>. QED BY <1>4, <1>5

LEMMA RecordOrder == SchedulerInv /\ OrderInv /\ Record => OrderInv'
<1> SUFFICES ASSUME SchedulerInv, OrderInv, Record PROVE OrderInv'
  OBVIOUS
<1>1. /\ UNCHANGED <<definition, position, visited, ended>> /\ ended = "no" /\ pc = "record"
      /\ pc' = IF child = None THEN "after" ELSE "afterChild"
      /\ events' = Append(events, [node |-> At, outcome |-> result'])
  BY DEF Record, Report, SchedulerInv, Placed
<1>2. Base' = Base /\ OnTrack'
  BY <1>1, SameBehind DEF OrderInv
<1>3. Behind = visited \ {current} /\ current \notin Behind /\ visited = Behind \union {current}
  BY <1>1, AtWork
<1>4. CASE child = None
  <2>1. kind[current] # "loop" /\ Clean(Base) /\ At = current
    BY <1>1, <1>4 DEF OrderInv, OnTime, Running, At
  <2>2. PICK n : n = Base
    OBVIOUS
  <2>3. n < Len(Expected) /\ Expected[n + 1] = current /\ Len(UpTo[Cardinality(visited)]) = n + 1
    <3>1. /\ Base \in 0 .. Len(Expected) - 1 /\ Expected[Base + 1] = current
          /\ Len(UpTo[Cardinality(Behind) + 1]) = Base + 1
      BY <1>3, <2>1, NodeOrder DEF OrderInv
    <3>2. Cardinality(visited) = Cardinality(Behind) + 1
      BY <1>3, Here DEF OrderInv
    <3>3. Base < Len(Expected)
      BY <3>1, ExpectedType
    <3>. QED BY <2>2, <3>1, <3>2, <3>3
  <2>4. /\ result' = "success" => Clean(n + 1)'
        /\ result' # "success" => n \in 0 .. Len(events') /\ Follows(Expected, n)'
    BY <1>1, <2>1, <2>2, <2>3, NextReport
  <2>5. Len(UpTo[Cardinality(visited)])' = n + 1
    BY <1>1, <2>3, SameExpected
  <2>6. result' = "success" => Clean(Len(UpTo[Cardinality(visited)]))'
    BY <2>4, <2>5
  <2>7. result' # "success" => Fails'
    BY <2>4 DEF Fails
  <2>. QED BY <1>1, <1>2, <1>4, <2>6, <2>7 DEF OrderInv, OnTime, Running
<1>5. CASE child # None
  <2>0. PICK R \in SUBSET Body : OnChain(R) /\ Clean(Round + Cardinality(R))
    BY <1>1, <1>5 DEF OrderInv, OnTime, Running
  <2>1. PICK n : /\ R \in SUBSET Body /\ OnChain(R)
                 /\ Clean(n) /\ n = Round + Cardinality(R)
    BY <2>0
  <2>2. n < Len(Expected) /\ Expected[n + 1] = child /\ At = child
    BY <1>3, <1>5, <2>1, ChildOrder, ExpectedType DEF OrderInv, At
  <2>3. /\ result' = "success" => Clean(n + 1)'
        /\ result' # "success" => Broken(n)'
    BY <1>1, <2>1, <2>2, NextReport
  <2>4. OnChain(R)' /\ n = Round' + Cardinality(R) /\ R \in SUBSET Body'
    BY <1>1, <1>2, <2>1, SameRound
  <2>5. /\ result' = "success" => Clean(Round + Cardinality(R) + 1)'
        /\ result' # "success" => Broken(Round + Cardinality(R))'
    BY <2>3, <2>4
  <2>6. pc' = "afterChild" /\ child' # None
    BY <1>1, <1>5
  <2>. QED BY <1>2, <2>4, <2>5, <2>6 DEF OrderInv, OnTime, Running
<1>. QED BY <1>4, <1>5

\* The entry of the loop is the next that is expected when a round begins.
LEMMA RoundBegins ==
    ASSUME SchedulerInv, OnTrack, ended = "no", kind[current] = "loop",
           pc \notin {"step", "done"}, iteration < Iterations
    PROVE  /\ Expected[Round + 1] = Entry /\ Round \in 0 .. Len(Expected) - 1
           /\ parent[Entry] = current /\ Chain[0] = Entry /\ Entry \in Body
<1> DEFINE b == Cardinality(Body)
           k == Iterations * b
           x == iteration * b
<1>1. current \notin Behind
  BY AtWork
<1>2. iteration \in 0 .. Iterations - 1 /\ iteration \in Nat
  BY DEF SchedulerInv, TypeOK
<1>3. b \in Nat \ {0} /\ 0 \in 0 .. b - 1
  BY <1>1, LoopOrder
<1>4. /\ Base \in Nat /\ k \in Nat /\ Base + k + 1 <= Len(Expected)
      /\ x + 0 \in Nat /\ x + 0 + 1 <= k /\ Expected[Base + (x + 0) + 1] = Chain[0]
  BY <1>1, <1>2, <1>3, LoopOrder
<1>5. x \in Nat /\ Round = Base + x
  BY <1>2, <1>3, Times DEF Round
<1> HIDE DEF b, k, x
<1>6. x + 0 = x /\ Round \in 0 .. Len(Expected) - 1
  BY <1>4, <1>5, ExpectedType
<1>7. Entry \in Body /\ Entry \in Nodes /\ parent[Entry] = current
  BY ChainEnds DEF SchedulerInv, Body, Children
<1>8. Chain[0] = Entry
  BY <1>7, DefinitionHolds, WalkDef DEF Chain, Definition
<1>9. Expected[Round + 1] = Entry
  BY <1>4, <1>5, <1>6, <1>8
<1>. QED BY <1>6, <1>7, <1>8, <1>9

LEMMA RefuseOrder == SchedulerInv /\ OrderInv /\ Refuse => OrderInv'
<1> SUFFICES ASSUME SchedulerInv, OrderInv, Refuse PROVE OrderInv'
  OBVIOUS
<1>1. ~OutOfSteps
  BY NeverOut DEF Refuse
<1>2. /\ UNCHANGED <<definition, current, iteration, visited>> /\ ended = "no" /\ pc = "refuse"
      /\ result' = "cancelled" /\ child' = None
      /\ events' = Append(events, [node |-> At, outcome |-> result'])
      /\ IF child = None THEN pc' = "done" /\ ended' = "cancelled"
                         ELSE pc' = "loopEnd" /\ ended' = "no"
  BY <1>1 DEF Refuse, Report, End, SchedulerInv, Placed
<1>3. Base' = Base /\ OnTrack'
  BY <1>2, SameBehind DEF OrderInv
<1>4. current \notin Behind
  BY <1>2, AtWork
<1>5. CASE child = None
  <2>1. PICK n : n = Base /\ Clean(n)
    BY <1>2, <1>5 DEF OrderInv, OnTime
  <2>2. At = current
    BY <1>5 DEF At
  <2>3. n < Len(Expected) /\ current \in {Expected[n + 1], parent[Expected[n + 1]]}
    <3>1. CASE kind[current] # "loop"
      BY <1>4, <2>1, <3>1, NodeOrder, ExpectedType DEF OrderInv
    <3>2. CASE kind[current] = "loop"
      <4> DEFINE b == Cardinality(Body)
                 k == Iterations * b
      <4>1. /\ b \in Nat \ {0} /\ k \in Nat /\ Base \in Nat /\ Base + k + 1 <= Len(Expected)
        BY <1>4, <3>2, LoopOrder DEF OrderInv
      <4>2. 0 \in 0 .. Iterations - 1 /\ 0 \in 0 .. b - 1
        BY <4>1
      <4>3. Expected[Base + (0 * b + 0) + 1] = Chain[0]
        BY <1>4, <3>2, <4>2, LoopOrder DEF OrderInv
      <4>4. 0 * b + 0 = 0 /\ Base + 0 + 1 = Base + 1
        BY <4>1
      <4>5. Entry \in Body /\ Entry \in Nodes /\ parent[Entry] = current
        BY <3>2, ChainEnds DEF SchedulerInv, Body, Children
      <4>6. Chain[0] = Entry
        BY <4>5, DefinitionHolds, WalkDef DEF Chain, Definition
      <4> HIDE DEF k, b
      <4>7. Base < Len(Expected)
        BY <4>1, ExpectedType
      <4>8. Expected[Base + 1] = Entry
        BY <4>3, <4>4, <4>6
      <4>. QED BY <2>1, <4>5, <4>7, <4>8
    <3>. QED BY <3>1, <3>2
  <2>4. n \in 0 .. Len(events') /\ Follows(Expected, n)'
    BY <1>2, <2>1, <2>2, <2>3, NextReport
  <2>5. RunsAsWritten'
    BY <1>2, <1>5, <2>4 DEF RunsAsWritten
  <2>. QED BY <1>2, <1>3, <1>5, <2>5 DEF OrderInv, OnTime, Running
<1>6. CASE child # None
  <2>0. PICK R \in SUBSET Body : OnChain(R) /\ Clean(Round + Cardinality(R))
    BY <1>2, <1>6 DEF OrderInv, OnTime
  <2>1. PICK n : /\ R \in SUBSET Body /\ OnChain(R)
                 /\ Clean(n) /\ n = Round + Cardinality(R)
    BY <2>0
  <2>2. /\ n \in 0 .. Len(Expected) - 1 /\ n < Len(Expected)
        /\ Expected[n + 1] = child /\ At = child /\ parent[child] = current
    BY <1>4, <1>6, <2>1, ChildOrder, ExpectedType DEF OrderInv, At
  <2>3. Broken(n)'
    BY <1>2, <2>1, <2>2, NextReport
  <2>4. n \in 0 .. Len(Expected') - 1 /\ parent'[Expected'[n + 1]] = current'
    BY <1>2, <2>2, SameExpected
  <2>. QED BY <1>2, <1>3, <1>6, <2>3, <2>4 DEF OrderInv, OnTime, Running
<1>. QED BY <1>5, <1>6

\* The path ends where no transition goes on: all that is met has been visited.
LEMMA PathEnds ==
    ASSUME SchedulerInv, OnTrack, ended = "no", pc \notin {"step", "done"}, next[current] = None
    PROVE  Cardinality(visited) = Last
<1> DEFINE j == Cardinality(Behind)
<1>1. /\ Behind \union {current} = visited /\ current \notin Behind
  BY AtWork
<1>2. /\ visited = Stretch(next, Start, j + 1) /\ Cardinality(visited) = j + 1
      /\ j + 1 \in 1 .. Cardinality(Nodes) /\ (j + 1) - 1 = j
  <2>1. j \in Nat
    BY <1>1, Here, DefinitionHolds, UpToDef
  <2> HIDE DEF j
  <2>2. (j + 1) - 1 = j
    BY <2>1
  <2>. QED BY <1>1, <2>2, Here DEF j
<1>3. current = Track[j] /\ current \in Nodes /\ visited \in SUBSET Nodes
  BY DEF OnTrack, SchedulerInv, TypeOK
<1> HIDE DEF j
<1>4. Definition
  BY DefinitionHolds
<1>5. Walk(next, Start)[j + 1] = None
  <2>1. j \in Nat
    BY <1>2, <1>4, UpToDef, Here, AtWork DEF j
  <2>2. Walk(next, Start)[j + 1] = next[Walk(next, Start)[j]]
    BY <1>2, <1>3, <1>4, <2>1, WalkOn DEF Definition, Track
  <2>. QED BY <1>3, <2>2 DEF Track
<1>6. Met(next, Start) = Stretch(next, Start, j + 1)
  <2>1. Stretch(next, Start, j + 1) \subseteq Nodes
    BY <1>2, <1>3
  <2>. QED BY <1>2, <1>4, <1>5, <2>1, StretchCloses DEF Definition
<1>. QED BY <1>2, <1>6 DEF Last

LEMMA AfterNodeOrder == SchedulerInv /\ OrderInv /\ AfterNode => OrderInv'
<1> SUFFICES ASSUME SchedulerInv, OrderInv, AfterNode PROVE OrderInv'
  OBVIOUS
<1>1. /\ UNCHANGED <<definition, child, iteration, visited, result, events>>
      /\ ended = "no" /\ pc = "after" /\ child = None /\ current \in Nodes
  BY DEF AfterNode, SchedulerInv, Placed, TypeOK
<1>2. Behind = visited \ {current} /\ current \notin Behind /\ Behind \union {current} = visited
  BY <1>1, AtWork
<1>3. CASE result # "success" \/ next[current] = None
  <2>1. /\ pc' = "done" /\ ended' = result /\ ended' # "cycle" /\ current' = current
    BY <1>3 DEF AfterNode, End, SchedulerInv, TypeOK, Results
  <2>2. OnTrack'
    BY <1>1, <2>1, SameBehind DEF OrderInv
  <2>3. RunsAsWritten'
    <3>1. CASE result # "success"
      <4>1. PICK n \in 0 .. Len(events) : Follows(Expected, n)
        BY <1>1, <3>1 DEF OrderInv, OnTime, Fails
      <4>2. n \in 0 .. Len(events') /\ Follows(Expected, n)'
        BY <1>1, <4>1, SameReports
      <4>. QED BY <2>1, <3>1, <4>2 DEF RunsAsWritten
    <3>2. CASE result = "success" /\ next[current] = None
      <4>1. PICK n : n = Len(UpTo[Cardinality(visited)]) /\ Clean(n)
        BY <1>1, <3>2 DEF OrderInv, OnTime
      <4>2. n = Len(Expected)
        BY <1>1, <3>2, <4>1, PathEnds DEF OrderInv, Expected, Last
      <4>3. n \in 0 .. Len(events) /\ Follows(Expected, n) /\ Len(events) = n
        BY <4>1, CleanFollows DEF Clean
      <4>4. /\ n \in 0 .. Len(events') /\ Follows(Expected, n)'
            /\ n = Len(Expected') /\ Len(events') = n
        BY <1>1, <4>2, <4>3, SameReports, SameExpected
      <4>. QED BY <4>4 DEF RunsAsWritten
    <3>. QED BY <1>3, <3>1, <3>2
  <2>. QED BY <1>1, <2>1, <2>2, <2>3 DEF OrderInv, OnTime, Running
<1>4. CASE result = "success" /\ next[current] # None
  <2>1. pc' = "step" /\ ended' = "no" /\ current' = next[current]
    BY <1>1, <1>4 DEF AfterNode, End
  <2>2. Behind' = visited
    BY <1>1, <2>1 DEF Behind
  <2> DEFINE j == Cardinality(Behind)
  <2>3. /\ visited = Stretch(next, Start, j + 1) /\ Cardinality(visited) = j + 1
        /\ j + 1 \in 1 .. Cardinality(Nodes) /\ j \in Nat
    <3>1. j \in Nat
      BY <1>2, Here, DefinitionHolds, UpToDef DEF OrderInv
    <3>. QED BY <1>2, <3>1, Here DEF OrderInv
  <2>4. current = Track[j]
    BY DEF OrderInv, OnTrack
  <2> HIDE DEF j
  <2>5. Track[j + 1] = next[current]
    <3>1. Definition
      BY DefinitionHolds
    <3>. QED BY <1>1, <2>3, <2>4, <3>1, WalkOn DEF Track, Definition
  <2>6. OnTrack'
    <3>1. visited = {Track[i] : i \in 0 .. (j + 1) - 1}
      BY <2>3 DEF Stretch, Track
    <3>2. /\ Cardinality(visited) \in 0 .. Cardinality(Nodes) /\ next[current] = Track[Cardinality(visited)]
          /\ visited = {Track[i] : i \in 0 .. Cardinality(visited) - 1}
      BY <2>3, <2>5, <3>1
    <3>. QED BY <1>1, <2>1, <2>2, <3>2, SameExpected DEF OnTrack
  <2>7. Clean(Base)'
    <3>1. PICK n : n = Len(UpTo[Cardinality(visited)]) /\ Clean(n)
      BY <1>1, <1>4 DEF OrderInv, OnTime
    <3>2. Clean(n)' /\ Base' = n
      BY <1>1, <2>2, <3>1, SameReports, SameExpected DEF Base
    <3>. QED BY <3>2
  <2>. QED BY <1>1, <2>1, <2>6, <2>7 DEF OrderInv, OnTime, Running
<1>. QED BY <1>3, <1>4

LEMMA BeginLoopOrder == SchedulerInv /\ OrderInv /\ BeginLoop => OrderInv'
<1> SUFFICES ASSUME SchedulerInv, OrderInv, BeginLoop PROVE OrderInv'
  OBVIOUS
<1>1. /\ UNCHANGED <<definition, current, child, visited, result, events, ended>>
      /\ ended = "no" /\ pc = "loop" /\ child = None /\ pc' = "iteration" /\ iteration' = 0
  BY DEF BeginLoop, SchedulerInv, Placed
<1>2. Base' = Base /\ OnTrack'
  BY <1>1, SameBehind DEF OrderInv
<1>3. PICK n : n = Base /\ Clean(n)
  BY <1>1 DEF OrderInv, OnTime
<1>4. Round' = Base
  <2>1. Body' = Body /\ Cardinality(Body) \in Nat
    BY <1>1, SameLoop, Sizes DEF Body, Children
  <2>2. Base \in Nat
    BY <1>3, ExpectedType DEF Clean
  <2>. QED BY <1>1, <1>2, <2>1, <2>2 DEF Round
<1>5. Clean(n)'
  BY <1>1, <1>3, SameReports
<1>6. Clean(Round)'
  BY <1>3, <1>4, <1>5
<1>. QED BY <1>1, <1>2, <1>6 DEF OrderInv, OnTime, Running

LEMMA IterateOrder == SchedulerInv /\ OrderInv /\ Iterate => OrderInv'
<1> SUFFICES ASSUME SchedulerInv, OrderInv, Iterate PROVE OrderInv'
  OBVIOUS
<1>1. /\ UNCHANGED <<definition, current, iteration, visited, events, ended>>
      /\ ended = "no" /\ pc = "iteration" /\ child = None /\ kind[current] = "loop"
      /\ iteration \in 0 .. Iterations
  BY DEF Iterate, SchedulerInv, Placed, TypeOK
<1>2. /\ Base' = Base /\ OnTrack' /\ Body' = Body /\ Entry' = Entry /\ Expected' = Expected
  BY <1>1, SameBehind, SameLoop, SameExpected DEF OrderInv, Iterate
<1>3. Round' = Round /\ Chain' = Chain
  BY <1>1, <1>2 DEF Round, Chain
<1>4. PICK n : n = Round /\ Clean(n) /\ Clean(n)'
  <2>1. PICK n : n = Round /\ Clean(n)
    BY <1>1 DEF OrderInv, OnTime
  <2>. QED BY <1>1, <2>1, SameReports
<1>5. CASE iteration = Iterations
  <2>1. pc' = "loopEnd" /\ result' = "success" /\ child' = None
    BY <1>1, <1>5 DEF Iterate
  <2>2. n = Base' + Iterations * Cardinality(Body')
    BY <1>2, <1>4, <1>5 DEF Round
  <2>3. Clean(Base + Iterations * Cardinality(Body))'
    BY <1>4, <2>2
  <2>. QED BY <1>2, <2>1, <2>3 DEF OrderInv, OnTime, Running
<1>6. CASE iteration # Iterations
  <2>1. iteration < Iterations
    BY <1>1, <1>6
  <2>2. /\ Expected[n + 1] = Entry /\ n \in 0 .. Len(Expected) - 1
        /\ parent[Entry] = current /\ Chain[0] = Entry /\ Entry \in Body
    BY <1>1, <1>4, <2>1, RoundBegins DEF OrderInv
  <2>3. CASE cancelled
    <3>1. pc' = "loopEnd" /\ result' = "cancelled" /\ child' = None
      BY <1>1, <1>6, <2>3 DEF Iterate
    <3>2. n \in 0 .. Len(Expected') - 1 /\ parent'[Expected'[n + 1]] = current'
      BY <1>1, <1>2, <2>2
    <3>. QED BY <1>2, <1>4, <3>1, <3>2 DEF OrderInv, OnTime, Running
  <2>4. CASE ~cancelled
    <3>1. pc' = "child" /\ child' = Entry /\ Entry # None
      BY <1>6, <2>2, <2>4 DEF Iterate, Body, Children
    <3>2. Cardinality({}) = 0 /\ {Chain[i] : i \in 0 .. 0 - 1} = {}
      BY FS_EmptySet
    <3>3. OnChain({})'
      BY <1>2, <1>3, <2>2, <3>1, <3>2 DEF OnChain, Ran
    <3>4. n = Round' + Cardinality({}) /\ {} \in SUBSET Body'
      BY <1>3, <1>4, <2>2, <3>2
    <3>5. Clean(Round + Cardinality({}))'
      BY <1>4, <3>4
    <3>. QED BY <1>2, <3>1, <3>3, <3>4, <3>5 DEF OrderInv, OnTime, Running
  <2>. QED BY <2>3, <2>4
<1>. QED BY <1>5, <1>6

LEMMA AfterChildOrder == SchedulerInv /\ OrderInv /\ AfterChild => OrderInv'
<1> SUFFICES ASSUME SchedulerInv, OrderInv, AfterChild PROVE OrderInv'
  OBVIOUS
<1>1. /\ UNCHANGED <<definition, current, result, visited, events, ended>>
      /\ ended = "no" /\ pc = "afterChild" /\ child # None /\ child \in Body
      /\ kind[current] = "loop" /\ Body \in SUBSET Nodes
      /\ iteration \in 0 .. Iterations - 1 /\ iteration \in Nat
  BY DEF AfterChild, SchedulerInv, Placed, TypeOK, Body, Children
<1>2. current \notin Behind
  BY <1>1, AtWork
<1>0. PICK R \in SUBSET Body :
          /\ OnChain(R)
          /\ result = "success" => Clean(Round + Cardinality(R) + 1)
          /\ result # "success" => Broken(Round + Cardinality(R))
  BY <1>1 DEF OrderInv, OnTime
<1>3. PICK n :
          /\ R \in SUBSET Body /\ OnChain(R) /\ n = Round + Cardinality(R)
          /\ result = "success" => Clean(n + 1)
          /\ result # "success" => Broken(n)
  BY <1>0
<1> DEFINE c == Cardinality(R)
           b == Cardinality(Body)
<1>4. /\ n \in 0 .. Len(Expected) - 1 /\ Expected[n + 1] = child /\ parent[child] = current
      /\ c \in Nat /\ c + 1 <= b /\ b \in Nat /\ Round \in Nat
  BY <1>1, <1>2, <1>3, ChildOrder DEF OrderInv
<1>5. pc' # "step" /\ ended' # "cycle" /\ pc # "step"
  BY <1>1 DEF AfterChild
<1>6. /\ Base' = Base /\ OnTrack' /\ Body' = Body /\ Entry' = Entry /\ Expected' = Expected
  BY <1>1, <1>5, SameBehind, SameLoop, SameExpected DEF OrderInv
<1>7. /\ result = "success" => Clean(n + 1)'
      /\ result # "success" => Broken(n)'
  BY <1>1, <1>3, SameReports
<1>8. CASE result # "success"
  <2>1. pc' = "loopEnd" /\ child' = None /\ result' # "success"
    BY <1>1, <1>8 DEF AfterChild
  <2>2. n \in 0 .. Len(Expected') - 1 /\ parent'[Expected'[n + 1]] = current'
    BY <1>1, <1>4, <1>6
  <2>. QED BY <1>6, <1>7, <1>8, <2>1, <2>2 DEF OrderInv, OnTime, Running
<1>9. Ran(R) /\ child \notin R /\ child = Chain[c] /\ R = {Chain[i] : i \in 0 .. c - 1}
  BY <1>3 DEF OnChain, Ran
<1>10. PICK S \in SUBSET Body : S = R \union {child}
  BY <1>1
<1>11. Cardinality(S) = c + 1 /\ S = {Chain[i] : i \in 0 .. (c + 1) - 1}
  <2>1. Cardinality(S) = c + 1
    BY <1>1, <1>9, <1>10, Sizes, FS_AddElement
  <2>2. 0 .. (c + 1) - 1 = (0 .. c - 1) \union {c}
    BY <1>4
  <2>. QED BY <1>9, <1>10, <2>1, <2>2
<1>12. CASE result = "success" /\ next[child] = None
  <2>1. pc' = "iteration" /\ child' = None /\ iteration' = iteration + 1
    BY <1>12 DEF AfterChild
  <2>2. S = Body
    <3>1. Closed(next, S)
      BY <1>9, <1>10, <1>12 DEF Closed, Ran
    <3>2. Entry \in S /\ S \in SUBSET Nodes
      BY <1>1, <1>9, <1>10 DEF Ran
    <3>3. Met(next, Entry) = Body
      BY <1>1, ChainEnds DEF SchedulerInv
    <3>. QED BY <1>10, <3>1, <3>2, <3>3 DEF Met
  <2>3. Round' = n + 1
    <3> DEFINE x == iteration * b
               y == (iteration + 1) * b
    <3>1. x \in Nat /\ y = x + b
      BY <1>1, <1>4, Times
    <3>2. Round = Base + x /\ Round' = Base + y /\ b = c + 1 /\ n = Round + c
      BY <1>3, <1>6, <1>11, <2>1, <2>2 DEF Round
    <3>3. Base \in Nat
      BY <1>2, Ahead DEF OrderInv
    <3> HIDE DEF x, y, b, c
    <3>. QED BY <1>4, <3>1, <3>2, <3>3
  <2>4. Clean(Round)'
    BY <1>7, <1>12, <2>3
  <2>. QED BY <1>6, <2>1, <2>4 DEF OrderInv, OnTime, Running
<1>13. CASE result = "success" /\ next[child] # None
  <2>1. pc' = "child" /\ child' = next[child] /\ iteration' = iteration
    BY <1>13 DEF AfterChild
  <2>2. Chain[c + 1] = next[child]
    <3>1. Definition /\ Entry \in Nodes /\ child \in Nodes
      BY <1>1, DefinitionHolds, ChainEnds DEF SchedulerInv, Body, Children
    <3>2. c + 1 \in 1 .. Cardinality(Nodes)
      <4>1. b <= Cardinality(Nodes) /\ Cardinality(Nodes) \in Nat
        BY <1>1, Sizes
      <4> HIDE DEF b, c
      <4>. QED BY <1>4, <4>1
    <3>. QED BY <1>4, <1>9, <3>1, <3>2, WalkOn DEF Chain, Definition
  <2>3. next[child] \notin S
    BY <1>1, <1>9, <1>10, <1>13, ChainGoesOn DEF SchedulerInv, Ran
  <2>4. Ran(S)'
    BY <1>1, <1>6, <1>9, <1>10, <2>1, <2>3 DEF Ran
  <2>5. Chain' = Chain /\ Round' = Round
    BY <1>1, <1>6, <2>1 DEF Chain, Round
  <2>6. OnChain(S)'
    <3>1. child' = Chain'[Cardinality(S)] /\ S = {Chain'[i] : i \in 0 .. Cardinality(S) - 1}
      BY <1>11, <2>1, <2>2, <2>5
    <3>. QED BY <2>4, <3>1 DEF OnChain
  <2>7. n + 1 = Round' + Cardinality(S) /\ S \in SUBSET Body'
    BY <1>3, <1>4, <1>6, <1>11, <2>5
  <2>8. Clean(Round + Cardinality(S))'
    BY <1>7, <1>13, <2>7
  <2>. QED BY <1>6, <1>13, <2>1, <2>6, <2>7, <2>8 DEF OrderInv, OnTime, Running
<1>. QED BY <1>8, <1>12, <1>13

LEMMA EndLoopOrder == SchedulerInv /\ OrderInv /\ EndLoop => OrderInv'
<1> SUFFICES ASSUME SchedulerInv, OrderInv, EndLoop PROVE OrderInv'
  OBVIOUS
<1>1. ~OutOfSteps
  BY NeverOut DEF EndLoop
<1>2. /\ UNCHANGED <<definition, position, result, visited, ended>>
      /\ ended = "no" /\ pc = "loopEnd" /\ pc' = "after" /\ child = None
      /\ kind[current] = "loop"
      /\ events' = Append(events, [node |-> current, outcome |-> result])
  BY <1>1 DEF EndLoop, SchedulerInv, Placed
<1>3. Base' = Base /\ OnTrack'
  BY <1>2, SameBehind DEF OrderInv
<1>4. Behind \union {current} = visited /\ current \notin Behind
  BY <1>2, AtWork
<1>5. CASE result = "success"
  <2> DEFINE k == Iterations * Cardinality(Body)
  <2>1. PICK n : n = Base + k /\ Clean(n)
    BY <1>2, <1>5 DEF OrderInv, OnTime
  <2>2. /\ Base + k + 1 <= Len(Expected) /\ Expected[Base + k + 1] = current
        /\ Len(UpTo[Cardinality(visited)]) = Base + k + 1 /\ Base \in Nat /\ k \in Nat
    BY <1>2, <1>4, Here, LoopOrder DEF OrderInv
  <2> HIDE DEF k
  <2>3. n < Len(Expected)
    BY <2>1, <2>2, ExpectedType
  <2>4. Clean(n + 1)'
    BY <1>2, <1>5, <2>1, <2>2, <2>3, NextReport
  <2>5. Len(UpTo[Cardinality(visited)])' = n + 1
    BY <1>2, <2>1, <2>2, SameExpected
  <2>6. Clean(Len(UpTo[Cardinality(visited)]))'
    BY <2>4, <2>5
  <2>. QED BY <1>2, <1>3, <1>5, <2>6 DEF OrderInv, OnTime, Running
<1>6. CASE result # "success"
  <2>1. PICK n \in 0 .. Len(Expected) - 1 : /\ Clean(n) \/ Broken(n)
                                            /\ parent[Expected[n + 1]] = current
    BY <1>2, <1>6 DEF OrderInv, OnTime
  <2>2. n < Len(Expected)
    BY ExpectedType
  <2>3. n \in 0 .. Len(events') /\ Follows(Expected, n)'
    <3>1. CASE Clean(n)
      BY <1>2, <1>6, <2>1, <2>2, <3>1, NextReport
    <3>2. CASE Broken(n)
      BY <1>2, <1>6, <2>1, <3>2, LoopReport
    <3>. QED BY <2>1, <3>1, <3>2
  <2>4. Fails'
    BY <2>3 DEF Fails
  <2>. QED BY <1>2, <1>3, <1>6, <2>4 DEF OrderInv, OnTime, Running
<1>. QED BY <1>5, <1>6

\* A step of the cancel callback, and no step.
LEMMA OtherOrder == SchedulerInv /\ OrderInv /\ (Cancel \/ UNCHANGED vars) => OrderInv'
<1> SUFFICES ASSUME SchedulerInv, OrderInv, Cancel \/ UNCHANGED vars PROVE OrderInv'
  OBVIOUS
<1>1. UNCHANGED <<definition, pc, position, result, visited, events, ended>>
  BY DEF Cancel, vars
<1>2. Base' = Base /\ OnTrack'
  BY <1>1, SameBehind DEF OrderInv
<1>3. /\ Round' = Round /\ Body' = Body /\ \A R : OnChain(R)' <=> OnChain(R)
      /\ Expected' = Expected /\ UpTo' = UpTo
  BY <1>1, <1>2, SameRound, SameExpected
<1>4. /\ \A n : Clean(n)' <=> Clean(n)
      /\ \A n : Broken(n)' <=> Broken(n)
      /\ Fails' <=> Fails
      /\ RunsAsWritten' <=> RunsAsWritten
  BY <1>1, <1>3 DEF Clean, Broken, Fails, RunsAsWritten, Follows
<1>5. OnTime'
  BY <1>1, <1>2, <1>3, <1>4 DEF OrderInv, OnTime
<1>. QED BY <1>2, <1>5 DEF OrderInv

LEMMA OrderKept == SchedulerInv /\ OrderInv => RunsAsWritten
<1> SUFFICES ASSUME SchedulerInv, OrderInv PROVE RunsAsWritten
  OBVIOUS
<1>1. CASE pc = "done"
  BY <1>1 DEF OrderInv, OnTime
<1>2. CASE pc # "done"
  <2>1. ended = "no"
    BY <1>2 DEF SchedulerInv, Placed
  <2>2. \E n \in 0 .. Len(events) : Follows(Expected, n)
    <3>1. (\E n : Clean(n)) \/ (\E n : Broken(n) /\ result # "success") \/ Fails
      BY <1>2 DEF OrderInv, OnTime, SchedulerInv, TypeOK, Placed, Kinds, Running
    <3>. QED BY <3>1, CleanFollows, BrokenFollows DEF Fails
  <2>. QED BY <2>1, <2>2 DEF RunsAsWritten
<1>. QED BY <1>1, <1>2

\* An exception adds no report.
LEMMA RaiseOrder == SchedulerInv /\ OrderInv /\ Raise => OrderInv'
<1> SUFFICES ASSUME SchedulerInv, OrderInv, Raise PROVE OrderInv'
  OBVIOUS
<1>1. /\ UNCHANGED <<definition, position, visited, events>> /\ pc \notin {"step", "done"}
      /\ ended = "no" /\ pc' = "done" /\ ended' = "raised"
  BY Raised
<1>2. OnTrack'
  BY <1>1, SameBehind DEF OrderInv
<1>3. PICK n \in 0 .. Len(events) : Follows(Expected, n)
  BY OrderKept DEF RunsAsWritten
<1>4. Expected' = Expected /\ Follows(Expected, n)'
  BY <1>1, <1>3, SameExpected, SameReports
<1>5. RunsAsWritten'
  BY <1>1, <1>3, <1>4 DEF RunsAsWritten
<1>. QED BY <1>1, <1>2, <1>5 DEF OrderInv, OnTime, Running

\* The reports follow the expected order in every reachable state.
THEOREM OrderInvariant == Spec => []OrderInv
<1>1. SchedulerInv /\ OrderInv /\ [Next]_vars => OrderInv'
  BY CheckStepOrder, NodeOrderStep, RecordOrder, RefuseOrder, AfterNodeOrder, BeginLoopOrder,
     IterateOrder, AfterChildOrder, EndLoopOrder, RaiseOrder, OtherOrder
     DEF Next, Scheduler, Raise
<1>. QED BY OrderInit, <1>1, SchedulerInvariant, PTL DEF Spec

\* For every accepted definition the nodes run in the order a reader of it expects.
THEOREM RunsInOrder == Spec => []RunsAsWritten
  BY OrderKept, SchedulerInvariant, OrderInvariant, PTL

----------------------------------------------------------------------------
(* Why every schedule ends                                                 *)

\* How much of a node or of an iteration is still to come, up to the next step index.
Rank ==
    CASE pc = "done" -> 0
      [] pc \in {"begin", "refuse", "loopEnd"} -> 1
      [] pc = "child" -> 2
      [] pc = "iteration" -> 3
      [] pc = "loop" -> 4
      [] pc = "step" -> 5
      [] pc \in {"after", "afterChild"} -> 6
      [] pc = "record" -> 7
      [] pc \in {"runner", "timer", "end"} -> 8
      [] pc = "worker" -> 9

Remaining == 9 * (MaxSteps - stepIndex) + Rank

\* Every step of the taskflow thread brings the schedule nearer to its end, also through
\* loops, failures and cancellations and in a definition with a cycle, and a cancellation
\* by another thread does not put it off: a schedule takes at most 9 * MaxSteps + 5 steps.
StepsDescend ==
    [][/\ Remaining \in Nat
       /\ Scheduler => Remaining' < Remaining
       /\ Cancel => Remaining' = Remaining]_vars

\* The nodes that execute_node_once announces are not loops.
LEMMA BegunKind == TypeOK /\ Placed /\ pc = "begin" => kind[At] \in {"worker", "timer", "end"}
  BY DEF TypeOK, Placed, At, Kinds, ChildrenAreSteps, Body, Children

LEMMA RankType == TypeOK => Rank \in 0 .. 9 /\ Remaining \in Nat
  BY MaxStepsNat DEF TypeOK, Rank, Remaining, Kinds

\* The budget is that of the definition, which no step changes.
LEMMA SameBudget == UNCHANGED definition => MaxSteps' = MaxSteps
  BY DEF MaxSteps

\* A step ends the way to the next step index, or shortens it, or takes that index.
LEMMA Descent ==
    ASSUME TypeOK, Placed, Scheduler
    PROVE  /\ UNCHANGED definition
           /\ \/ stepIndex' = stepIndex /\ Rank' < Rank
              \/ stepIndex' = stepIndex + 1 /\ Rank' < Rank + 9
<1>1. /\ TypeOK /\ Placed
      /\ pc \in {"step", "begin", "runner", "record", "refuse", "after", "iteration", "child",
                 "afterChild", "loopEnd", "done", "worker", "timer", "loop", "end"}
  BY DEF TypeOK, Kinds
<1>2. CASE CheckStep
  BY <1>2 DEF CheckStep, End, Rank
<1>3. CASE Begin
  BY <1>1, <1>3, BegunKind DEF Begin, End, Rank
<1>4. CASE RunEnd \/ RunTimer \/ CheckAgain \/ RunNode
  BY <1>4 DEF RunEnd, RunTimer, CheckAgain, RunNode, Rank
<1>5. CASE Record
  BY <1>5 DEF Record, Rank
<1>6. CASE Refuse
  BY <1>6 DEF Refuse, End, Rank
<1>7. CASE AfterNode \/ AfterChild
  BY <1>7 DEF AfterNode, AfterChild, End, Rank
<1>8. CASE BeginLoop \/ Iterate \/ CheckChild
  BY <1>8 DEF BeginLoop, Iterate, CheckChild, Rank
<1>9. CASE EndLoop
  BY <1>9 DEF EndLoop, End, Rank
<1>10. CASE RunnerRaises \/ AnnounceRaises \/ ReportRaises
  BY <1>1, <1>10 DEF RunnerRaises, AnnounceRaises, ReportRaises, End, Rank
<1>. QED BY <1>2, <1>3, <1>4, <1>5, <1>6, <1>7, <1>8, <1>9, <1>10 DEF Scheduler

\* The default budget bounds the work of the thread, whatever the nodes return.
THEOREM ScheduleIsBounded == Spec => StepsDescend
<1>0. (TypeOK => Rank \in 0 .. 9)'
  BY RankType, PTL
<1>1. ASSUME TypeOK, Placed, TypeOK', Scheduler
      PROVE  Remaining' < Remaining
  <2>1. /\ MaxSteps' = MaxSteps
        /\ \/ stepIndex' = stepIndex /\ Rank' < Rank
           \/ stepIndex' = stepIndex + 1 /\ Rank' < Rank + 9
    BY <1>1, Descent, SameBudget
  <2>2. /\ MaxSteps \in Nat /\ stepIndex \in 0 .. MaxSteps
        /\ Rank \in 0 .. 9 /\ Rank' \in 0 .. 9
    BY <1>0, <1>1, RankType, MaxStepsNat DEF TypeOK
  <2>. QED BY <2>1, <2>2 DEF Remaining
<1>2. ASSUME Cancel
      PROVE  Remaining' = Remaining
  BY <1>2, SameBudget DEF Cancel, Remaining, Rank
<1>3. /\ SchedulerInv => TypeOK /\ Placed
      /\ SchedulerInv' => TypeOK'
  BY DEF SchedulerInv
<1>4. SchedulerInv /\ SchedulerInv' /\ [Next]_vars =>
          [/\ Remaining \in Nat
           /\ Scheduler => Remaining' < Remaining
           /\ Cancel => Remaining' = Remaining]_vars
  BY <1>1, <1>2, <1>3, RankType
<1>. QED BY <1>4, SchedulerInvariant, PTL DEF Spec, StepsDescend
=============================================================================
