-------------------------- MODULE RecoveryGateProofs --------------------------
(***************************************************************************)
(* Proofs about RecoveryGate for any number of samples, any set of         *)
(* positions and both settings of GateBlocks.                              *)
(***************************************************************************)
EXTENDS RecoveryGate, TLAPS

\* The lease and the process state follow the threads.
Leases ==
    /\ lease = "control" <=> cpc \in ControlPCs \ {"idle", "waiting"}
    /\ lease = "sampler" <=> spc = "reading"
    /\ ~up => cpc = "idle" /\ spc = "idle"

\* An interruption not confirmed closes the gate as soon as it is marked, and a
\* recorded one can be read back from the file.
OwedState ==
    /\ up /\ owed = "pending" => gate \/ cpc = "interrupted"
    /\ up /\ owed = "recorded" => gate
    /\ owed = "recorded" => disk # "absent"
    /\ ~up => owed # "pending"
    /\ cpc \in {"marked", "writing"} => gate
    /\ spc = "unlinking" => cpc \notin {"marked", "writing"} /\ owed # "recorded"

\* Behind a closed gate no operation is on its way.
Blocked ==
    GateBlocks =>
        /\ gate => cpc \notin {"waiting", "running", "interrupted"}
        /\ cpc \in {"waiting", "running"} => owed = "no"

\* A good sample taken behind the closed gate shows a robot that stays at rest.
AtRest ==
    /\ GateBlocks /\ gate /\ stable /\ fresh > 0 => ~moving
    /\ spc = "clearing" => gate /\ stable
    /\ fresh <= taken
    /\ spc \in {"sample", "reading", "asleep"} => taken < SampleCount
    /\ spc = "asleep" => taken > 0

GateInv == TypeOK /\ Leases /\ OwedState /\ Blocked /\ AtRest

----------------------------------------------------------------------------
USE GateAssumption DEF ControlPCs, ConfirmPCs, GateLockFree, processVars, sampleVars, robotVars

\* Nothing runs, nothing is owed, the gate is open.
LEMMA GateInit == Init => GateInv
<1> SUFFICES ASSUME Init PROVE GateInv
  OBVIOUS
<1> USE DEF Init
<1>1. TypeOK
  <2>1. 0 \in 0 .. SampleCount
    OBVIOUS
  <2>. QED BY <2>1, Zenon DEF TypeOK
<1>2. Leases
  BY DEF Leases
<1>3. OwedState
  BY DEF OwedState
<1>4. Blocked
  BY DEF Blocked
<1>5. AtRest
  BY DEF AtRest
<1>. QED BY <1>1, <1>2, <1>3, <1>4, <1>5 DEF GateInv

\* Steps of the control path keep the invariant.
LEMMA ControlStep ==
    ASSUME GateInv, PassGate \/ Control
    PROVE  GateInv'
<1> USE DEF GateInv
<1>1. CASE PassGate
  BY <1>1 DEF PassGate, TypeOK, Leases, OwedState, Blocked, AtRest
<1>2. CASE AcquireLease
  BY <1>2 DEF AcquireLease, TypeOK, Leases, OwedState, Blocked, AtRest
<1>3. CASE EndInterrupted
  BY <1>3 DEF EndInterrupted, TypeOK, Leases, OwedState, Blocked, AtRest
<1>4. CASE EndOtherwise
  BY <1>4 DEF EndOtherwise, TypeOK, Leases, OwedState, Blocked, AtRest
<1>5. CASE MarkMemory
  BY <1>5 DEF MarkMemory, TypeOK, Leases, OwedState, Blocked, AtRest
<1>6. CASE Truncate
  BY <1>6 DEF Truncate, TypeOK, Leases, OwedState, Blocked, AtRest
<1>7. CASE WriteMark
  BY <1>7 DEF WriteMark, TypeOK, Leases, OwedState, Blocked, AtRest
<1>8. CASE WriteFails
  BY <1>8 DEF WriteFails, TypeOK, Leases, OwedState, Blocked, AtRest
<1>9. CASE ReleaseLease
  BY <1>9 DEF ReleaseLease, TypeOK, Leases, OwedState, Blocked, AtRest
<1>. QED
  BY <1>1, <1>2, <1>3, <1>4, <1>5, <1>6, <1>7, <1>8, <1>9 DEF Control

\* Steps of the confirmation keep it.
LEMMA ConfirmStep ==
    ASSUME GateInv, StartConfirm \/ Confirm
    PROVE  GateInv'
<1> USE DEF GateInv
<1>1. CASE StartConfirm
  BY <1>1 DEF StartConfirm, TypeOK, Leases, OwedState, Blocked, AtRest
<1>2. CASE BeginSample
  BY <1>2 DEF BeginSample, TypeOK, Leases, OwedState, Blocked, AtRest
<1>3. CASE SampleBusy
  BY <1>3 DEF SampleBusy, TypeOK, Leases, OwedState, Blocked, AtRest
<1>4. CASE SampleUnavailable
  BY <1>4 DEF SampleUnavailable, TypeOK, Leases, OwedState, Blocked, AtRest
<1>5. CASE TakeSample
  <2> USE <1>5 DEF TakeSample
  <2>1. TypeOK'
    BY DEF TypeOK, AtRest
  <2>2. Leases'
    BY DEF TypeOK, Leases
  <2>3. OwedState'
    BY DEF TypeOK, Leases, OwedState
  <2>4. Blocked'
    BY DEF TypeOK, Leases, OwedState, Blocked
  <2>5. GateBlocks /\ gate' /\ stable' /\ fresh' > 0 => ~moving'
    BY Zenon
  <2>6. AtRest'
    BY <2>5 DEF TypeOK, AtRest
  <2>. QED BY <2>1, <2>2, <2>3, <2>4, <2>6
<1>6. CASE NextSample
  BY <1>6 DEF NextSample, TypeOK, Leases, OwedState, Blocked, AtRest
<1>7. CASE Decide
  BY <1>7 DEF Decide, TypeOK, Leases, OwedState, Blocked, AtRest
<1>8. CASE ClearMemory
  BY <1>8 DEF ClearMemory, TypeOK, Leases, OwedState, Blocked, AtRest
<1>9. CASE Unlink
  BY <1>9 DEF Unlink, TypeOK, Leases, OwedState, Blocked, AtRest
<1>. QED
  BY <1>1, <1>2, <1>3, <1>4, <1>5, <1>6, <1>7, <1>8, <1>9 DEF Confirm

\* Steps of the robot, crashes and restarts keep it.
LEMMA OutsideStep ==
    ASSUME GateInv, Robot \/ Crash \/ Restart \/ UNCHANGED vars
    PROVE  GateInv'
<1> USE DEF GateInv
<1>1. CASE StartMoving
  BY <1>1 DEF StartMoving, TypeOK, Leases, OwedState, Blocked, AtRest
<1>2. CASE Move
  BY <1>2 DEF Move, TypeOK, Leases, OwedState, Blocked, AtRest
<1>3. CASE StopMoving
  <2>1. AtRest' /\ moving' \in BOOLEAN
    BY <1>3, Zenon DEF StopMoving, AtRest
  <2>. QED BY <1>3, <2>1 DEF StopMoving, TypeOK, Leases, OwedState, Blocked
<1>4. CASE Crash
  <2> USE <1>4 DEF Crash
  <2>1. TypeOK'
    BY DEF TypeOK, AtRest
  <2>2. Leases'
    BY DEF TypeOK, Leases
  <2>3. OwedState'
    BY DEF TypeOK, Leases, OwedState
  <2>4. Blocked'
    BY DEF TypeOK, Leases, OwedState, Blocked
  <2>5. AtRest'
    BY DEF TypeOK, Leases, OwedState, Blocked, AtRest
  <2>. QED BY <2>1, <2>2, <2>3, <2>4, <2>5
<1>5. CASE Restart
  <2> USE <1>5 DEF Restart
  <2>1. TypeOK'
    BY DEF TypeOK, AtRest
  <2>2. Leases'
    BY DEF TypeOK, Leases
  <2>3. OwedState'
    <3>1. CASE disk = "absent"
      BY <3>1 DEF TypeOK, Leases, OwedState
    <3>2. CASE disk # "absent"
      <4>1. gate'
        BY <3>2
      <4>. QED BY <4>1 DEF TypeOK, Leases, OwedState
    <3>. QED BY <3>1, <3>2
  <2>4. Blocked'
    BY DEF TypeOK, Leases, OwedState, Blocked
  <2>5. AtRest'
    BY DEF TypeOK, Leases, OwedState, Blocked, AtRest
  <2>. QED BY <2>1, <2>2, <2>3, <2>4, <2>5
<1>6. CASE UNCHANGED vars
  BY <1>6 DEF vars, TypeOK, Leases, OwedState, Blocked, AtRest
<1>. QED
  BY <1>1, <1>2, <1>3, <1>4, <1>5, <1>6 DEF Robot

\* The invariant holds in every reachable state.
THEOREM GateInvariant == Spec => []GateInv
<1>1. GateInv /\ [Next]_vars => GateInv'
  BY ControlStep, ConfirmStep, OutsideStep DEF Next
<1>. QED BY <1>1, GateInit, PTL DEF Spec

\* Type correctness.
THEOREM GateTypes == Spec => []TypeOK
<1>1. GateInv => TypeOK
  BY DEF GateInv
<1>. QED BY <1>1, GateInvariant, PTL

\* An unconfirmed interruption keeps the gate closed, over failed writes and,
\* once recorded, over crashes and restarts.
THEOREM GateCovers == Spec => []GateCoversInterruption
<1>1. GateInv => GateCoversInterruption
  BY DEF GateInv, Leases, OwedState, GateCoversInterruption
<1>. QED BY <1>1, GateInvariant, PTL

\* No control operation starts before the confirmation.
THEOREM NoControl == Spec => NoControlWhileOwed
<1>1. GateInv /\ [Next]_vars =>
        [GateBlocks /\ lease # "control" /\ lease' = "control" => owed = "no"]_vars
  <2> SUFFICES ASSUME GateInv, Next, GateBlocks, lease # "control", lease' = "control"
               PROVE  owed = "no"
    BY DEF vars, processVars
  <2>1. AcquireLease
    BY DEF GateInv, Leases, Next, Control, StartConfirm, Confirm, Robot, Crash, Restart,
           PassGate, EndInterrupted, EndOtherwise, MarkMemory, Truncate, WriteMark,
           WriteFails, ReleaseLease, BeginSample, SampleBusy, SampleUnavailable,
           TakeSample, NextSample, Decide, ClearMemory, Unlink, StartMoving, Move,
           StopMoving
  <2>. QED BY <2>1 DEF AcquireLease, GateInv, Blocked
<1>. QED BY <1>1, GateInvariant, PTL DEF Spec, NoControlWhileOwed

\* A clear that rests on a sample taken behind the gate finds the robot at rest.
THEOREM ClearFindsRest == Spec => ClearedAtRest
<1>1. GateInv /\ [Next]_vars =>
        [GateBlocks /\ spc = "clearing" /\ spc' = "unlinking" /\ fresh > 0 => ~moving]_vars
  BY DEF GateInv, AtRest
<1>. QED BY <1>1, GateInvariant, PTL DEF Spec, ClearedAtRest

----------------------------------------------------------------------------
(* Why operations and confirmations end: the two threads wait for each      *)
(* other's locks, but never both at once, and each step of one brings its   *)
(* end nearer and does not put the other back.                              *)

\* Steps of an operation until it has given its lease back.
ControlLeft ==
    CASE cpc = "waiting"     -> 6
      [] cpc = "running"     -> 5
      [] cpc = "interrupted" -> 4
      [] cpc = "marked"      -> 3
      [] cpc = "writing"     -> 2
      [] cpc = "release"     -> 1
      [] OTHER -> 0

\* Steps of a confirmation, of which four for each sample that is still to be taken.
ConfirmLeft ==
    CASE spc = "asleep"    -> 4 * (SampleCount - taken) + 4
      [] spc = "sample"    -> 4 * (SampleCount - taken) + 3
      [] spc = "reading"   -> 4 * (SampleCount - taken) + 2
      [] spc = "decide"    -> 3
      [] spc = "clearing"  -> 2
      [] spc = "unlinking" -> 1
      [] OTHER -> 0

\* An operation has 6 steps and a confirmation four for each sample and three, a busy
\* lease, a failed write and a crash of the process included.
BothDescend ==
    [][/\ ControlLeft' \in 0 .. 6
       /\ Control => ControlLeft' < ControlLeft
       /\ cpc # "idle" => ControlLeft' <= ControlLeft
       /\ ConfirmLeft' \in 0 .. 4 * SampleCount + 3
       /\ Confirm => ConfirmLeft' < ConfirmLeft
       /\ spc # "idle" => ConfirmLeft' <= ConfirmLeft]_vars

\* What each thread waits for: the lease and recovery.py's lock.
ControlWaits ==
    \/ cpc = "waiting" /\ lease # "free"
    \/ cpc = "interrupted" /\ spc = "unlinking"
ConfirmWaits == spc \in {"decide", "clearing"} /\ ~GateLockFree

\* The lease is held over a mark, which takes the lock, but no sample that has the
\* lease wants the lock: one of the two threads can always go on.
NeverBothWait ==
    /\ ControlWaits => spc # "idle" /\ ~ConfirmWaits
    /\ ConfirmWaits => cpc # "idle" /\ ~ControlWaits

\* One of the two threads can always go on, for both settings of GateBlocks.
THEOREM NoMutualWait == Spec => []NeverBothWait
<1>1. GateInv => NeverBothWait
  BY DEF GateInv, TypeOK, Leases, NeverBothWait, ControlWaits, ConfirmWaits
<1>. QED BY <1>1, GateInvariant, PTL

LEMMA ControlDescends ==
    ASSUME GateInv, [Next]_vars
    PROVE  /\ Control => ControlLeft' < ControlLeft
           /\ cpc # "idle" => ControlLeft' <= ControlLeft
<1>1. CASE Control
  <2>1. \/ cpc = "waiting" /\ cpc' = "running"
        \/ cpc = "running" /\ cpc' \in {"interrupted", "release"}
        \/ cpc = "interrupted" /\ cpc' = "marked"
        \/ cpc = "marked" /\ cpc' \in {"writing", "release"}
        \/ cpc = "writing" /\ cpc' = "release"
        \/ cpc = "release" /\ cpc' = "idle"
    BY <1>1 DEF Control, AcquireLease, EndInterrupted, EndOtherwise, MarkMemory, Truncate,
       WriteMark, WriteFails, ReleaseLease
  <2>2. ControlLeft' < ControlLeft
    BY <2>1 DEF ControlLeft
  <2>. QED BY <2>2 DEF ControlLeft
<1>2. CASE ~Control
  <2>1. cpc = "idle" \/ cpc' = cpc \/ cpc' = "idle"
    BY <1>2 DEF Next, PassGate, StartConfirm, Confirm, BeginSample, SampleBusy,
       SampleUnavailable, TakeSample, NextSample, Decide, ClearMemory, Unlink, Robot,
       StartMoving, Move, StopMoving, Crash, Restart, vars
  <2>. QED BY <1>2, <2>1 DEF ControlLeft
<1>. QED BY <1>1, <1>2

LEMMA ConfirmDescends ==
    ASSUME GateInv, [Next]_vars
    PROVE  /\ Confirm => ConfirmLeft' < ConfirmLeft
           /\ spc # "idle" => ConfirmLeft' <= ConfirmLeft
<1>0. taken \in 0 .. SampleCount /\ (spc \in {"sample", "reading", "asleep"} => taken < SampleCount)
  BY DEF GateInv, TypeOK, AtRest
<1>1. CASE Confirm
  <2>1. \/ spc = "sample" /\ spc' \in {"reading", "idle"} /\ taken' = taken
        \/ spc = "reading" /\ spc' = "idle"
        \/ spc = "reading" /\ spc' \in {"asleep", "decide"} /\ taken' = taken + 1
        \/ spc = "asleep" /\ spc' = "sample" /\ taken' = taken
        \/ spc = "decide" /\ spc' \in {"clearing", "idle"}
        \/ spc = "clearing" /\ spc' = "unlinking"
        \/ spc = "unlinking" /\ spc' = "idle"
    BY <1>1 DEF Confirm, BeginSample, SampleBusy, SampleUnavailable, TakeSample, NextSample,
       Decide, ClearMemory, Unlink
  <2>2. ConfirmLeft' < ConfirmLeft
    BY <1>0, <2>1 DEF ConfirmLeft
  <2>3. ConfirmLeft \in Nat /\ ConfirmLeft' \in Nat
    BY <1>0, <2>1 DEF ConfirmLeft
  <2>. QED BY <2>2, <2>3
<1>2. CASE ~Confirm
  <2>1. spc = "idle" \/ (spc' = spc /\ taken' = taken) \/ spc' = "idle"
    BY <1>2 DEF Next, PassGate, Control, AcquireLease, EndInterrupted, EndOtherwise,
       MarkMemory, Truncate, WriteMark, WriteFails, ReleaseLease, StartConfirm, Robot,
       StartMoving, Move, StopMoving, Crash, Restart, vars
  <2>. QED BY <1>0, <1>2, <2>1 DEF ConfirmLeft
<1>. QED BY <1>1, <1>2

\* OperationsReturn, as far as it does not rest on fairness: neither thread is put back
\* by what the other one, the robot or a crash does, for any number of samples.
THEOREM OperationsAreBounded == Spec => BothDescend
<1>1. GateInv => ControlLeft \in 0 .. 6 /\ ConfirmLeft \in 0 .. 4 * SampleCount + 3
  <2>1. GateInv => ControlLeft \in 0 .. 6
    BY DEF ControlLeft
  <2>2. GateInv => ConfirmLeft \in 0 .. 4 * SampleCount + 3
    <3>1. SUFFICES ASSUME GateInv PROVE ConfirmLeft \in 0 .. 4 * SampleCount + 3
      OBVIOUS
    <3>2. taken \in 0 .. SampleCount /\ SampleCount \in Nat \ {0}
      BY <3>1 DEF GateInv, TypeOK
    <3>3. spc = "asleep" => taken > 0
      BY <3>1 DEF GateInv, AtRest
    <3>. QED BY <3>2, <3>3 DEF ConfirmLeft
  <2>. QED BY <2>1, <2>2
<1>2. (GateInv => ControlLeft \in 0 .. 6 /\ ConfirmLeft \in 0 .. 4 * SampleCount + 3)'
  BY <1>1, PTL
<1>3. GateInv /\ GateInv' /\ [Next]_vars =>
        [/\ ControlLeft' \in 0 .. 6
         /\ Control => ControlLeft' < ControlLeft
         /\ cpc # "idle" => ControlLeft' <= ControlLeft
         /\ ConfirmLeft' \in 0 .. 4 * SampleCount + 3
         /\ Confirm => ConfirmLeft' < ConfirmLeft
         /\ spc # "idle" => ConfirmLeft' <= ConfirmLeft]_vars
  BY <1>2, ControlDescends, ConfirmDescends
<1>. QED BY <1>3, GateInvariant, PTL DEF Spec, BothDescend

----------------------------------------------------------------------------
(* The lease as a service                                                  *)

\* The control thread uses the robot during a command, the sampler while it reads.
Using == {s \in {"control"} : cpc = "running"} \union {s \in {"sampler"} : spc = "reading"}

Gdk == INSTANCE GdkSession WITH
    Services <- {"control", "sampler"}, Nobody <- "free", lease <- lease, working <- Using

LEMMA SessionStep ==
    ASSUME GateInv, GateInv', [Next]_vars
    PROVE  [Gdk!Next]_(Gdk!vars)
<1> USE DEF Gdk!Next, Gdk!vars, Gdk!Acquire, Gdk!Work, Gdk!Release
<1>1. /\ lease \in {"free", "control", "sampler"} /\ Using \subseteq {lease} \ {"free"}
      /\ lease' \in {"free", "control", "sampler"} /\ Using' \subseteq {lease'} \ {"free"}
  BY DEF GateInv, TypeOK, Leases, Using
<1>2. lease = "free" \/ lease' \in {lease, "free"}
  <2>1. CASE PassGate \/ Control \/ Robot
    BY <2>1 DEF PassGate, Control, AcquireLease, EndInterrupted, EndOtherwise, MarkMemory,
       Truncate, WriteMark, WriteFails, ReleaseLease, Robot, StartMoving, Move, StopMoving
  <2>2. CASE StartConfirm \/ Confirm
    BY <2>2 DEF StartConfirm, Confirm, BeginSample, SampleBusy, SampleUnavailable, TakeSample,
       NextSample, Decide, ClearMemory, Unlink
  <2>3. CASE Crash \/ Restart \/ UNCHANGED vars
    BY <2>3 DEF Crash, Restart, vars
  <2>. QED BY <2>1, <2>2, <2>3 DEF Next
<1>3. CASE lease = "free" /\ lease' # "free"
  BY <1>1, <1>3
<1>4. CASE lease # "free" /\ lease' = "free"
  BY <1>1, <1>4
<1>5. CASE lease' = lease /\ lease # "free"
  BY <1>1, <1>5
<1>6. CASE lease' = "free" /\ lease = "free"
  BY <1>1, <1>6
<1>. QED BY <1>2, <1>3, <1>4, <1>5, <1>6

\* The operations and the confirmations use the lease as GdkSession asks, also when the
\* process stops inside one of them; control waits for it, a sample does not.
THEOREM ImplementsSession == Spec => Gdk!Spec
<1>1. Init => Gdk!Init
  BY DEF Init, Gdk!Init, Using
<1>2. GateInv /\ GateInv' /\ [Next]_vars => [Gdk!Next]_(Gdk!vars)
  BY SessionStep
<1>. QED BY <1>1, <1>2, GateInvariant, PTL DEF Spec, Gdk!Spec
=============================================================================
