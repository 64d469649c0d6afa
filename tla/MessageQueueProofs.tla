------------------------- MODULE MessageQueueProofs -------------------------
(***************************************************************************)
(* Proofs about MessageQueue: it implements FifoService for every maxsize  *)
(* and every number of messages.                                           *)
(***************************************************************************)
EXTENDS MessageQueue, Integers, FiniteSetTheorems, TLAPS

HasStop == queue # <<>> /\ queue[Len(queue)] = Stop

\* How many messages wait in the queue, and the last message that left it.
Behind == IF HasStop THEN Len(queue) - 1 ELSE Len(queue)
Front == sequence - Behind

\* The queue holds the messages accepted last, in order, and the sentinel at most
\* at its end.
QueueOrder ==
    /\ Behind <= sequence
    /\ \A i \in 1 .. Behind : queue[i] = Front + i
    /\ HasStop => main \notin {"serving", "putting"}

StopState ==
    /\ stopping <=> main # "serving"
    /\ main = "stopped" => wpc = "dead"

TakenPCs == {"begin", "announce", "handling", "handled"}
AfterPCs == {"report", "failing", "complain", "clearing", "dying"}

\* What the worker has in its hands.
InHand ==
    /\ wpc = "check" /\ item # Stop => item = Front /\ fate[item] = "waiting"
    /\ wpc \in TakenPCs => item = Front /\ item \in Messages /\ fate[item] = "taken"
    /\ wpc \in AfterPCs => item = Front /\ item \in Messages
    /\ wpc \in AfterPCs \ {"failing"} => fate[item] \in Service!Settled
    /\ wpc = "failing" => fate[item] \in {"taken"} \union Service!Settled

\* The fate of every message but the one in hand follows from its number.
Fate ==
    \A m \in Messages :
        /\ m > sequence => fate[m] = "new"
        /\ m > Front /\ m <= sequence => fate[m] = "waiting"
        /\ m < Front => fate[m] \in Service!Settled
        /\ m = Front /\ ~(wpc \in {"check", "failing"} \union TakenPCs /\ m = item)
              => fate[m] \in Service!Settled

ActiveItem ==
    /\ wpc \in {"get", "empty", "check", "begin", "dead"} => active = None
    /\ active \in {None, item}


\* A message is offered only below the bound.
OfferedBelowBound == paho = "calling" => sequence < MaxMessages

QueueInv ==
    /\ TypeOK
    /\ OfferedBelowBound
    /\ QueueOrder
    /\ StopState
    /\ InHand
    /\ Fate
    /\ ActiveItem

\* The messages in a queue that a step leaves alone.
LEMMA SameQueue ==
    ASSUME UNCHANGED <<queue, sequence>>
    PROVE  Behind' = Behind /\ Front' = Front /\ HasStop' = HasStop
BY DEF Behind, Front, HasStop

LEMMA BehindInQueue ==
    ASSUME TypeOK
    PROVE  /\ Behind \in Nat /\ Behind <= Len(queue)
           /\ Len(queue) = IF HasStop THEN Behind + 1 ELSE Behind
           /\ Front \in Int
BY DEF TypeOK, Behind, Front, HasStop, Messages, Stop

LEMMA Appended ==
    ASSUME TypeOK, NEW x \in Messages \union {Stop}, queue' = Append(queue, x)
    PROVE  /\ queue' # <<>> /\ queue' \in Seq(Messages \union {Stop})
           /\ Len(queue') = Len(queue) + 1
           /\ queue'[Len(queue')] = x
           /\ \A i \in 1 .. Len(queue) : queue'[i] = queue[i]
BY DEF TypeOK

LEMMA TypesKept ==
    ASSUME TypeOK, OfferedBelowBound, [Next]_vars
    PROVE  TypeOK' /\ OfferedBelowBound'
<1> USE QueueAssumption DEF TypeOK, OfferedBelowBound, Messages, Stop, None, MainPCs, WorkerPCs,
        queueVars, workerVars, counters, Service!Fates, Service!Settled
<1>1. CASE Offer BY <1>1 DEF Offer
<1>2. CASE Accept BY <1>2 DEF Accept, Running
<1>3. CASE Refuse BY <1>3 DEF Refuse
<1>4. CASE BeginStop BY <1>4 DEF BeginStop
<1>5. CASE PutSentinel BY <1>5 DEF PutSentinel
<1>6. CASE PutTimesOut BY <1>6 DEF PutTimesOut
<1>7. CASE Joined BY <1>7 DEF Joined
<1>8. CASE JoinTimesOut BY <1>8 DEF JoinTimesOut
<1>9. CASE Get BY <1>9 DEF Get
<1>10. CASE GetTimesOut BY <1>10 DEF GetTimesOut
<1>11. CASE AfterEmpty BY <1>11 DEF AfterEmpty
<1>12. CASE TakeStop BY <1>12 DEF TakeStop
<1>13. CASE Discard BY <1>13 DEF Discard
<1>14. CASE Take BY <1>14 DEF Take
<1>15. CASE BeginItem BY <1>15 DEF BeginItem
<1>16. CASE Announce BY <1>16 DEF Announce
<1>17. CASE Handle BY <1>17 DEF Handle
<1>18. CASE Complete
  <2>1. fate' \in [Messages -> Service!Fates] BY <1>18 DEF Complete
  <2>2. completed' \in Nat BY <1>18 DEF Complete
  <2> QED BY <1>18, <2>1, <2>2 DEF Complete
<1>19. CASE Report BY <1>19 DEF Report
<1>20. CASE Fail
  <2>1. fate' \in [Messages -> Service!Fates] BY <1>20 DEF Fail
  <2>2. failed' \in Nat BY <1>20 DEF Fail
  <2> QED BY <1>20, <2>1, <2>2 DEF Fail
<1>21. CASE Complain BY <1>21 DEF Complain
<1>22. CASE Finally BY <1>22 DEF Finally
<1>23. CASE UNCHANGED vars BY <1>23 DEF vars
<1> QED
  BY <1>1, <1>2, <1>3, <1>4, <1>5, <1>6, <1>7, <1>8, <1>9, <1>10, <1>11, <1>12,
     <1>13, <1>14, <1>15, <1>16, <1>17, <1>18, <1>19, <1>20, <1>21, <1>22, <1>23
     DEF Next, Enqueue, StopCall, Worker

\* Accepting puts the next message behind the others.
LEMMA AcceptKeeps ==
    ASSUME QueueInv, Accept
    PROVE  QueueOrder' /\ Fate' /\ InHand' /\ Front' = Front
<1> USE DEF Messages, Stop
<1>1. /\ TypeOK /\ QueueOrder /\ StopState /\ InHand /\ Fate
      /\ sequence \in Nat /\ sequence < MaxMessages /\ MaxMessages \in Nat
  BY QueueAssumption DEF QueueInv, OfferedBelowBound, Accept, TypeOK
<1>2. ~HasStop /\ Behind = Len(queue)
  BY <1>1 DEF Accept, Running, QueueOrder, StopState, Behind
<1>3. /\ queue' # <<>> /\ Len(queue') = Len(queue) + 1
      /\ queue'[Len(queue')] = sequence + 1
      /\ \A i \in 1 .. Len(queue) : queue'[i] = queue[i]
  BY <1>1, Appended DEF Accept
<1>4. ~HasStop' /\ Behind' = Behind + 1 /\ Front' = Front
      /\ Behind \in Nat /\ Front \in Int /\ sequence' = sequence + 1
  <2>1. Behind \in Nat /\ Front \in Int BY <1>1, BehindInQueue
  <2>2. sequence' = sequence + 1 BY DEF Accept
  <2>3. ~HasStop' BY <1>1, <1>3 DEF HasStop
  <2> QED BY <2>1, <2>2, <2>3, <1>1, <1>2, <1>3 DEF Behind, Front
<1>5. QueueOrder'
  <2>1. Behind <= sequence /\ \A i \in 1 .. Behind : queue[i] = Front + i
    BY <1>1 DEF QueueOrder
  <2>2. Behind' <= sequence' BY <2>1, <1>1, <1>4
  <2>3. ASSUME NEW i \in 1 .. Behind' PROVE queue'[i] = Front' + i
    <3>1. CASE i = Behind + 1 BY <3>1, <1>1, <1>2, <1>3, <1>4 DEF Front
    <3>2. CASE i # Behind + 1 BY <3>2, <1>2, <1>3, <1>4, <2>1
    <3> QED BY <3>1, <3>2
  <2> QED BY <2>2, <2>3, <1>4 DEF QueueOrder
<1>6. /\ fate' = [fate EXCEPT ![sequence + 1] = "waiting"]
      /\ Front <= sequence /\ item' = item /\ wpc' = wpc
  BY <1>1, <1>4 DEF Accept, workerVars, QueueOrder, Front
<1>7. Fate'
  <2>1. fate \in [Messages -> Service!Fates] BY <1>1 DEF TypeOK
  <2> QED BY <2>1, <1>1, <1>4, <1>6 DEF Fate
<1>8. InHand'
  <2>1. \A m \in Messages : m = Front => fate'[m] = fate[m]
    BY <1>1, <1>4, <1>6 DEF TypeOK
  <2>2. item \in Messages \/ item = Stop BY <1>1 DEF TypeOK
  <2>3. item = Front /\ item \in Messages => fate'[item'] = fate[item] BY <2>1, <1>6
  <2> HIDE DEF Messages, Stop
  <2> QED BY <2>2, <2>3, <1>1, <1>4, <1>6 DEF InHand, TakenPCs, AfterPCs
<1> QED BY <1>4, <1>5, <1>7, <1>8

\* Taking an item moves the front of the queue by one message, or finds the sentinel.
LEMMA GetKeeps ==
    ASSUME QueueInv, Get
    PROVE  /\ QueueOrder' /\ Fate' /\ InHand'
           /\ Front' = IF Behind = 0 THEN Front ELSE Front + 1
<1> USE DEF Messages, Stop
<1>1. /\ TypeOK /\ QueueOrder /\ Fate /\ queue # <<>>
      /\ wpc = "get" /\ wpc' = "check" /\ fate' = fate /\ sequence' = sequence
      /\ main' = main /\ item' = Head(queue) /\ queue' = Tail(queue)
      /\ sequence \in Nat /\ queue \in Seq(Messages \union {Stop})
  BY DEF QueueInv, Get, queueVars, TypeOK
<1>2. /\ Len(queue) \in Nat /\ Len(queue) > 0
      /\ Len(queue') = Len(queue) - 1 /\ item' = queue[1]
      /\ \A i \in 1 .. Len(queue') : queue'[i] = queue[i + 1]
  BY <1>1
<1>3. /\ Behind \in Nat /\ Behind <= sequence /\ Front \in Int
      /\ Len(queue) = IF HasStop THEN Behind + 1 ELSE Behind
      /\ Front = sequence - Behind
      /\ \A i \in 1 .. Behind : queue[i] = Front + i
  BY <1>1, BehindInQueue DEF QueueOrder, Front
<1>4. CASE Behind = 0
  <2>1. HasStop /\ Len(queue) = 1 BY <1>2, <1>3, <1>4
  <2>2. item' = Stop /\ Len(queue') = 0 BY <2>1, <1>2 DEF HasStop
  <2>3. queue' = <<>> BY <2>1, <1>1
  <2>4. ~HasStop' /\ Behind' = 0 /\ Front' = Front
    BY <2>2, <2>3, <1>1, <1>3, <1>4 DEF HasStop, Behind, Front
  <2>5. QueueOrder' BY <2>4, <1>1 DEF QueueOrder
  <2>6. Fate' BY <2>4, <1>1, <1>3 DEF Fate, TakenPCs
  <2>7. InHand' BY <2>2, <1>1 DEF InHand, TakenPCs, AfterPCs
  <2> QED BY <1>4, <2>4, <2>5, <2>6, <2>7
<1>5. CASE Behind > 0
  <2>1. item' = Front + 1 BY <1>2, <1>3, <1>5
  <2>2. HasStop' <=> HasStop
    <3>1. CASE HasStop
      <4>1. Len(queue') > 0 /\ queue'[Len(queue')] = queue[Len(queue)]
        BY <3>1, <1>2, <1>3, <1>5
      <4>2. queue' # <<>> BY <4>1
      <4>3. queue'[Len(queue')] = Stop BY <4>1, <3>1 DEF HasStop
      <4> QED BY <4>2, <4>3, <3>1 DEF HasStop
    <3>2. CASE ~HasStop
      <4>1. CASE Len(queue') = 0 BY <4>1, <3>2, <1>1 DEF HasStop
      <4>2. CASE Len(queue') > 0
        <5>1. queue'[Len(queue')] = queue[Len(queue)] BY <4>2, <1>2
        <5> QED BY <5>1, <3>2, <1>1 DEF HasStop
      <4> QED BY <4>1, <4>2, <1>2
    <3> QED BY <3>1, <3>2
  <2>3. Behind' = Behind - 1 /\ Front' = Front + 1
    <3>1. CASE HasStop BY <3>1, <2>2, <1>1, <1>2, <1>3 DEF Behind, Front
    <3>2. CASE ~HasStop
      <4>1. Behind = Len(queue) BY <3>2 DEF Behind
      <4>2. Behind' = Len(queue') BY <3>2, <2>2 DEF Behind
      <4> QED BY <4>1, <4>2, <1>1, <1>2, <1>3 DEF Front
    <3> QED BY <3>1, <3>2
  <2>4. QueueOrder'
    <3>1. Behind' <= sequence' BY <2>3, <1>1, <1>3
    <3>2. \A i \in 1 .. Behind' : queue'[i] = Front' + i
      BY <2>3, <1>2, <1>3
    <3>3. HasStop' => main' \notin {"serving", "putting"} BY <2>2, <1>1 DEF QueueOrder
    <3> QED BY <3>1, <3>2, <3>3 DEF QueueOrder
  <2>5. Fate' BY <2>1, <2>3, <1>1, <1>3 DEF Fate, TakenPCs
  <2>6. InHand'
    <3>1. item' \in Messages => fate'[item'] = "waiting"
      BY <2>1, <1>1, <1>3, <1>5 DEF Fate
    <3>2. item' \in Messages \union {Stop} BY <1>1, TypesKept DEF TypeOK
    <3> QED BY <3>1, <3>2, <2>1, <2>3, <1>1 DEF InHand, TakenPCs, AfterPCs
  <2> QED BY <1>5, <2>3, <2>4, <2>5, <2>6
<1> QED BY <1>3, <1>4, <1>5

\* The sentinel goes to the end of the queue and changes no number in it.
LEMMA PutKeeps ==
    ASSUME QueueInv, PutSentinel
    PROVE  QueueOrder' /\ Fate' /\ InHand' /\ Front' = Front
<1> USE DEF Messages, Stop
<1>1. /\ TypeOK /\ QueueOrder /\ Fate /\ InHand /\ main = "putting" /\ main' = "joining"
      /\ queue' = Append(queue, Stop) /\ sequence' = sequence /\ fate' = fate
      /\ wpc' = wpc /\ item' = item
  BY DEF QueueInv, PutSentinel, workerVars
<1>2. ~HasStop BY <1>1 DEF QueueOrder
<1>3. /\ queue' # <<>> /\ Len(queue') = Len(queue) + 1 /\ queue'[Len(queue')] = Stop
      /\ \A i \in 1 .. Len(queue) : queue'[i] = queue[i]
  BY <1>1, Appended
<1>4. HasStop' /\ Behind' = Behind /\ Front' = Front /\ Behind = Len(queue)
  BY <1>1, <1>2, <1>3, BehindInQueue DEF HasStop, Behind, Front
<1>5. QueueOrder' BY <1>1, <1>3, <1>4 DEF QueueOrder
<1> QED BY <1>1, <1>4, <1>5 DEF Fate, InHand

\* A step that leaves the queue alone keeps the order of the queue.
LEMMA SameOrder ==
    ASSUME QueueInv, UNCHANGED <<queue, sequence>>,
           main' \in {"serving", "putting"} => main \in {"serving", "putting"}
    PROVE  QueueOrder'
BY SameQueue DEF QueueInv, QueueOrder

LEMMA StopStateKept == ASSUME QueueInv, [Next]_vars PROVE StopState'
<1> USE DEF QueueInv, StopState, queueVars, workerVars
<1>1. CASE Offer BY <1>1 DEF Offer
<1>2. CASE Accept BY <1>2 DEF Accept
<1>3. CASE Refuse BY <1>3 DEF Refuse
<1>4. CASE BeginStop BY <1>4 DEF BeginStop
<1>5. CASE PutSentinel BY <1>5 DEF PutSentinel
<1>6. CASE PutTimesOut BY <1>6 DEF PutTimesOut
<1>7. CASE Joined BY <1>7 DEF Joined
<1>8. CASE JoinTimesOut BY <1>8 DEF JoinTimesOut
<1>9. CASE Get BY <1>9 DEF Get
<1>10. CASE GetTimesOut BY <1>10 DEF GetTimesOut
<1>11. CASE AfterEmpty BY <1>11 DEF AfterEmpty
<1>12. CASE TakeStop BY <1>12 DEF TakeStop
<1>13. CASE Discard BY <1>13 DEF Discard
<1>14. CASE Take BY <1>14 DEF Take
<1>15. CASE BeginItem BY <1>15 DEF BeginItem
<1>16. CASE Announce BY <1>16 DEF Announce
<1>17. CASE Handle BY <1>17 DEF Handle
<1>18. CASE Complete BY <1>18 DEF Complete
<1>19. CASE Report BY <1>19 DEF Report
<1>20. CASE Fail BY <1>20 DEF Fail
<1>21. CASE Complain BY <1>21 DEF Complain
<1>22. CASE Finally BY <1>22 DEF Finally
<1>23. CASE UNCHANGED vars BY <1>23 DEF vars
<1> QED
  BY <1>1, <1>2, <1>3, <1>4, <1>5, <1>6, <1>7, <1>8, <1>9, <1>10, <1>11, <1>12,
     <1>13, <1>14, <1>15, <1>16, <1>17, <1>18, <1>19, <1>20, <1>21, <1>22, <1>23
     DEF Next, Enqueue, StopCall, Worker

LEMMA ActiveKept == ASSUME QueueInv, [Next]_vars PROVE ActiveItem'
<1> USE DEF QueueInv, ActiveItem, InHand, TakenPCs, AfterPCs, workerVars, None, Stop
<1>1. CASE Offer BY <1>1 DEF Offer
<1>2. CASE Accept BY <1>2 DEF Accept
<1>3. CASE Refuse BY <1>3 DEF Refuse
<1>4. CASE BeginStop BY <1>4 DEF BeginStop
<1>5. CASE PutSentinel BY <1>5 DEF PutSentinel
<1>6. CASE PutTimesOut BY <1>6 DEF PutTimesOut
<1>7. CASE Joined BY <1>7 DEF Joined
<1>8. CASE JoinTimesOut BY <1>8 DEF JoinTimesOut
<1>9. CASE Get BY <1>9 DEF Get
<1>10. CASE GetTimesOut BY <1>10 DEF GetTimesOut
<1>11. CASE AfterEmpty BY <1>11 DEF AfterEmpty
<1>12. CASE TakeStop BY <1>12 DEF TakeStop
<1>13. CASE Discard BY <1>13 DEF Discard
<1>14. CASE Take BY <1>14 DEF Take
<1>15. CASE BeginItem BY <1>15 DEF BeginItem
<1>16. CASE Announce BY <1>16 DEF Announce
<1>17. CASE Handle BY <1>17 DEF Handle
<1>18. CASE Complete BY <1>18 DEF Complete
<1>19. CASE Report BY <1>19 DEF Report
<1>20. CASE Fail BY <1>20 DEF Fail
<1>21. CASE Complain BY <1>21 DEF Complain
<1>22. CASE Finally BY <1>22 DEF Finally
<1>23. CASE UNCHANGED vars BY <1>23 DEF vars
<1> QED
  BY <1>1, <1>2, <1>3, <1>4, <1>5, <1>6, <1>7, <1>8, <1>9, <1>10, <1>11, <1>12,
     <1>13, <1>14, <1>15, <1>16, <1>17, <1>18, <1>19, <1>20, <1>21, <1>22, <1>23
     DEF Next, Enqueue, StopCall, Worker

LEMMA HandKept == ASSUME QueueInv, [Next]_vars PROVE InHand' /\ Fate'
<1> USE SameQueue DEF QueueInv, TypeOK, InHand, Fate, TakenPCs, AfterPCs, Messages, Stop,
        queueVars, workerVars, Service!Settled
<1>1. CASE Offer BY <1>1 DEF Offer
<1>2. CASE Accept BY <1>2, AcceptKeeps
<1>3. CASE Refuse BY <1>3 DEF Refuse
<1>4. CASE BeginStop BY <1>4 DEF BeginStop
<1>5. CASE PutSentinel BY <1>5, PutKeeps
<1>6. CASE PutTimesOut BY <1>6 DEF PutTimesOut
<1>7. CASE Joined BY <1>7 DEF Joined
<1>8. CASE JoinTimesOut BY <1>8 DEF JoinTimesOut
<1>9. CASE Get BY <1>9, GetKeeps
<1>10. CASE GetTimesOut BY <1>10 DEF GetTimesOut
<1>11. CASE AfterEmpty BY <1>11 DEF AfterEmpty
<1>12. CASE TakeStop BY <1>12 DEF TakeStop
<1>13. CASE Discard BY <1>13 DEF Discard
<1>14. CASE Take BY <1>14 DEF Take
<1>15. CASE BeginItem BY <1>15 DEF BeginItem
<1>16. CASE Announce BY <1>16 DEF Announce
<1>17. CASE Handle BY <1>17 DEF Handle
<1>18. CASE Complete BY <1>18 DEF Complete
<1>19. CASE Report BY <1>19 DEF Report
<1>20. CASE Fail BY <1>20 DEF Fail
<1>21. CASE Complain BY <1>21 DEF Complain
<1>22. CASE Finally BY <1>22 DEF Finally
<1>23. CASE UNCHANGED vars BY <1>23 DEF vars
<1> QED
  BY <1>1, <1>2, <1>3, <1>4, <1>5, <1>6, <1>7, <1>8, <1>9, <1>10, <1>11, <1>12,
     <1>13, <1>14, <1>15, <1>16, <1>17, <1>18, <1>19, <1>20, <1>21, <1>22, <1>23
     DEF Next, Enqueue, StopCall, Worker

LEMMA QueueOrderKept == ASSUME QueueInv, [Next]_vars PROVE QueueOrder'
<1> USE SameOrder DEF queueVars
<1>1. CASE Offer BY <1>1 DEF Offer
<1>2. CASE Accept BY <1>2, AcceptKeeps
<1>3. CASE Refuse BY <1>3 DEF Refuse
<1>4. CASE BeginStop BY <1>4 DEF BeginStop
<1>5. CASE PutSentinel BY <1>5, PutKeeps
<1>6. CASE PutTimesOut BY <1>6 DEF PutTimesOut
<1>7. CASE Joined BY <1>7 DEF Joined
<1>8. CASE JoinTimesOut BY <1>8 DEF JoinTimesOut
<1>9. CASE Get BY <1>9, GetKeeps
<1>10. CASE GetTimesOut BY <1>10 DEF GetTimesOut
<1>11. CASE AfterEmpty BY <1>11 DEF AfterEmpty
<1>12. CASE TakeStop BY <1>12 DEF TakeStop
<1>13. CASE Discard BY <1>13 DEF Discard
<1>14. CASE Take BY <1>14 DEF Take
<1>15. CASE BeginItem BY <1>15 DEF BeginItem
<1>16. CASE Announce BY <1>16 DEF Announce
<1>17. CASE Handle BY <1>17 DEF Handle
<1>18. CASE Complete BY <1>18 DEF Complete
<1>19. CASE Report BY <1>19 DEF Report
<1>20. CASE Fail BY <1>20 DEF Fail
<1>21. CASE Complain BY <1>21 DEF Complain
<1>22. CASE Finally BY <1>22 DEF Finally
<1>23. CASE UNCHANGED vars BY <1>23 DEF vars
<1> QED
  BY <1>1, <1>2, <1>3, <1>4, <1>5, <1>6, <1>7, <1>8, <1>9, <1>10, <1>11, <1>12,
     <1>13, <1>14, <1>15, <1>16, <1>17, <1>18, <1>19, <1>20, <1>21, <1>22, <1>23
     DEF Next, Enqueue, StopCall, Worker

LEMMA InvKept == ASSUME QueueInv, [Next]_vars PROVE QueueInv'
BY TypesKept, QueueOrderKept, StopStateKept, HandKept, ActiveKept DEF QueueInv

LEMMA InvInit == ASSUME Init PROVE QueueInv
<1> USE QueueAssumption DEF Init, Messages, Stop, None
<1>1. TypeOK
  <2>1. queue \in Seq(Messages \union {Stop}) /\ Len(queue) = 0 BY DEF Init
  <2>2. fate \in [Messages -> Service!Fates] BY DEF Service!Fates
  <2>3. Len(queue) <= MaxSize BY <2>1
  <2>4. stopping \in BOOLEAN
    <3>1. stopping = FALSE BY DEF Init
    <3> QED BY <3>1
  <2>5. sequence \in 0 .. MaxMessages BY DEF Init
  <2>6. main \in MainPCs /\ wpc \in WorkerPCs BY DEF MainPCs, WorkerPCs
  <2> QED BY <2>1, <2>2, <2>3, <2>4, <2>5, <2>6 DEF TypeOK
<1>2. ~HasStop /\ Behind = 0 /\ Front = 0
  <2>1. ~HasStop /\ Len(queue) = 0 BY DEF HasStop
  <2>2. Behind = 0 BY <2>1 DEF Behind
  <2> QED BY <2>1, <2>2 DEF Front
<1>3. QueueOrder BY <1>2 DEF QueueOrder
<1>4. StopState BY DEF StopState
<1>5. InHand BY DEF InHand, TakenPCs, AfterPCs
<1>6. Fate BY <1>2 DEF Fate
<1>7. ActiveItem BY DEF ActiveItem
<1> QED BY <1>1, <1>3, <1>4, <1>5, <1>6, <1>7 DEF QueueInv, OfferedBelowBound

\* The inductive invariant holds in every reachable state.
THEOREM QueueInvariant == Spec => []QueueInv
BY InvInit, InvKept, PTL DEF Spec

\* Every variable keeps its type, and the queue its bound, whatever maxsize is.
THEOREM TypeCorrect == Spec => []TypeOK
<1>1. QueueInv => TypeOK BY DEF QueueInv
<1> QED BY <1>1, QueueInvariant, PTL

\* When stop() returned without giving up, no handler runs and none will.
THEOREM StopIsQuiet == Spec => []StoppedIsQuiet
<1>1. ASSUME QueueInv PROVE StoppedIsQuiet
  <2>1. SUFFICES ASSUME main = "stopped"
                 PROVE  wpc = "dead" /\ active = None /\ Having({"taken"}) = {}
    BY DEF StoppedIsQuiet
  <2>2. wpc = "dead" /\ active = None
    BY <1>1, <2>1 DEF QueueInv, StopState, ActiveItem
  <2>3. ASSUME NEW m \in Messages PROVE fate[m] # "taken"
    <3>1. sequence \in Nat /\ Front \in Int /\ m \in Nat
      BY <1>1, BehindInQueue DEF QueueInv, TypeOK, Messages
    <3>2. m > sequence \/ (m > Front /\ m <= sequence) \/ m < Front \/ m = Front
      BY <3>1
    <3> QED BY <1>1, <2>2, <3>2 DEF QueueInv, Fate, TakenPCs, Service!Settled
  <2> QED BY <2>2, <2>3 DEF Having
<1> QED BY <1>1, QueueInvariant, PTL

\* The worker is at a message that it has counted as dequeued and not as ended.
AtWork ==
    \/ wpc \in {"announce", "handling", "handled"}
    \/ wpc = "failing" /\ fate[item] = "taken"

\* The counters against the fates, and the active item against the one in hand.
Counted ==
    /\ completed = Cardinality(Having({"handled"}))
    /\ dequeued = Cardinality(Having({"handled", "failed"})) + (IF AtWork THEN 1 ELSE 0)
    /\ AtWork => active = item
    /\ wpc \in AfterPCs /\ active # None => fate[item] \in {"taken", "handled", "failed"}

LEMMA HavingSize ==
    ASSUME TypeOK, NEW F
    PROVE  IsFiniteSet(Having(F)) /\ Cardinality(Having(F)) \in Nat
<1>1. IsFiniteSet(Messages)
  BY QueueAssumption, FS_Interval DEF Messages
<1>2. Having(F) \subseteq Messages
  BY DEF Having
<1> QED BY <1>1, <1>2, FS_Subset, FS_CardinalityType

\* A change of one fate into F counts one more.
LEMMA OneMore ==
    ASSUME TypeOK, NEW F, NEW m \in Messages, NEW f, fate' = [fate EXCEPT ![m] = f],
           fate[m] \notin F, f \in F
    PROVE  Cardinality(Having(F)') = Cardinality(Having(F)) + 1
<1>1. fate \in [Messages -> Service!Fates]
  BY DEF TypeOK
<1>2. Having(F)' = Having(F) \union {m} /\ m \notin Having(F)
  BY <1>1 DEF Having
<1> QED BY <1>2, HavingSize, FS_AddElement

\* A step that leaves the fates and what the worker is at alone keeps the count.
LEMMA SameCount ==
    ASSUME Counted, UNCHANGED <<fate, completed, dequeued, active>>,
           AtWork' <=> AtWork, AtWork' => item' = item,
           wpc' \in AfterPCs /\ active # None =>
               fate[item'] \in {"taken", "handled", "failed"}
    PROVE  Counted'
<1>1. \A F : Having(F)' = Having(F)
  BY DEF Having
<1> QED BY <1>1 DEF Counted

LEMMA CountKept == ASSUME QueueInv, Counted, [Next]_vars PROVE Counted'
<1> USE DEF QueueInv, queueVars, workerVars, counters
<1>1. TypeOK /\ InHand /\ Fate /\ ActiveItem
  OBVIOUS
<1>2. CASE Accept
  <2>1. /\ sequence + 1 \in Messages /\ fate[sequence + 1] = "new"
        /\ fate' = [fate EXCEPT ![sequence + 1] = "waiting"]
        /\ UNCHANGED <<completed, dequeued, active, item, wpc>>
    BY <1>2, QueueAssumption DEF Accept, TypeOK, OfferedBelowBound, Fate, Messages
  <2>2. /\ Having({"handled"})' = Having({"handled"})
        /\ Having({"handled", "failed"})' = Having({"handled", "failed"})
    BY <1>1, <2>1 DEF Having, TypeOK
  <2>3. wpc \in AfterPCs => fate'[item] = fate[item]
    BY <1>1, <2>1 DEF InHand, AfterPCs, Service!Settled, TypeOK
  <2> QED BY <2>1, <2>2, <2>3 DEF Counted, AtWork, AfterPCs
<1>3. CASE Discard
  <2>1. /\ item \in Messages /\ fate[item] = "waiting" /\ active = None /\ active' = active
        /\ fate' = [fate EXCEPT ![item] = "dropped"] /\ item' = item /\ wpc = "check"
        /\ wpc' \in {"clearing", "failing"} /\ UNCHANGED <<completed, dequeued>>
    BY <1>1, <1>3 DEF Discard, InHand, ActiveItem, TypeOK
  <2>2. /\ Having({"handled"})' = Having({"handled"})
        /\ Having({"handled", "failed"})' = Having({"handled", "failed"})
    BY <1>1, <2>1 DEF Having, TypeOK
  <2>3. fate'[item] = "dropped"
    BY <1>1, <2>1 DEF TypeOK
  <2> QED BY <2>1, <2>2, <2>3 DEF Counted, AtWork, AfterPCs
<1>4. CASE Take
  <2>1. /\ item \in Messages /\ fate[item] = "waiting" /\ active' = active
        /\ fate' = [fate EXCEPT ![item] = "taken"] /\ wpc = "check" /\ wpc' = "begin"
        /\ UNCHANGED <<completed, dequeued>>
    BY <1>1, <1>4 DEF Take, InHand, TypeOK
  <2>2. /\ Having({"handled"})' = Having({"handled"})
        /\ Having({"handled", "failed"})' = Having({"handled", "failed"})
    BY <1>1, <2>1 DEF Having, TypeOK
  <2> QED BY <2>1, <2>2 DEF Counted, AtWork, AfterPCs
<1>5. CASE BeginItem
  <2>1. \A F : Having(F)' = Having(F)
    BY <1>5 DEF Having, BeginItem
  <2>2. Cardinality(Having({"handled", "failed"})) \in Nat
    BY HavingSize
  <2> QED BY <1>5, <2>1, <2>2 DEF BeginItem, Counted, AtWork, AfterPCs
<1>6. CASE Announce \/ Handle
  <2>1. /\ UNCHANGED <<fate, completed, dequeued, active, item>> /\ AtWork /\ AtWork'
        /\ fate[item] = "taken"
    BY <1>1, <1>6 DEF Announce, Handle, AtWork, InHand, TakenPCs
  <2> QED BY <2>1, SameCount
<1>7. CASE Complete
  <2>1. /\ item \in Messages /\ fate[item] = "taken" /\ active = item /\ active' = active
        /\ fate' = [fate EXCEPT ![item] = "handled"] /\ item' = item
        /\ wpc = "handled" /\ wpc' = "report" /\ dequeued' = dequeued
        /\ completed' = completed + 1
    BY <1>1, <1>7 DEF Complete, InHand, TakenPCs, Counted, AtWork
  <2>2. /\ Cardinality(Having({"handled"})') = Cardinality(Having({"handled"})) + 1
        /\ Cardinality(Having({"handled", "failed"})')
             = Cardinality(Having({"handled", "failed"})) + 1
    BY <2>1, OneMore
  <2>3. fate'[item] = "handled" /\ Cardinality(Having({"handled", "failed"})) \in Nat
    BY <1>1, <2>1, HavingSize DEF TypeOK
  <2> QED BY <2>1, <2>2, <2>3 DEF Counted, AtWork, AfterPCs
<1>8. CASE Fail
  <2>1. /\ item \in Messages /\ item' = item /\ active' = active
        /\ wpc = "failing" /\ wpc' = "complain" /\ dequeued' = dequeued
        /\ completed' = completed /\ Cardinality(Having({"handled", "failed"})) \in Nat
    BY <1>1, <1>8, HavingSize DEF Fail, InHand, AfterPCs
  <2>2. CASE fate[item] = "taken"
    <3>1. fate' = [fate EXCEPT ![item] = "failed"]
      BY <1>8, <2>2 DEF Fail
    <3>2. /\ Having({"handled"})' = Having({"handled"})
          /\ Cardinality(Having({"handled", "failed"})')
               = Cardinality(Having({"handled", "failed"})) + 1
      <4>1. Having({"handled"})' = Having({"handled"})
        BY <1>1, <2>1, <2>2, <3>1 DEF Having, TypeOK
      <4> QED BY <2>1, <2>2, <3>1, <4>1, OneMore
    <3>3. fate'[item] = "failed"
      BY <1>1, <2>1, <3>1 DEF TypeOK
    <3> QED BY <2>1, <2>2, <3>2, <3>3 DEF Counted, AtWork, AfterPCs
  <2>3. CASE fate[item] # "taken"
    <3>1. fate' = fate
      BY <1>1, <1>8, <2>1, <2>3 DEF Fail, TypeOK
    <3>2. ~AtWork /\ ~AtWork'
      BY <2>1, <2>3 DEF AtWork
    <3>3. active # None => fate[item] \in {"taken", "handled", "failed"}
      BY <2>1 DEF Counted, AfterPCs
    <3> QED BY <2>1, <3>1, <3>2, <3>3, SameCount
  <2> QED BY <2>2, <2>3
<1>9. CASE Report \/ Complain
  <2>1. /\ UNCHANGED <<fate, completed, dequeued, active, item>>
        /\ wpc \in AfterPCs \ {"failing"} /\ wpc' \in AfterPCs
    BY <1>9 DEF Report, Complain, AfterPCs
  <2>2. ~AtWork /\ ~AtWork'
    BY <1>1, <2>1 DEF AtWork, AfterPCs, InHand, Service!Settled
  <2>3. active # None => fate[item] \in {"taken", "handled", "failed"}
    BY <2>1 DEF Counted
  <2> QED BY <2>1, <2>2, <2>3, SameCount
<1>10. CASE Finally
  <2>1. /\ UNCHANGED <<fate, completed, dequeued>> /\ ~AtWork /\ ~AtWork'
        /\ wpc' \notin AfterPCs
    BY <1>10 DEF Finally, AtWork, AfterPCs
  <2>2. \A F : Having(F)' = Having(F)
    BY <2>1 DEF Having
  <2> QED BY <2>1, <2>2 DEF Counted
<1>11. CASE Get \/ GetTimesOut \/ AfterEmpty \/ TakeStop
  <2>1. UNCHANGED <<fate, completed, dequeued, active>> /\ ~AtWork /\ ~AtWork' /\ wpc' \notin AfterPCs
    BY <1>11 DEF Get, GetTimesOut, AfterEmpty, TakeStop, AtWork, AfterPCs
  <2> QED BY <2>1, SameCount
<1>12. CASE UNCHANGED <<workerVars, counters, fate>>
  <2>1. (AtWork' <=> AtWork)
    BY <1>12 DEF AtWork
  <2> QED BY <1>12, <2>1, SameCount DEF Counted
<1>13. \/ Accept \/ Discard \/ Take \/ BeginItem \/ Announce \/ Handle \/ Complete \/ Fail
       \/ Report \/ Complain \/ Finally \/ Get \/ GetTimesOut \/ AfterEmpty \/ TakeStop
       \/ UNCHANGED <<workerVars, counters, fate>>
  BY DEF Next, Enqueue, StopCall, Worker, Offer, Refuse, BeginStop, PutSentinel, PutTimesOut,
         Joined, JoinTimesOut, vars
<1> QED
  BY <1>2, <1>3, <1>4, <1>5, <1>6, <1>7, <1>8, <1>9, <1>10, <1>11, <1>12, <1>13

\* snapshot() accounts for every message taken, over exceptions and failed event writes.
THEOREM SnapshotTells == Spec => []SnapshotAccounts
<1>1. Init => Counted
  <2> SUFFICES ASSUME Init PROVE Counted
    OBVIOUS
  <2>1. Having({"handled"}) = {} /\ Having({"handled", "failed"}) = {}
    BY DEF Init, Having
  <2>2. Cardinality({}) = 0
    BY FS_EmptySet
  <2>3. ~AtWork /\ wpc \notin AfterPCs /\ completed = 0 /\ dequeued = 0
    BY DEF Init, AtWork, AfterPCs
  <2> QED BY <2>1, <2>2, <2>3 DEF Counted
<1>2. QueueInv /\ Counted /\ [Next]_vars => Counted'
  BY CountKept
<1>3. QueueInv /\ Counted => SnapshotAccounts
  <2> SUFFICES ASSUME QueueInv, Counted PROVE SnapshotAccounts
    OBVIOUS
  <2>1. active # None => active = item /\ item \in Messages
    BY DEF QueueInv, ActiveItem, TypeOK, None, Stop
  <2>2. AtWork => active # None /\ fate[item] = "taken"
    BY DEF QueueInv, InHand, TakenPCs, AfterPCs, AtWork, Counted, Messages, None
  <2>3. active # None => fate[item] \in {"taken", "handled", "failed"}
                         /\ (fate[item] = "taken" => AtWork)
    BY DEF QueueInv, TypeOK, WorkerPCs, InHand, ActiveItem, TakenPCs, AfterPCs, AtWork, Counted,
           Service!Settled
  <2> QED BY <2>1, <2>2, <2>3 DEF SnapshotAccounts, Counted
<1> QED BY <1>1, <1>2, <1>3, QueueInvariant, PTL DEF Spec

\* In the states of the invariant the oldest waiting message is the one in hand.
LEMMA HandIsOldest ==
    ASSUME QueueInv, NEW m \in Messages, m = Front
    PROVE  Service!Oldest(m)
<1> SUFFICES ASSUME NEW k \in Messages, k < m PROVE fate[k] \in Service!Settled
  BY DEF Service!Oldest
<1> QED BY DEF QueueInv, Fate

\* Each step is a step of FifoService, or none for it.
LEMMA StepRefines ==
    ASSUME QueueInv, [Next]_vars
    PROVE  [Service!Next]_(Service!vars)
<1> USE DEF Service!vars
<1>1. CASE Accept
  <2>1. /\ sequence + 1 \in Messages /\ ~stopping /\ stopping' = stopping
        /\ fate' = [fate EXCEPT ![sequence + 1] = "waiting"]
        /\ fate[sequence + 1] = "new"
    BY <1>1, QueueAssumption
       DEF Accept, Running, QueueInv, TypeOK, OfferedBelowBound, Fate, Messages
  <2>2. ASSUME NEW k \in Messages, k < sequence + 1 PROVE fate[k] # "new"
    <3>1. k \in Nat /\ sequence \in Nat /\ Front \in Int
      BY BehindInQueue DEF QueueInv, TypeOK, Messages
    <3>2. k <= sequence /\ (k > Front \/ k < Front \/ k = Front) BY <2>2, <3>1
    <3>3. CASE k # Front BY <3>1, <3>2, <3>3 DEF QueueInv, Fate, Service!Settled
    <3>4. CASE k = Front /\ wpc \in {"check", "failing"} \union TakenPCs /\ k = item
      <4>1. item # Stop BY <3>4 DEF Messages, Stop
      <4> QED BY <3>4, <4>1 DEF QueueInv, InHand, TakenPCs, Service!Settled
    <3>5. CASE k = Front /\ ~(wpc \in {"check", "failing"} \union TakenPCs /\ k = item)
      <4>1. fate[k] \in Service!Settled BY <3>5 DEF QueueInv, Fate
      <4> QED BY <4>1 DEF Service!Settled
    <3> QED BY <3>3, <3>4, <3>5
  <2>3. Service!Accept(sequence + 1) BY <2>1, <2>2 DEF Service!Accept
  <2> QED BY <2>1, <2>3 DEF Service!Next
<1>2. CASE BeginStop
  <2>1. ~stopping /\ stopping' /\ fate' = fate
    BY <1>2 DEF BeginStop, QueueInv, StopState
  <2> QED BY <2>1 DEF Service!Next, Service!Close
<1>3. CASE Discard
  <2>1. /\ item \in Messages /\ item = Front /\ fate[item] = "waiting"
        /\ stopping /\ stopping' = stopping
        /\ fate' = [fate EXCEPT ![item] = "dropped"]
    BY <1>3 DEF Discard, QueueInv, InHand, TypeOK, queueVars
  <2> QED BY <2>1, HandIsOldest DEF Service!Next, Service!Drop
<1>4. CASE Take
  <2>1. /\ item \in Messages /\ item = Front /\ fate[item] = "waiting"
        /\ ~stopping /\ stopping' = stopping
        /\ fate' = [fate EXCEPT ![item] = "taken"]
    BY <1>4 DEF Take, QueueInv, InHand, TypeOK, queueVars
  <2> QED BY <2>1, HandIsOldest DEF Service!Next, Service!Begin
<1>5. CASE Complete
  <2>1. /\ item \in Messages /\ fate[item] = "taken" /\ stopping' = stopping
        /\ fate' = [fate EXCEPT ![item] = "handled"]
    BY <1>5 DEF Complete, QueueInv, InHand, TakenPCs, queueVars
  <2> QED BY <2>1 DEF Service!Next, Service!Finish
<1>6. CASE Fail
  <2>1. item \in Messages /\ stopping' = stopping /\ fate \in [Messages -> Service!Fates]
    BY <1>6 DEF Fail, QueueInv, InHand, AfterPCs, TypeOK, queueVars
  <2>2. CASE fate[item] = "taken"
    <3>1. fate' = [fate EXCEPT ![item] = "failed"] BY <1>6, <2>2 DEF Fail
    <3> QED BY <2>1, <2>2, <3>1 DEF Service!Next, Service!Finish
  <2>3. CASE fate[item] # "taken"
    <3>1. fate' = fate BY <1>6, <2>1, <2>3 DEF Fail
    <3> QED BY <2>1, <3>1
  <2> QED BY <2>2, <2>3
<1>7. CASE UNCHANGED <<stopping, fate>> BY <1>7
<1>8. \/ Accept \/ BeginStop \/ Discard \/ Take \/ Complete \/ Fail
      \/ UNCHANGED <<stopping, fate>>
  BY DEF Next, Enqueue, StopCall, Worker, Offer, Refuse, PutSentinel, PutTimesOut,
         Joined, JoinTimesOut, Get, GetTimesOut, AfterEmpty, TakeStop, BeginItem,
         Announce, Handle, Report, Complain, Finally, vars, queueVars
<1> QED BY <1>1, <1>2, <1>3, <1>4, <1>5, <1>6, <1>7, <1>8

\* The queue with its sentinel, its lock, its failing handlers and its failing event
\* log implements the FIFO service: order, at most once, nothing begun after stop().
THEOREM ImplementsService == Spec => ServiceSpec
<1>1. Init => Service!Init BY DEF Init, Service!Init
<1>2. QueueInv /\ [Next]_vars => [Service!Next]_(Service!vars) BY StepRefines
<1> QED BY <1>1, <1>2, QueueInvariant, PTL DEF Spec, ServiceSpec, Service!Spec

----------------------------------------------------------------------------
(* Why an accepted message is served                                       *)

\* The steps which the worker still takes at most with the item it has.
Rank ==
    CASE wpc = "check" -> 11
      [] wpc = "begin" -> 10
      [] wpc = "announce" -> 9
      [] wpc = "handling" -> 8
      [] wpc = "handled" -> 7
      [] wpc = "report" -> 6
      [] wpc = "failing" -> 5
      [] wpc = "complain" -> 4
      [] wpc \in {"clearing", "dying"} -> 3
      [] wpc = "empty" -> 2
      [] wpc = "get" -> 1
      [] wpc = "dead" -> 0

Turn(m) == 11 * (m - Front) + Rank

\* A message that waits comes nearer to its turn with each step of the worker thread, also
\* when handlers raise and events cannot be written. Messages accepted later and the stop do
\* not set it back: enqueue never overtakes.
TurnComes ==
    [][\A m \in Messages : fate[m] = "waiting" =>
          /\ Turn(m) \in Nat
          /\ Worker => Turn(m)' < Turn(m)
          /\ ~Worker => Turn(m)' = Turn(m)]_vars

\* A message that waits is in the queue, unless the worker is about to look at it.
LEMMA WaitsInQueue ==
    ASSUME QueueInv, NEW m \in Messages, fate[m] = "waiting"
    PROVE  /\ m \in Nat /\ Front \in Int /\ Front <= m
           /\ m = Front => wpc = "check"
           /\ m > Front => Behind > 0 /\ queue # <<>>
<1>1. /\ TypeOK /\ Fate /\ InHand /\ Front \in Int /\ Behind \in Nat /\ Behind <= Len(queue)
      /\ m \in Nat /\ sequence \in Nat /\ Front = sequence - Behind /\ Len(queue) \in Nat
  BY BehindInQueue, QueueAssumption DEF QueueInv, TypeOK, Messages, Front
<1>2. m <= sequence /\ Front <= m
  BY <1>1 DEF Fate, Service!Settled
<1>3. m = Front => wpc = "check"
  BY <1>1 DEF Fate, InHand, TakenPCs, AfterPCs, Service!Settled
<1>. QED BY <1>1, <1>2, <1>3

\* Only the worker's get moves the front of the queue.
LEMMA FrontMoves ==
    ASSUME QueueInv, Next
    PROVE  /\ Front' = IF Get /\ Behind > 0 THEN Front + 1 ELSE Front
           /\ ~Worker => wpc' = wpc
<1>1. CASE Get
  BY <1>1, GetKeeps, BehindInQueue DEF QueueInv, Worker
<1>2. CASE ~Get /\ (Accept \/ PutSentinel)
  BY <1>2, AcceptKeeps, PutKeeps DEF Accept, PutSentinel, workerVars
<1>3. CASE ~Get /\ ~Accept /\ ~PutSentinel
  <2>1. UNCHANGED <<queue, sequence>>
    BY <1>3 DEF Next, Enqueue, StopCall, Worker, Offer, Refuse, BeginStop, PutTimesOut, Joined,
         JoinTimesOut, GetTimesOut, AfterEmpty, TakeStop, Discard, Take, BeginItem, Announce,
         Handle, Complete, Report, Fail, Complain, Finally, queueVars
  <2>2. ~Worker => wpc' = wpc
    BY <1>3 DEF Next, Enqueue, StopCall, Offer, Refuse, BeginStop, PutTimesOut, Joined,
         JoinTimesOut, workerVars
  <2>. QED BY <1>3, <2>1, <2>2, SameQueue
<1>. QED BY <1>1, <1>2, <1>3

\* Seen from message m: the front moves up by one when the rank is lowest, or the rank falls.
LEMMA TurnFalls ==
    ASSUME NEW m \in Nat, NEW f \in Int, NEW g \in Int, NEW r \in 0 .. 11, NEW s \in 0 .. 11,
           (g = f + 1 /\ r = 1) \/ (g = f /\ s < r)
    PROVE  11 * (m - g) + s < 11 * (m - f) + r
  OBVIOUS

\* A waiting message is reached after a bounded number of the worker's steps.
THEOREM WaitingIsBounded == Spec => TurnComes
<1>1. QueueInv => Rank \in 0 .. 11
  BY DEF QueueInv, TypeOK, WorkerPCs, Rank
<1>2. (QueueInv => Rank \in 0 .. 11)'
  BY <1>1, PTL
<1>3. ASSUME QueueInv, QueueInv', Next, NEW m \in Messages, fate[m] = "waiting"
      PROVE  /\ Turn(m) \in Nat
             /\ Worker => Turn(m)' < Turn(m)
             /\ ~Worker => Turn(m)' = Turn(m)
  <2>1. /\ m \in Nat /\ Front \in Int /\ Front <= m
        /\ m = Front => wpc = "check"
        /\ m > Front => Behind > 0 /\ queue # <<>>
        /\ Rank \in 0 .. 11 /\ Rank' \in 0 .. 11
    BY <1>1, <1>2, <1>3, WaitsInQueue
  <2>2. /\ Turn(m) = 11 * (m - Front) + Rank
        /\ Turn(m)' = 11 * (m - Front') + Rank'
    BY DEF Turn
  <2>3. Turn(m) \in Nat
    BY <2>1, <2>2
  <2>4. CASE Get
    <3>1. wpc = "get" /\ Front' = Front + 1 /\ Front' \in Int
      BY <1>3, <2>1, <2>4, FrontMoves DEF Get
    <3>2. Rank = 1
      BY <3>1 DEF Rank
    <3>3. Turn(m)' < Turn(m)
      BY <2>1, <2>2, <3>1, <3>2, TurnFalls
    <3>. QED BY <2>3, <2>4, <3>3 DEF Worker
  <2>5. CASE Worker /\ ~Get
    <3>1. ~GetTimesOut
      BY <2>1 DEF GetTimesOut
    <3>2. Rank' < Rank
      BY <2>5, <3>1 DEF Worker, AfterEmpty, TakeStop, Discard, Take, BeginItem, Announce, Handle,
           Complete, Report, Fail, Complain, Finally, Rank
    <3>3. Front' = Front
      BY <1>3, <2>5, FrontMoves
    <3>4. Turn(m)' < Turn(m)
      BY <2>1, <2>2, <3>2, <3>3, TurnFalls
    <3>. QED BY <2>3, <2>5, <3>4
  <2>6. CASE ~Worker
    <3>1. Front' = Front /\ Rank' = Rank
      BY <1>3, <2>6, FrontMoves DEF Worker, Rank
    <3>. QED BY <2>2, <2>3, <2>6, <3>1
  <2>. QED BY <2>4, <2>5, <2>6
<1>4. QueueInv /\ QueueInv' /\ [Next]_vars =>
          [\A m \in Messages : fate[m] = "waiting" =>
             /\ Turn(m) \in Nat
             /\ Worker => Turn(m)' < Turn(m)
             /\ ~Worker => Turn(m)' = Turn(m)]_vars
  BY <1>3
<1>. QED BY <1>4, QueueInvariant, PTL DEF Spec, TurnComes

----------------------------------------------------------------------------
(* Why the calls of the other threads return                               *)

\* stop() keeps _lock over a step only while it waits for room for the sentinel.
LockInv == (lock = "free" <=> main # "putting") /\ lock \in {"free", "main"}

\* What stop() has left to do: the sentinel, then the join.
StopLeft == CASE main = "putting" -> 2 [] main = "joining" -> 1 [] OTHER -> 0

\* enqueue waits for _lock only while stop() waits for room, stop() takes _lock once and
\* gives it back with its next step, room or none, and its two steps wait for nobody.
CallsAreBounded ==
    [][/\ lock # "free" => StopLeft = 2 /\ (StopCall => lock' = "free")
       /\ lock = "free" /\ lock' # "free" => main = "serving" /\ main' # "serving"
       /\ StopCall => StopLeft' < StopLeft
       /\ main # "serving" => main' # "serving" /\ StopLeft' <= StopLeft
       /\ Enqueue => lock = "free" /\ paho' = "idle"
       /\ paho = "calling" /\ ~Enqueue => paho' = "calling"]_vars

LEMMA CallStep ==
    ASSUME LockInv, [Next]_vars
    PROVE  /\ LockInv'
           /\ lock # "free" => StopLeft = 2 /\ (StopCall => lock' = "free")
           /\ lock = "free" /\ lock' # "free" => main = "serving" /\ main' # "serving"
           /\ StopCall => StopLeft' < StopLeft
           /\ main # "serving" => main' # "serving" /\ StopLeft' <= StopLeft
           /\ Enqueue => lock = "free" /\ paho' = "idle"
           /\ paho = "calling" /\ ~Enqueue => paho' = "calling"
<1> USE DEF LockInv, StopLeft
<1>1. CASE Offer \/ Enqueue
  <2>1. ~StopCall
    BY <1>1 DEF Offer, Enqueue, Accept, Refuse, queueVars, StopCall, PutSentinel, PutTimesOut,
       Joined, JoinTimesOut
  <2>. QED BY <1>1, <2>1 DEF Offer, Enqueue, Accept, Refuse, queueVars
<1>2. CASE BeginStop
  BY <1>2 DEF BeginStop, StopCall, PutSentinel, PutTimesOut, Joined, JoinTimesOut, Enqueue,
     Accept, Refuse, queueVars
<1>3. CASE StopCall
  BY <1>3 DEF StopCall, PutSentinel, PutTimesOut, Joined, JoinTimesOut, Enqueue,
     Accept, Refuse, queueVars
<1>4. CASE Worker \/ UNCHANGED vars
  <2>1. UNCHANGED <<lock, main, paho>>
    BY <1>4 DEF Worker, Get, GetTimesOut, AfterEmpty, TakeStop, Discard, Take, BeginItem,
       Announce, Handle, Complete, Report, Fail, Complain, Finally, queueVars, vars
  <2>. QED BY <2>1 DEF StopCall, PutSentinel, PutTimesOut, Joined, JoinTimesOut, Enqueue,
     Accept, Refuse, queueVars
<1>. QED BY <1>1, <1>2, <1>3, <1>4 DEF Next

\* stop() and enqueue end after steps that only they and stop() have to take, although
\* stop() may hold _lock while the queue is full and the worker waits for _lock.
THEOREM CallsEnd == Spec => CallsAreBounded
<1>1. Init => LockInv
  BY DEF Init, LockInv
<1>2. LockInv /\ [Next]_vars => LockInv'
  BY CallStep
<1>3. LockInv /\ [Next]_vars =>
        [/\ lock # "free" => StopLeft = 2 /\ (StopCall => lock' = "free")
         /\ lock = "free" /\ lock' # "free" => main = "serving" /\ main' # "serving"
         /\ StopCall => StopLeft' < StopLeft
         /\ main # "serving" => main' # "serving" /\ StopLeft' <= StopLeft
         /\ Enqueue => lock = "free" /\ paho' = "idle"
         /\ paho = "calling" /\ ~Enqueue => paho' = "calling"]_vars
  BY CallStep
<1>. QED BY <1>1, <1>2, <1>3, PTL DEF Spec, CallsAreBounded
=============================================================================
