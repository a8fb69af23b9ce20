--------------------------- MODULE RunControl_proofs ---------------------------
(* Safety of RunControl for every number of injections, pass length, ratio   *)
(* and number of phases.                                                     *)
EXTENDS RunControl, TLAPS, SequenceTheorems

-----------------------------------------------------------------------------
(* The inductive invariant.                                                  *)

\* Where the engine thread is inside _extras, and what its loops still visit.
Stages ==
  /\ starting # NoId <=> pc = "taking"
  /\ pc \in {"starting", "taking"} => visit \subseteq pending
  /\ pc = "emitting" => visit \subseteq active

\* _pending, _active and the injection in between agree with Injection.state.
Lifecycle ==
  /\ \A i \in pending : state[i] = "pending"
  /\ \A i \in active : state[i] = "active"
  /\ starting # NoId => state[starting] = "pending" /\ starting \notin pending
  /\ \A i \in Ids : i > Len(injections) => state[i] = "absent"

Fresh(i) ==
  /\ passes[i] = 0 /\ left[i] = 0 /\ credit[i] = 0 /\ framesOut[i] = 0
  /\ fed[i] = 0 /\ sent[i] = 0 /\ extra[i] = 0

\* The frames of the passes begun are handed out or left in the pass; what was
\* handed out was sent or is about to be.
FrameAccount(i) ==
  /\ state[i] \in {"absent", "pending"} => Fresh(i)
  /\ state[i] = "active" => passes[i] > 0
  /\ framesOut[i] + left[i] = passes[i] * PassLen
  /\ Over(i) => left[i] = 0
  /\ InLoop => sent[i] + extra[i] = framesOut[i]

\* Every frame handed out was paid for.
CreditAccount(i) ==
  framesOut[i] * Unit + credit[i] =
    (IF passes[i] = 0 THEN 0 ELSE Unit) + Gain[i] * fed[i]

\* Once something has left in a pause, nothing else is past the gates. What an
\* item has left to send and what has left of it are no more than its copies.
PauseInv ==
  /\ PauseHolds
  /\ waiting # "no" => pc = "gate" \/ (pc = "hold" /\ mode # "unpaced")
  /\ pc = "gate" => extra = None
  /\ copies <= MostCopies
  /\ copies > 0 => pc \in {"hold", "send"} /\ extra = None
  /\ go \/ waiting = "woken" => sincePause = 0 /\ turns = 0
  /\ turns = 1 => ~fresh
  /\ mode # "unpaced" /\ pc = "send" /\ sincePause > 0 =>
       extra = None /\ sincePause + copies <= MostCopies

InQueue(i) == \E k \in 1..Len(queue) : queue[k] = i

\* Futures agree with the worker's queue and hand.
WorkerInv ==
  /\ pc \in {"joining", "ended"} => queue = <<>>
  /\ pc = "ended" => building = NoId
  /\ \A i \in Ids : fut[i] = "building" => building = i
  /\ \A i \in Ids : pc \notin {"joining", "ended"} =>
       fut[i] # "cancelled" /\ (fut[i] = "queued" => InQueue(i))
  /\ \A i \in active : fut[i] # "none"

IInv ==
  /\ TypeOK /\ Stages /\ Lifecycle /\ PauseInv /\ WorkerInv
  /\ \A i \in Ids : FrameAccount(i) /\ CreditAccount(i)

-----------------------------------------------------------------------------
(* A product grows by one of its factors.                                    *)
LEMMA OneMore ==
  ASSUME NEW a \in Nat, NEW b \in Nat
  PROVE  /\ a * b \in Nat
         /\ (a + 1) * b = a * b + b
         /\ b * (a + 1) = b * a + b
  OBVIOUS

(* `starting' = NoId means no injection is being taken from _pending.         *)
LEMMA NoIdIsNone == NoId \notin Ids
  BY DEF NoId, Ids

(* Spending credit keeps the counters natural.                                *)
LEMMA CreditTypes ==
  ASSUME InjectionType, EngineType, HistoryType,
         NEW i \in Ids, NEW l \in Nat, Credit(i, l)
  PROVE  /\ left' \in Counters /\ credit' \in Counters
         /\ framesOut' \in Counters /\ extra' \in Counters
         /\ fed' \in Counters
<1>1. PICK n \in 0..l : Buy(i, l, n)
  BY DEF Credit
<1>2. Gain[i] \in Nat /\ Unit \in Nat /\ n \in Nat
  BY BoundsAssumption DEF Ids
<1>3. n * Unit \in Nat
  BY <1>2, OneMore
<1>4. credit[i] + Gain[i] - n * Unit \in Nat /\ l - n \in Nat
  BY <1>1, <1>2, <1>3 DEF Buy, Burst, InjectionType, Counters
<1> QED
  BY <1>1, <1>2, <1>4 DEF Buy, InjectionType, EngineType, HistoryType, Counters

(* Every step keeps the types of the control: the events and the collections *)
(* of injections (RunControl.__init__).                                       *)
LEMMA ControlTypeStep ==
  ASSUME TypeOK, Stages, [Next]_vars
  PROVE  ControlType'
<1>1. CASE Block \/ FeedGate \/ SendGate \/ EndItem \/ StartDone \/ (\E i \in Ids :
          StillBuilding(i)) \/ (\E i \in Ids : NextPass(i)) \/ EmitDone \/
          CancelQueued \/ JoinWorker \/ WorkerTake \/ (\E result \in
          {"frames", "failed"} : WorkerDone(result)) \/ OutOfFrames \/
          NextPhase \/ (\E i \in Ids : DeadlinePasses(i)) \/ UNCHANGED
          vars
  <2>1. UNCHANGED <<mode, go, stop, injections, pending, active>>
    BY <1>1 DEF Block, FeedGate, GateReturns, Leave, ItemCopies, MostCopies, StopOrSend, SendGate, EndItem,
       StartDone, StillBuilding, NextPass, Credit, Buy, Burst, Submit,
       EmitDone, CancelQueued, JoinWorker, WorkerTake, WorkerDone,
       OutOfFrames, NextPhase, DeadlinePasses, vars, control, progress,
       engine, worker, places, pausing, history
  <2> QED
    BY <2>1 DEF TypeOK, ControlType, EngineType, Stages, NoId
<1>2. CASE Pause
  BY <1>2 DEF Pause, TypeOK, ControlType, EngineType, Stages, NoId, control,
     progress, engine, worker, places, pausing, history
<1>3. CASE Resume
  BY <1>3 DEF Resume, TypeOK, ControlType, EngineType, Stages, NoId, control,
     progress, engine, worker, places, pausing, history
<1>4. CASE Stop
  BY <1>4 DEF Stop, TypeOK, ControlType, EngineType, Stages, NoId, control,
     progress, engine, worker, places, pausing, history
<1>5. ASSUME NEW inc \in Incidents, Inject(inc) PROVE ControlType'
  <2>1. /\ injections' \in Seq(Incidents)
        /\ Len(injections') = Len(injections) + 1
    BY <1>5 DEF Inject, TypeOK, ControlType
  <2>2. Len(injections) \in Nat
    BY DEF TypeOK, ControlType
  <2>3. Len(injections) + 1 \in Ids
    BY <1>5, <2>2, BoundsAssumption DEF Inject, Ids
  <2>4. pending' \subseteq Ids /\ active' \subseteq Ids
    BY <1>5, <2>3 DEF Inject, TypeOK, ControlType
  <2>5. Len(injections') <= MaxInjections
    BY <1>5, <2>1 DEF Inject
  <2> QED
    BY <1>5, <2>1, <2>4, <2>5 DEF Inject, TypeOK, ControlType
<1>6. ASSUME NEW last \in BOOLEAN, SendBase(last) PROVE ControlType'
  BY <1>6 DEF SendBase, CountFrame, LastFrame, Leave, TypeOK, ControlType,
     EngineType, Stages, NoId, control, progress, engine, worker, places, pausing, history
<1>7. ASSUME NEW last \in BOOLEAN, NEW i \in Ids, SendExtra(i, last) PROVE ControlType'
  BY <1>7 DEF SendExtra, CountFrame, LastFrame, Leave, TypeOK, ControlType,
     EngineType, Stages, NoId, control, progress, engine, worker, places, pausing, history
<1>8. ASSUME NEW i \in Ids, StartVisit(i) PROVE ControlType'
  BY <1>8 DEF StartVisit, Submit, NoLongerPending, TypeOK, ControlType,
     EngineType, Stages, NoId, control, progress, engine, worker, places, pausing, history
<1>9. CASE TakeFirst
  BY <1>9 DEF TakeFirst, Submit, Finish, TypeOK, ControlType, EngineType,
     Stages, NoId, control, progress, engine, worker, places, pausing, history
<1>10. ASSUME NEW i \in Ids, EndIdle(i) PROVE ControlType'
  BY <1>10 DEF EndIdle, Finish, TypeOK, ControlType, EngineType, Stages, NoId,
     control, progress, engine, worker, places, pausing, history
<1>11. ASSUME NEW i \in Ids, Emit(i) PROVE ControlType'
  BY <1>11 DEF Emit, Credit, Buy, Burst, PassAndTimeOver, Finish, TypeOK,
     ControlType, EngineType, Stages, NoId, control, progress, engine, worker, places, pausing, history
<1> QED
  BY <1>1, <1>2, <1>3, <1>4, <1>5, <1>6, <1>7, <1>8, <1>9, <1>10, <1>11 DEF
     Next, ControlStep, EngineStep, Sending, Extras, Close, WorkerStep

(* Every step keeps the types of the injections; credit stays a natural       *)
(* number, because a burst spends no more than there is.                      *)
LEMMA InjectionTypeStep ==
  ASSUME TypeOK, Stages, [Next]_vars
  PROVE  InjectionType'
<1>1. CASE Pause \/ Resume \/ Stop \/ Block \/ FeedGate \/ SendGate \/ EndItem \/ (\E last \in
          BOOLEAN : SendBase(last)) \/ (\E last \in BOOLEAN, i \in Ids :
          SendExtra(i, last)) \/ StartDone \/ (\E i \in Ids :
          StillBuilding(i)) \/ EmitDone \/ JoinWorker \/ OutOfFrames \/
          NextPhase \/ UNCHANGED vars
  <2>1. UNCHANGED <<state, left, passes, credit, framesOut, due, fut>>
    BY <1>1 DEF Pause, Resume, Stop, Block, FeedGate, GateReturns, Leave, ItemCopies, MostCopies, StopOrSend, SendGate, EndItem, SendBase, CountFrame, LastFrame, SendExtra, StartDone,
       StillBuilding, EmitDone, JoinWorker, OutOfFrames, NextPhase, vars,
       control, progress, engine, worker, places, pausing, history
  <2> QED
    BY <2>1 DEF TypeOK, InjectionType, EngineType, Stages, Counters, States,
       Futures, NoId
<1>2. ASSUME NEW inc \in Incidents, Inject(inc) PROVE InjectionType'
  BY <1>2 DEF Inject, TypeOK, InjectionType, EngineType, Stages, Counters,
     States, Futures, NoId, control, progress, engine, worker, places, pausing, history
<1>3. ASSUME NEW i \in Ids, StartVisit(i) PROVE InjectionType'
  BY <1>3 DEF StartVisit, Submit, NoLongerPending, TypeOK, InjectionType,
     EngineType, Stages, Counters, States, Futures, NoId, control, progress,
     engine, worker, places, pausing, history
<1>4. CASE TakeFirst
  <2>1. starting \in Ids
    BY <1>4 DEF TakeFirst, TypeOK, EngineType, Stages, NoId
  <2>2. PassLen \in Nat /\ Unit \in Nat
    BY BoundsAssumption
  <2>3. CASE fut[starting] = "failed"
    BY <1>4, <2>1, <2>3 DEF TakeFirst, Finish, progress, TypeOK, InjectionType,
       Counters, States, Futures
  <2>4. CASE ~(fut[starting] = "failed")
    <3>1. /\ left' \in Counters /\ passes' \in Counters
          /\ credit' \in Counters /\ framesOut' \in Counters
      BY <1>4, <2>1, <2>2, <2>4 DEF TakeFirst, TypeOK, InjectionType, Counters
    <3> QED
      BY <1>4, <2>1, <2>4, <3>1 DEF TakeFirst, TypeOK, InjectionType, States, Futures
  <2> QED
    BY <2>3, <2>4
<1>5. ASSUME NEW i \in Ids, EndIdle(i) PROVE InjectionType'
  BY <1>5 DEF EndIdle, Finish, TypeOK, InjectionType, EngineType, Stages,
     Counters, States, Futures, NoId, control, progress, engine, worker, places, pausing, history
<1>6. ASSUME NEW i \in Ids, Emit(i) PROVE InjectionType'
  <2>1. left[i] \in Nat
    BY DEF TypeOK, InjectionType, Counters
  <2>2. left' \in Counters /\ credit' \in Counters /\ framesOut' \in Counters
    BY <1>6, <2>1, CreditTypes DEF Emit, TypeOK
  <2> QED
    BY <1>6, <2>2 DEF Emit, Finish, TypeOK, InjectionType, States, Futures
<1>7. ASSUME NEW i \in Ids, NextPass(i) PROVE InjectionType'
  <2>1. PassLen \in Nat
    BY BoundsAssumption
  <2>2. left' \in Counters /\ credit' \in Counters /\ framesOut' \in Counters
    BY <1>7, <2>1, CreditTypes DEF NextPass, TypeOK
  <2>3. passes' \in Counters
    BY <1>7 DEF NextPass, TypeOK, InjectionType, Counters
  <2> QED
    BY <1>7, <2>2, <2>3 DEF NextPass, TypeOK, InjectionType, Futures
<1>8. CASE CancelQueued
  BY <1>8 DEF CancelQueued, TypeOK, InjectionType, EngineType, Stages,
     Counters, States, Futures, NoId, control, progress, engine, worker, places, pausing, history
<1>9. CASE WorkerTake
  BY <1>9 DEF WorkerTake, TypeOK, InjectionType, EngineType, Stages, Counters,
     States, Futures, NoId, control, progress, engine, worker, places, pausing, history
<1>10. ASSUME NEW result \in {"frames", "failed"}, WorkerDone(result) PROVE InjectionType'
  BY <1>10 DEF WorkerDone, TypeOK, InjectionType, EngineType, Stages,
     Counters, States, Futures, NoId, control, progress, engine, worker, places, pausing, history
<1>11. ASSUME NEW i \in Ids, DeadlinePasses(i) PROVE InjectionType'
  BY <1>11 DEF DeadlinePasses, TypeOK, InjectionType, EngineType, Stages,
     Counters, States, Futures, NoId, control, progress, engine, worker, places, pausing, history
<1> QED
  BY <1>1, <1>2, <1>3, <1>4, <1>5, <1>6, <1>7, <1>8, <1>9, <1>10, <1>11 DEF
     Next, ControlStep, EngineStep, Sending, Extras, Close, WorkerStep

(* Every step keeps the types of what the engine thread holds in _extras and  *)
(* in the send loop.                                                          *)
LEMMA EngineTypeStep ==
  ASSUME TypeOK, [Next]_vars
  PROVE  EngineType'
<1>0. /\ MaxCopies \in Nat \ {0} /\ None \in Counters
      /\ copies \in 0..MaxCopies /\ extra \in Counters /\ pc \in Places
      /\ waiting \in {"no", "blocked", "woken"} /\ visit \subseteq Ids
      /\ starting \in Ids \cup {NoId}
  BY ModesAssumption DEF TypeOK, EngineType, None, Counters
<1>1. CASE Pause \/ Stop \/ (\E inc \in Incidents : Inject(inc)) \/ WorkerTake \/ (\E
          result \in {"frames", "failed"} : WorkerDone(result)) \/
          NextPhase \/ (\E i \in Ids : DeadlinePasses(i)) \/ UNCHANGED
          vars
  <2>1. UNCHANGED <<mode, pc, waiting, visit, starting, copies, extra>>
    BY <1>1 DEF Pause, Stop, Inject, WorkerTake, WorkerDone, NextPhase,
       DeadlinePasses, vars, control, progress, engine, worker, places, pausing, history
  <2> QED
    BY <2>1 DEF TypeOK, EngineType, ControlType, Counters, Places, NoId, None
<1>2. CASE Resume
  BY <1>2 DEF Resume, TypeOK, EngineType, ControlType, Counters, Places, NoId,
     None, control, progress, engine, worker, places, pausing, history
<1>3. CASE Block
  BY <1>3 DEF Block, TypeOK, EngineType, ControlType, Counters, Places, NoId,
     None, control, progress, engine, worker, places, pausing, history
<1>4. CASE FeedGate
  <2>1. copies' \in 0..MaxCopies
    BY <1>0, <1>4 DEF FeedGate, Leave, ItemCopies, MostCopies
  <2>2. extra' \in Counters /\ pc' \in Places /\ waiting' = "no"
    BY <1>0, <1>4 DEF FeedGate, GateReturns, Leave, Places
  <2> QED
    BY <1>0, <1>4, <2>1, <2>2 DEF FeedGate, EngineType
<1>5. CASE SendGate
  <2>1. copies' \in 0..MaxCopies /\ extra' \in Counters /\ pc' \in Places
    BY <1>0, <1>5 DEF SendGate, StopOrSend, Leave, Places
  <2>2. waiting' \in {"no", "blocked", "woken"}
    BY <1>0, <1>5 DEF SendGate, GateReturns
  <2> QED
    BY <1>0, <1>5, <2>1, <2>2 DEF SendGate, EngineType
<1>6. ASSUME NEW last \in BOOLEAN, SendBase(last) PROVE EngineType'
  <2>1. copies' \in {0, copies - 1}
    BY <1>6 DEF SendBase, LastFrame, Leave
  <2>2. copies' \in 0..MaxCopies
    BY <1>0, <1>6, <2>1 DEF SendBase
  <2>3. extra' \in Counters /\ pc' \in Places
    BY <1>0, <1>6 DEF SendBase, LastFrame, Leave, Places
  <2> QED
    BY <1>0, <1>6, <2>2, <2>3 DEF SendBase, EngineType
<1>7. ASSUME NEW last \in BOOLEAN, NEW i \in Ids, SendExtra(i, last) PROVE EngineType'
  <2>1. None \in Counters
    BY DEF None, Counters
  <2>2. [extra EXCEPT ![i] = @ - 1] \in Counters
    BY <1>7 DEF SendExtra, TypeOK, EngineType, Counters
  <2>3. extra' \in Counters
    BY <1>7, <2>1, <2>2 DEF SendExtra, LastFrame, Leave
  <2>4. pc' \in {"closing", "gate", "hold"} /\ copies' \in {0, copies}
    BY <1>7 DEF SendExtra, LastFrame, Leave
  <2>5. pc' \in Places /\ copies' \in 0..MaxCopies
    BY <1>0, <2>4 DEF Places
  <2> QED
    BY <1>0, <1>7, <2>3, <2>5 DEF SendExtra, EngineType
<1>8. ASSUME NEW i \in Ids, StartVisit(i) PROVE EngineType'
  BY <1>8 DEF StartVisit, Submit, NoLongerPending, TypeOK, EngineType,
     ControlType, Counters, Places, NoId, None, control, progress, engine,
     worker, places, pausing, history
<1>9. CASE TakeFirst
  BY <1>9 DEF TakeFirst, Submit, Finish, TypeOK, EngineType, ControlType,
     Counters, Places, NoId, None, control, progress, engine, worker, places, pausing, history
<1>10. CASE StartDone
  BY <1>10 DEF StartDone, TypeOK, EngineType, ControlType, Counters, Places,
     NoId, None, control, progress, engine, worker, places, pausing, history
<1>11. ASSUME NEW i \in Ids, EndIdle(i) PROVE EngineType'
  BY <1>11 DEF EndIdle, Finish, TypeOK, EngineType, ControlType, Counters,
     Places, NoId, None, control, progress, engine, worker, places, pausing, history
<1>12. ASSUME NEW i \in Ids, StillBuilding(i) PROVE EngineType'
  BY <1>12 DEF StillBuilding, TypeOK, EngineType, ControlType, Counters,
     Places, NoId, None, control, progress, engine, worker, places, pausing, history
<1>13. ASSUME NEW i \in Ids, Emit(i) PROVE EngineType'
  <2>1. left[i] \in Nat
    BY DEF TypeOK, InjectionType, Counters
  <2>2. extra' \in Counters
    BY <1>13, <2>1, CreditTypes DEF Emit, TypeOK
  <2> QED
    BY <1>13, <2>2 DEF Emit, TypeOK, EngineType
<1>14. ASSUME NEW i \in Ids, NextPass(i) PROVE EngineType'
  <2>1. PassLen \in Nat
    BY BoundsAssumption
  <2>2. extra' \in Counters
    BY <1>14, <2>1, CreditTypes DEF NextPass, TypeOK
  <2> QED
    BY <1>14, <2>2 DEF NextPass, TypeOK, EngineType
<1>15. CASE EmitDone
  BY <1>15 DEF EmitDone, TypeOK, EngineType, ControlType, Counters, Places,
     NoId, None, control, progress, engine, worker, places, pausing, history
<1>16. CASE CancelQueued
  BY <1>16 DEF CancelQueued, TypeOK, EngineType, ControlType, Counters,
     Places, NoId, None, control, progress, engine, worker, places, pausing, history
<1>17. CASE JoinWorker
  BY <1>17 DEF JoinWorker, TypeOK, EngineType, ControlType, Counters, Places,
     NoId, None, control, progress, engine, worker, places, pausing, history
<1>19. CASE EndItem
  BY <1>19 DEF EndItem, TypeOK, EngineType, ControlType, Places
<1>18. CASE OutOfFrames
  <2>1. copies' \in 0..MaxCopies /\ extra' \in Counters /\ pc' \in Places
    BY <1>0, <1>18 DEF OutOfFrames, Leave, Places
  <2> QED
    BY <1>0, <1>18, <2>1 DEF OutOfFrames, EngineType
<1> QED
  BY <1>1, <1>2, <1>3, <1>4, <1>5, <1>6, <1>7, <1>8, <1>9, <1>10, <1>11,
     <1>12, <1>13, <1>14, <1>15, <1>16, <1>17, <1>18, <1>19 DEF Next, ControlStep,
     EngineStep, Sending, Extras, Close, WorkerStep

(* Every step keeps the types of the worker's queue and hand.                 *)
LEMMA WorkerTypeStep ==
  ASSUME TypeOK, Stages, [Next]_vars
  PROVE  WorkerType'
<1>1. CASE Pause \/ Resume \/ Stop \/ (\E inc \in Incidents : Inject(inc)) \/ Block
          \/ FeedGate \/ SendGate \/ EndItem \/ (\E last \in BOOLEAN :
          SendBase(last)) \/ (\E last \in BOOLEAN, i \in Ids :
          SendExtra(i, last)) \/ StartDone \/ (\E i \in Ids : EndIdle(i))
          \/ (\E i \in Ids : StillBuilding(i)) \/ (\E i \in Ids : Emit(i))
          \/ EmitDone \/ JoinWorker \/ OutOfFrames \/ NextPhase \/ (\E i
          \in Ids : DeadlinePasses(i)) \/ UNCHANGED vars
  <2>1. UNCHANGED <<queue, building>>
    BY <1>1 DEF Pause, Resume, Stop, Inject, Block, FeedGate, GateReturns, Leave, ItemCopies, MostCopies, StopOrSend, SendGate, EndItem, SendBase, CountFrame, LastFrame,
       SendExtra, StartDone, EndIdle, Finish, StillBuilding, Emit, Credit,
       Buy, Burst, PassAndTimeOver, EmitDone, JoinWorker, OutOfFrames,
       NextPhase, DeadlinePasses, vars, control, progress, engine, worker, places, pausing, history
  <2> QED
    BY <2>1 DEF TypeOK, WorkerType, EngineType, Stages, NoId
<1>2. ASSUME NEW i \in Ids, StartVisit(i) PROVE WorkerType'
  <2>1. queue' = queue \/ queue' = Append(queue, i)
    BY <1>2 DEF StartVisit, Submit, worker
  <2>2. building' = building
    BY <1>2 DEF StartVisit, Submit, worker
  <2> QED
    BY <2>1, <2>2 DEF TypeOK, WorkerType
<1>3. CASE TakeFirst
  <2>1. starting \in Ids
    BY <1>3 DEF TakeFirst, TypeOK, EngineType, Stages, NoId
  <2>2. queue' = queue \/ queue' = Append(queue, starting)
    BY <1>3 DEF TakeFirst, Submit, worker
  <2>3. building' = building
    BY <1>3 DEF TakeFirst, Submit, worker
  <2> QED
    BY <2>1, <2>2, <2>3 DEF TypeOK, WorkerType
<1>4. ASSUME NEW i \in Ids, NextPass(i) PROVE WorkerType'
  BY <1>4 DEF NextPass, Credit, Buy, Burst, Submit, TypeOK, WorkerType,
     EngineType, Stages, NoId, control, progress, engine, worker, places, pausing, history
<1>5. CASE CancelQueued
  BY <1>5 DEF CancelQueued, TypeOK, WorkerType, EngineType, Stages, NoId,
     control, progress, engine, worker, places, pausing, history
<1>6. CASE WorkerTake
  BY <1>6 DEF WorkerTake, TypeOK, WorkerType, EngineType, Stages, NoId,
     control, progress, engine, worker, places, pausing, history
<1>7. ASSUME NEW result \in {"frames", "failed"}, WorkerDone(result) PROVE WorkerType'
  BY <1>7 DEF WorkerDone, TypeOK, WorkerType, EngineType, Stages, NoId,
     control, progress, engine, worker, places, pausing, history
<1> QED
  BY <1>1, <1>2, <1>3, <1>4, <1>5, <1>6, <1>7 DEF Next, ControlStep,
     EngineStep, Sending, Extras, Close, WorkerStep

(* Every step keeps the environments among the phases of the run.             *)
LEMMA PlaceTypeStep ==
  ASSUME TypeOK, Stages, [Next]_vars
  PROVE  PlaceType'
<1>1. CASE Pause \/ Resume \/ Stop \/ (\E inc \in Incidents : Inject(inc)) \/ Block
          \/ FeedGate \/ SendGate \/ EndItem \/ (\E last \in BOOLEAN :
          SendBase(last)) \/ (\E last \in BOOLEAN, i \in Ids :
          SendExtra(i, last)) \/ (\E i \in Ids : StartVisit(i)) \/
          StartDone \/ (\E i \in Ids : EndIdle(i)) \/ (\E i \in Ids :
          StillBuilding(i)) \/ (\E i \in Ids : Emit(i)) \/ EmitDone \/
          CancelQueued \/ JoinWorker \/ (\E result \in {"frames",
          "failed"} : WorkerDone(result)) \/ OutOfFrames \/ (\E i \in Ids
          : DeadlinePasses(i)) \/ UNCHANGED vars
  <2>1. UNCHANGED <<env, builtOn, nextOn, recordedOn>>
    BY <1>1 DEF Pause, Resume, Stop, Inject, Block, FeedGate, GateReturns, Leave, ItemCopies, MostCopies, StopOrSend, SendGate, EndItem, SendBase, CountFrame, LastFrame,
       SendExtra, StartVisit, Submit, NoLongerPending, StartDone, EndIdle,
       Finish, StillBuilding, Emit, Credit, Buy, Burst, PassAndTimeOver,
       EmitDone, CancelQueued, JoinWorker, WorkerDone, OutOfFrames,
       DeadlinePasses, vars, control, progress, engine, worker, places, pausing, history
  <2> QED
    BY <2>1 DEF TypeOK, PlaceType, PhasesOf
<1>2. CASE TakeFirst
  <2>1. starting \in Ids
    BY <1>2 DEF TakeFirst, TypeOK, EngineType, Stages, NoId
  <2>2. nextOn[starting] \in 0..Phases /\ env \in 0..Phases
    BY <2>1, BoundsAssumption DEF TypeOK, PlaceType, PhasesOf
  <2> QED
    BY <1>2, <2>1, <2>2 DEF TakeFirst, TypeOK, PlaceType, PhasesOf
<1>3. ASSUME NEW i \in Ids, NextPass(i) PROVE PlaceType'
  BY <1>3 DEF NextPass, Credit, Buy, Burst, Submit, TypeOK, PlaceType,
     PhasesOf, control, progress, engine, worker, places, pausing, history
<1>4. CASE WorkerTake
  <2>1. env \in 0..Phases
    BY BoundsAssumption DEF TypeOK, PlaceType
  <2> QED
    BY <1>4, <2>1 DEF WorkerTake, TypeOK, PlaceType, PhasesOf
<1>5. CASE NextPhase
  BY <1>5, BoundsAssumption DEF NextPhase, TypeOK, PlaceType, PhasesOf
<1> QED
  BY <1>1, <1>2, <1>3, <1>4, <1>5 DEF Next, ControlStep, EngineStep, Sending,
     Extras, Close, WorkerStep

(* Counting a frame keeps the types of what is counted in a pause.            *)
LEMMA CountTypes ==
  ASSUME HistoryType, CountFrame
  PROVE  sincePause' \in Nat /\ turns' \in Nat /\ fresh' \in BOOLEAN
<1>1. CASE go
  <2>1. sincePause' = sincePause /\ turns' = turns /\ fresh' = fresh
    BY <1>1 DEF CountFrame, pausing
  <2> QED
    BY <2>1 DEF HistoryType
<1>2. CASE ~go
  <2>1. sincePause' = sincePause + 1 /\ fresh' = FALSE
    BY <1>2 DEF CountFrame
  <2>2. turns' = turns + 1 \/ turns' = turns
    BY <1>2 DEF CountFrame
  <2>3. sincePause' \in Nat /\ turns' \in Nat
    BY <2>1, <2>2 DEF HistoryType
  <2> QED
    BY <2>1, <2>3
<1> QED
  BY <1>1, <1>2

(* Every step keeps the types of the history variables.                       *)
LEMMA HistoryTypeStep ==
  ASSUME TypeOK, [Next]_vars
  PROVE  HistoryType'
<1>1. CASE Pause \/ Stop \/ (\E inc \in Incidents : Inject(inc)) \/ Block \/
          SendGate \/ EndItem \/ (\E i \in Ids : StartVisit(i)) \/
          TakeFirst \/ StartDone \/ (\E i \in Ids : EndIdle(i)) \/ (\E i
          \in Ids : StillBuilding(i)) \/ EmitDone \/ CancelQueued \/
          JoinWorker \/ WorkerTake \/ (\E result \in {"frames", "failed"}
          : WorkerDone(result)) \/ OutOfFrames \/ NextPhase \/ (\E i \in
          Ids : DeadlinePasses(i)) \/ UNCHANGED vars
  <2>1. UNCHANGED <<fed, sent, sincePause, turns, fresh>>
    BY <1>1 DEF Pause, Stop, Inject, Block, GateReturns, Leave, ItemCopies, MostCopies, StopOrSend, SendGate, EndItem, StartVisit, Submit, NoLongerPending, TakeFirst,
       Finish, StartDone, EndIdle, StillBuilding, EmitDone, CancelQueued,
       JoinWorker, WorkerTake, WorkerDone, OutOfFrames, NextPhase,
       DeadlinePasses, vars, control, progress, engine, worker, places, pausing, history
  <2> QED
    BY <2>1 DEF TypeOK, HistoryType, Counters
<1>2. CASE Resume
  BY <1>2 DEF Resume, TypeOK, HistoryType
<1>7. CASE FeedGate
  BY <1>7 DEF FeedGate, TypeOK, HistoryType
<1>3. ASSUME NEW last \in BOOLEAN, SendBase(last) PROVE HistoryType'
  <2>1. sincePause' \in Nat /\ turns' \in Nat /\ fresh' \in BOOLEAN
    BY <1>3, CountTypes DEF SendBase, TypeOK
  <2> QED
    BY <1>3, <2>1 DEF SendBase, TypeOK, HistoryType
<1>4. ASSUME NEW last \in BOOLEAN, NEW i \in Ids, SendExtra(i, last) PROVE HistoryType'
  <2>1. sincePause' \in Nat /\ turns' \in Nat /\ fresh' \in BOOLEAN
    BY <1>4, CountTypes DEF SendExtra, TypeOK
  <2>2. sent' \in Counters
    BY <1>4 DEF SendExtra, TypeOK, HistoryType, Counters
  <2> QED
    BY <1>4, <2>1, <2>2 DEF SendExtra, TypeOK, HistoryType
<1>5. ASSUME NEW i \in Ids, Emit(i) PROVE HistoryType'
  <2>1. left[i] \in Nat
    BY DEF TypeOK, InjectionType, Counters
  <2>2. fed' \in Counters
    BY <1>5, <2>1, CreditTypes DEF Emit, TypeOK
  <2>3. UNCHANGED <<sent, sincePause, turns, fresh>>
    BY <1>5 DEF Emit, pausing
  <2> QED
    BY <2>2, <2>3 DEF TypeOK, HistoryType
<1>6. ASSUME NEW i \in Ids, NextPass(i) PROVE HistoryType'
  <2>1. PassLen \in Nat
    BY BoundsAssumption
  <2>2. fed' \in Counters
    BY <1>6, <2>1, CreditTypes DEF NextPass, TypeOK
  <2>3. UNCHANGED <<sent, sincePause, turns, fresh>>
    BY <1>6 DEF NextPass, pausing
  <2> QED
    BY <2>2, <2>3 DEF TypeOK, HistoryType
<1> QED
  BY <1>1, <1>2, <1>3, <1>4, <1>5, <1>6, <1>7 DEF Next, ControlStep, EngineStep,
     Sending, Extras, Close, WorkerStep

(* The stages of _extras follow one another: an injection is being started    *)
(* only between the two loops, and frames wait only in the send loop.         *)
LEMMA StagesStep ==
  ASSUME TypeOK, Stages, [Next]_vars
  PROVE  Stages'
<1>1. CASE Pause \/ Resume \/ Stop \/ Block \/ WorkerTake \/ (\E result \in
          {"frames", "failed"} : WorkerDone(result)) \/ NextPhase \/ (\E i
          \in Ids : DeadlinePasses(i)) \/ UNCHANGED vars
  <2>1. UNCHANGED <<pc, visit, starting, pending, active>>
    BY <1>1 DEF Pause, Resume, Stop, Block, WorkerTake, WorkerDone, NextPhase,
       DeadlinePasses, vars, control, progress, engine, worker, places, pausing, history
  <2> QED
    BY <2>1 DEF Stages
<1>2. ASSUME NEW inc \in Incidents, Inject(inc) PROVE Stages'
  BY <1>2 DEF Inject, Stages, control, progress, engine, worker, places, pausing, history
<1>3. CASE FeedGate
  BY <1>3 DEF FeedGate, GateReturns, Leave, ItemCopies, MostCopies, Stages, control, progress,
     engine, worker, places, pausing, history
<1>4. CASE SendGate
  BY <1>4 DEF SendGate, GateReturns, StopOrSend, Leave, Stages, control, progress,
     engine, worker, places, pausing, history
<1>5. ASSUME NEW last \in BOOLEAN, SendBase(last) PROVE Stages'
  BY <1>5 DEF SendBase, CountFrame, LastFrame, Leave, Stages, control,
     progress, engine, worker, places, pausing, history
<1>6. ASSUME NEW last \in BOOLEAN, NEW i \in Ids, SendExtra(i, last) PROVE Stages'
  BY <1>6 DEF SendExtra, CountFrame, LastFrame, Leave, Stages, control,
     progress, engine, worker, places, pausing, history
<1>7. ASSUME NEW i \in Ids, StartVisit(i) PROVE Stages'
  BY <1>7, NoIdIsNone DEF StartVisit, NoLongerPending, Stages, control, worker
<1>8. CASE TakeFirst
  BY <1>8 DEF TakeFirst, Submit, Finish, Stages, control, progress, engine,
     worker, places, pausing, history
<1>9. CASE StartDone
  BY <1>9 DEF StartDone, Stages, control, progress, engine, worker, places, pausing, history
<1>10. ASSUME NEW i \in Ids, EndIdle(i) PROVE Stages'
  BY <1>10 DEF EndIdle, Finish, Stages, control, progress, engine, worker, places, pausing, history
<1>11. ASSUME NEW i \in Ids, StillBuilding(i) PROVE Stages'
  BY <1>11 DEF StillBuilding, Stages, control, progress, engine, worker, places, pausing, history
<1>12. ASSUME NEW i \in Ids, Emit(i) PROVE Stages'
  BY <1>12 DEF Emit, Credit, Buy, Burst, PassAndTimeOver, Finish, Stages,
     control, progress, engine, worker, places, pausing, history
<1>13. ASSUME NEW i \in Ids, NextPass(i) PROVE Stages'
  BY <1>13 DEF NextPass, Credit, Buy, Burst, Submit, Stages, control,
     progress, engine, worker, places, pausing, history
<1>14. CASE EmitDone
  BY <1>14 DEF EmitDone, Stages, control, progress, engine, worker, places, pausing, history
<1>15. CASE CancelQueued
  BY <1>15 DEF CancelQueued, Stages, control, progress, engine, worker, places, pausing, history
<1>16. CASE JoinWorker
  BY <1>16 DEF JoinWorker, Stages, control, progress, engine, worker, places, pausing, history
<1>18. CASE EndItem
  BY <1>18 DEF EndItem, Stages, control
<1>17. CASE OutOfFrames
  BY <1>17 DEF OutOfFrames, Leave, Stages, control, progress, engine, worker, places, pausing, history
<1> QED
  BY <1>1, <1>2, <1>3, <1>4, <1>5, <1>6, <1>7, <1>8, <1>9, <1>10, <1>11,
     <1>12, <1>13, <1>14, <1>15, <1>16, <1>17, <1>18 DEF Next, ControlStep,
     EngineStep, Sending, Extras, Close, WorkerStep

(* An injection is where its state says: pending ones in _pending or being    *)
(* started, active ones in _active, and those not made yet in neither.        *)
LEMMA LifecycleStep ==
  ASSUME TypeOK, Stages, Lifecycle, [Next]_vars
  PROVE  Lifecycle'
<1>1. CASE Pause \/ Resume \/ Stop \/ Block \/ FeedGate \/ SendGate \/ EndItem \/ (\E last \in
          BOOLEAN : SendBase(last)) \/ (\E last \in BOOLEAN, i \in Ids :
          SendExtra(i, last)) \/ StartDone \/ (\E i \in Ids :
          StillBuilding(i)) \/ (\E i \in Ids : NextPass(i)) \/ EmitDone \/
          CancelQueued \/ JoinWorker \/ WorkerTake \/ (\E result \in
          {"frames", "failed"} : WorkerDone(result)) \/ OutOfFrames \/
          NextPhase \/ (\E i \in Ids : DeadlinePasses(i)) \/ UNCHANGED
          vars
  <2>1. UNCHANGED <<state, injections, pending, active, starting>>
    BY <1>1 DEF Pause, Resume, Stop, Block, FeedGate, GateReturns, Leave, ItemCopies, MostCopies, StopOrSend, SendGate, EndItem, SendBase, CountFrame, LastFrame, SendExtra, StartDone,
       StillBuilding, NextPass, Credit, Buy, Burst, Submit, EmitDone,
       CancelQueued, JoinWorker, WorkerTake, WorkerDone, OutOfFrames,
       NextPhase, DeadlinePasses, vars, control, progress, engine, worker, places, pausing, history
  <2> QED
    BY <2>1 DEF TypeOK, ControlType, InjectionType, EngineType, Stages,
       Lifecycle
<1>2. ASSUME NEW inc \in Incidents, Inject(inc) PROVE Lifecycle'
  <2>1. Len(injections') = Len(injections) + 1 /\ Len(injections) \in Nat
    BY <1>2 DEF Inject, TypeOK, ControlType
  <2>2. Len(injections) + 1 \in Ids
    BY <1>2, <2>1, BoundsAssumption DEF Inject, Ids
  <2>3. state[Len(injections) + 1] = "absent"
    BY <2>1, <2>2 DEF Lifecycle
  <2>4. /\ state' = [state EXCEPT ![Len(injections) + 1] = "pending"]
        /\ pending' = pending \cup {Len(injections) + 1}
        /\ UNCHANGED <<active, starting>>
    BY <1>2 DEF Inject, engine
  <2>5. \A i \in Ids : i \in Nat
    BY BoundsAssumption DEF Ids
  <2> QED
    BY <2>1, <2>2, <2>3, <2>4, <2>5 DEF TypeOK, ControlType, InjectionType,
       EngineType, Lifecycle
<1>3. ASSUME NEW i \in Ids, StartVisit(i) PROVE Lifecycle'
  BY <1>3 DEF StartVisit, Submit, NoLongerPending, TypeOK, ControlType,
     InjectionType, EngineType, Stages, Lifecycle, control, progress, engine,
     worker, places, pausing, history
<1>4. CASE TakeFirst
  BY <1>4 DEF TakeFirst, Submit, Finish, TypeOK, ControlType, InjectionType,
     EngineType, Stages, Lifecycle, control, progress, engine, worker, places, pausing, history
<1>5. ASSUME NEW i \in Ids, EndIdle(i) PROVE Lifecycle'
  BY <1>5 DEF EndIdle, Finish, TypeOK, ControlType, InjectionType, EngineType,
     Stages, Lifecycle, control, progress, engine, worker, places, pausing, history
<1>6. ASSUME NEW i \in Ids, Emit(i) PROVE Lifecycle'
  BY <1>6 DEF Emit, Credit, Buy, Burst, PassAndTimeOver, Finish, TypeOK,
     ControlType, InjectionType, EngineType, Stages, Lifecycle, control,
     progress, engine, worker, places, pausing, history
<1> QED
  BY <1>1, <1>2, <1>3, <1>4, <1>5, <1>6 DEF Next, ControlStep, EngineStep,
     Sending, Extras, Close, WorkerStep

(* What leaves in a pause: a frame of the item past the gates is counted for *)
(* its item once.                                                             *)
LEMMA CountStep ==
  ASSUME TypeOK, PauseInv, pc = "send", CountFrame
  PROVE  /\ waiting = "no"
         /\ go \/ waiting = "woken" => sincePause' = 0 /\ turns' = 0
         /\ turns' <= 1 /\ (turns' = 1 => ~fresh')
         /\ sincePause' \in {sincePause, sincePause + 1}
<1>1. turns \in Nat /\ turns <= 1 /\ (turns = 1 => ~fresh)
  BY DEF TypeOK, HistoryType, PauseInv, PauseHolds
<1>2. waiting = "no"
  BY DEF PauseInv
<1>3. CASE go
  BY <1>1, <1>2, <1>3 DEF CountFrame, pausing, PauseInv
<1>4. CASE ~go
  BY <1>1, <1>2, <1>4 DEF CountFrame
<1> QED
  BY <1>3, <1>4

(* What has left of an item and what is left of it stay within its copies.    *)
LEMMA OneLeft ==
  ASSUME NEW s \in Nat, NEW t \in Nat, NEW c \in Nat, NEW d \in Nat, NEW m \in Nat,
         s = 0 \/ s + c <= m, c <= m, c > 0, t \in {s, s + 1}, d \in {0, c - 1}
  PROVE  t <= m /\ t + d <= m
<1>1. (t = s \/ t = s + 1) /\ (d = 0 \/ d = c - 1)
  OBVIOUS
<1> QED
  BY <1>1

(* A pause lets through what is past the gates and nothing else: each step of *)
(* the two gates keeps PauseInv, also when resume() and pause() race it.      *)
LEMMA PauseStep ==
  ASSUME TypeOK, PauseInv, [Next]_vars
  PROVE  PauseInv'
<1>0. /\ sincePause \in Nat /\ turns \in Nat /\ copies \in Nat
      /\ MaxCopies \in Nat \ {0} /\ MostCopies \in Nat \ {0} /\ copies <= MostCopies
  BY ModesAssumption DEF TypeOK, HistoryType, EngineType, MostCopies, PauseInv
<1>1. CASE Stop \/ (\E inc \in Incidents : Inject(inc)) \/ (\E i \in Ids :
          EndIdle(i)) \/ (\E i \in Ids : StillBuilding(i)) \/ WorkerTake \/
          (\E result \in {"frames", "failed"} : WorkerDone(result)) \/
          NextPhase \/ (\E i \in Ids : DeadlinePasses(i)) \/ UNCHANGED
          vars
  <2>1. UNCHANGED <<mode, go, sincePause, turns, fresh, pc, waiting, copies, extra>>
    BY <1>1 DEF Stop, Inject, EndIdle, Finish, StillBuilding, WorkerTake, WorkerDone,
       NextPhase, DeadlinePasses, vars, control, progress, engine, worker, places,
       pausing, history
  <2> QED
    BY <2>1 DEF PauseInv, PauseHolds, MostCopies
<1>2. CASE (\E i \in Ids : Emit(i)) \/ (\E i \in Ids : NextPass(i))
  <2>1. /\ UNCHANGED <<mode, go, sincePause, turns, fresh, pc, waiting, copies>>
        /\ pc = "emitting"
    BY <1>2 DEF Emit, NextPass, control, pausing
  <2> QED
    BY <2>1 DEF PauseInv, PauseHolds, MostCopies
<1>3. CASE Pause \/ Resume
  BY <1>3, ModesAssumption DEF Pause, Resume, control, engine, history, pausing, PauseInv, PauseHolds, MostCopies
<1>4. CASE Block
  BY <1>4 DEF Block, control, history, pausing, PauseInv, PauseHolds, MostCopies
<1>5. CASE FeedGate
  <2>1. /\ UNCHANGED <<mode, go, stop, sincePause, turns>> /\ waiting' = "no" /\ pc = "gate"
        /\ go \/ waiting = "woken" \/ stop
    BY <1>5 DEF FeedGate, GateReturns, control
  <2>2. CASE stop
    BY <1>0, <1>5, <2>1, <2>2 DEF FeedGate, Leave, PauseInv, PauseHolds, MostCopies
  <2>3. CASE ~stop
    <3>1. pc' = "hold" /\ extra' = None /\ sincePause = 0 /\ turns = 0
      BY <1>5, <2>1, <2>3 DEF FeedGate, PauseInv
    <3>2. copies' <= MostCopies
      BY <1>0, <1>5, <2>1, <2>3 DEF FeedGate, ItemCopies, MostCopies
    <3> QED
      BY <1>0, <2>1, <3>1, <3>2 DEF PauseInv, PauseHolds, MostCopies
  <2> QED
    BY <2>2, <2>3
<1>6. CASE SendGate
  <2>1. /\ UNCHANGED <<mode, go, stop, sincePause, turns, fresh>> /\ pc = "hold"
        /\ \/ mode = "unpaced" /\ waiting' = waiting
           \/ waiting' = "no" /\ (go \/ waiting = "woken" \/ stop)
    <3>1. CASE mode = "unpaced"
      BY <1>6, <3>1 DEF SendGate, control, history, pausing
    <3>2. CASE mode # "unpaced"
      BY <1>6, <3>2 DEF SendGate, GateReturns, control, history, pausing
    <3> QED
      BY <3>1, <3>2
  <2>2. waiting' = "no"
    BY <2>1 DEF PauseInv, MostCopies
  <2>3. CASE stop
    BY <1>0, <1>6, <2>1, <2>2, <2>3 DEF SendGate, StopOrSend, Leave, PauseInv, PauseHolds, MostCopies
  <2>4. CASE ~stop
    <3>1. pc' = "send" /\ UNCHANGED <<copies, extra>>
      BY <1>6, <2>4 DEF SendGate, StopOrSend
    <3>2. mode = "unpaced" \/ sincePause = 0
      BY <2>1, <2>4 DEF PauseInv, MostCopies
    <3> QED
      BY <2>1, <2>2, <3>1, <3>2 DEF PauseInv, PauseHolds, MostCopies
  <2> QED
    BY <2>3, <2>4
<1>7. ASSUME NEW last \in BOOLEAN, SendBase(last) PROVE PauseInv'
  <2>1. /\ UNCHANGED <<mode, go, waiting>> /\ pc = "send" /\ copies > 0 /\ CountFrame
    BY <1>7 DEF SendBase
  <2>2. /\ waiting = "no"
        /\ go \/ waiting = "woken" => sincePause' = 0 /\ turns' = 0
        /\ turns' <= 1 /\ (turns' = 1 => ~fresh')
        /\ sincePause' \in {sincePause, sincePause + 1}
    BY <2>1, CountStep
  <2>3. extra = None
    BY <2>1 DEF PauseInv, MostCopies
  <2>4. \/ pc' = "closing" /\ copies' = 0 /\ extra' = None
        \/ pc' = "send" /\ copies' \in {0, copies - 1} /\ extra' = None
    BY <1>7, <2>1, <2>3 DEF SendBase, LastFrame, Leave
  <2>5. ASSUME mode # "unpaced"
        PROVE  sincePause' <= MostCopies /\ sincePause' + copies' <= MostCopies
    <3>1. sincePause = 0 \/ sincePause + copies <= MostCopies
      BY <1>0, <2>1, <2>5 DEF PauseInv, MostCopies
    <3>2. sincePause' \in {sincePause, sincePause + 1}
      BY <2>2
    <3>3. copies' \in {0, copies - 1}
      BY <2>4
    <3>4. copies > 0
      BY <2>1
    <3>5. sincePause' \in Nat /\ copies' \in Nat
      BY <1>0, <3>2, <3>3, <3>4
    <3> QED
      BY <1>0, <3>1, <3>2, <3>3, <3>4, <3>5, OneLeft
  <2>6. copies' <= MostCopies
    BY <1>0, <2>1, <2>4
  <2>7. MostCopies' = MostCopies
    BY <2>1 DEF MostCopies
  <2> QED
    BY <2>1, <2>2, <2>4, <2>5, <2>6, <2>7 DEF PauseInv, PauseHolds
<1>8. ASSUME NEW last \in BOOLEAN, NEW i \in Ids, SendExtra(i, last) PROVE PauseInv'
  <2>1. /\ UNCHANGED <<mode, go, waiting>> /\ pc = "send" /\ CountFrame
        /\ extra # None
    BY <1>8 DEF SendExtra, None
  <2>2. /\ waiting = "no"
        /\ go \/ waiting = "woken" => sincePause' = 0 /\ turns' = 0
        /\ turns' <= 1 /\ (turns' = 1 => ~fresh')
        /\ sincePause' \in {sincePause, sincePause + 1}
    BY <2>1, CountStep
  <2>3. copies = 0 /\ (mode # "unpaced" => sincePause = 0)
    BY <1>0, <2>1 DEF PauseInv, MostCopies
  <2>4. /\ copies' = 0 /\ pc' \in {"closing", "gate", "hold"}
        /\ pc' = "gate" => extra' = None
    BY <1>8, <2>3 DEF SendExtra, LastFrame, Leave
  <2>5. mode # "unpaced" => sincePause' <= MostCopies
    BY <1>0, <2>2, <2>3
  <2>6. MostCopies' = MostCopies /\ copies' <= MostCopies
    BY <1>0, <2>1, <2>4 DEF MostCopies
  <2>7. mode' # "unpaced" => pc' # "send" /\ sincePause' <= MostCopies
    BY <2>1, <2>4, <2>5
  <2> QED
    BY <2>1, <2>2, <2>4, <2>6, <2>7 DEF PauseInv, PauseHolds
<1>9. CASE EndItem \/ StartDone \/ EmitDone \/ CancelQueued \/ JoinWorker \/ TakeFirst
           \/ \E i \in Ids : StartVisit(i)
  <2>1. /\ UNCHANGED <<mode, go, waiting, copies, extra, sincePause, turns, fresh>>
        /\ pc \notin {"gate", "hold"} /\ pc' # "send"
        /\ pc = "send" => copies = 0
        /\ pc' = "gate" => extra = None
    BY <1>9 DEF EndItem, StartDone, EmitDone, CancelQueued, JoinWorker, TakeFirst,
       StartVisit, control, history, pausing
  <2>2. MostCopies' = MostCopies
    BY <2>1 DEF MostCopies
  <2> QED
    BY <1>0, <2>1, <2>2 DEF PauseInv, PauseHolds
<1>10. CASE OutOfFrames
  BY <1>0, <1>10 DEF OutOfFrames, Leave, control, history, pausing, PauseInv, PauseHolds, MostCopies
<1> QED
  BY <1>1, <1>2, <1>3, <1>4, <1>5, <1>6, <1>7, <1>8, <1>9, <1>10 DEF Next,
     ControlStep, EngineStep, Sending, Extras, Close, WorkerStep

(* The queue as a set: Append adds one member, taking the head removes it.   *)
LEMMA QueueFacts ==
  ASSUME queue \in Seq(Ids)
  PROVE  /\ \A j \in Ids : queue' = Append(queue, j) =>
               InQueue(j)' /\ \A i \in Ids : InQueue(i) => InQueue(i)'
         /\ queue # <<>> /\ queue' = Tail(queue) =>
               /\ Head(queue) \in Ids
               /\ \A i \in Ids : InQueue(i) => i = Head(queue) \/ InQueue(i)'
         /\ queue' = queue => \A i \in Ids : InQueue(i) => InQueue(i)'
<1>1. ASSUME NEW j \in Ids, queue' = Append(queue, j)
      PROVE  InQueue(j)' /\ \A i \in Ids : InQueue(i) => InQueue(i)'
  <2>1. /\ Len(queue') = Len(queue) + 1 /\ queue'[Len(queue) + 1] = j
        /\ \A k \in 1..Len(queue) : queue'[k] = queue[k]
        /\ Len(queue) \in Nat
    BY <1>1
  <2> QED
    BY <2>1 DEF InQueue
<1>2. ASSUME queue # <<>>, queue' = Tail(queue)
      PROVE  /\ Head(queue) \in Ids
             /\ \A i \in Ids : InQueue(i) => i = Head(queue) \/ InQueue(i)'
  <2>1. /\ Len(queue') = Len(queue) - 1 /\ Head(queue) = queue[1]
        /\ \A k \in 1..(Len(queue) - 1) : queue'[k] = queue[k + 1]
        /\ Len(queue) \in Nat \ {0} /\ Head(queue) \in Ids
    BY <1>2
  <2>2. ASSUME NEW i \in Ids, InQueue(i) PROVE i = Head(queue) \/ InQueue(i)'
    <3>1. PICK k \in 1..Len(queue) : queue[k] = i
      BY <2>2 DEF InQueue
    <3>2. CASE k = 1
      BY <2>1, <3>1, <3>2
    <3>3. CASE k > 1
      <4>1. k - 1 \in 1..Len(queue') /\ queue'[k - 1] = i
        BY <2>1, <3>1, <3>3
      <4> QED
        BY <4>1 DEF InQueue
    <3> QED
      BY <2>1, <3>2, <3>3
  <2> QED
    BY <2>1, <2>2
<1>3. queue' = queue => \A i \in Ids : InQueue(i) => InQueue(i)'
  BY DEF InQueue
<1> QED
  BY <1>1, <1>2, <1>3

(* No pass gets lost between _submit and the worker's result: Futures and the *)
(* worker's queue and hand keep agreeing.                                     *)
LEMMA WorkerInvStep ==
  ASSUME TypeOK, Stages, Lifecycle, WorkerInv, [Next]_vars
  PROVE  WorkerInv'
<1>1. CASE Pause \/ Resume \/ Stop \/ (\E inc \in Incidents : Inject(inc)) \/ Block
          \/ FeedGate \/ SendGate \/ EndItem \/ (\E last \in BOOLEAN :
          SendBase(last)) \/ (\E last \in BOOLEAN, i \in Ids :
          SendExtra(i, last)) \/ StartDone \/ (\E i \in Ids :
          StillBuilding(i)) \/ EmitDone \/ OutOfFrames \/ NextPhase \/ (\E
          i \in Ids : DeadlinePasses(i)) \/ UNCHANGED vars
  <2>1. /\ UNCHANGED <<queue, building, fut, active>>
        /\ pc \in {"joining", "ended"} \/ pc' \in {"joining", "ended"} => pc' = pc
    BY <1>1 DEF Pause, Resume, Stop, Inject, Block, FeedGate, GateReturns, Leave, ItemCopies, MostCopies, StopOrSend, SendGate, EndItem, SendBase, CountFrame, LastFrame,
       SendExtra, StartDone, StillBuilding, EmitDone, OutOfFrames, NextPhase,
       DeadlinePasses, vars, control, progress, engine, worker, places, pausing, history
  <2> QED
    BY <2>1 DEF WorkerInv, InQueue
<1>2. ASSUME NEW i \in Ids, StartVisit(i) PROVE WorkerInv'
  <2>1. queue \in Seq(Ids) /\ fut \in [Ids -> Futures]
    BY DEF TypeOK, WorkerType, InjectionType
  <2>2. /\ pc \notin {"joining", "ended"} /\ pc' \notin {"joining", "ended"}
        /\ UNCHANGED <<building, active>>
        /\ \/ queue' = Append(queue, i) /\ fut' = [fut EXCEPT ![i] = "queued"]
           \/ UNCHANGED <<queue, fut>>
    BY <1>2 DEF StartVisit, Submit, worker
  <2>3. CASE queue' = Append(queue, i) /\ fut' = [fut EXCEPT ![i] = "queued"]
    <3>1. InQueue(i)' /\ \A j \in Ids : InQueue(j) => InQueue(j)'
      BY <2>1, <2>3, QueueFacts
    <3> QED
      BY <2>1, <2>2, <2>3, <3>1 DEF WorkerInv, TypeOK, ControlType
  <2>4. CASE UNCHANGED <<queue, fut>>
    BY <2>1, <2>2, <2>4, QueueFacts DEF WorkerInv, TypeOK, ControlType
  <2> QED
    BY <2>2, <2>3, <2>4
<1>3. CASE TakeFirst
  <2>1. /\ queue \in Seq(Ids) /\ fut \in [Ids -> Futures]
        /\ starting \in Ids /\ starting \notin active /\ active \subseteq Ids
    BY <1>3, NoIdIsNone DEF TakeFirst, TypeOK, ControlType, WorkerType,
       InjectionType, EngineType, Stages, Lifecycle
  <2>2. /\ pc \notin {"joining", "ended"} /\ pc' \notin {"joining", "ended"}
        /\ building' = building
    BY <1>3 DEF TakeFirst, Submit, worker
  <2>3. CASE fut[starting] = "failed"
    <3>1. /\ queue' = queue /\ active' = active \ {starting}
          /\ fut' = [fut EXCEPT ![starting] = "none"]
      BY <1>3, <2>3 DEF TakeFirst, Finish, worker
    <3> QED
      BY <2>1, <2>2, <3>1, QueueFacts DEF WorkerInv
  <2>4. CASE ~(fut[starting] = "failed")
    <3>1. /\ queue' = Append(queue, starting)
          /\ active' = active \cup {starting}
          /\ fut' = [fut EXCEPT ![starting] = "queued"]
      BY <1>3, <2>4 DEF TakeFirst, Submit
    <3> QED
      BY <2>1, <2>2, <3>1, QueueFacts DEF WorkerInv
  <2> QED
    BY <2>3, <2>4
<1>4. ASSUME NEW i \in Ids, EndIdle(i) PROVE WorkerInv'
  BY <1>4, QueueFacts DEF EndIdle, Finish, worker, TypeOK, WorkerType, ControlType,
     InjectionType, WorkerInv
<1>5. ASSUME NEW i \in Ids, Emit(i) PROVE WorkerInv'
  <2>1. /\ pc' = pc /\ pc = "emitting" /\ queue' = queue /\ building' = building
        /\ \/ UNCHANGED <<active, fut>>
           \/ active' = active \ {i} /\ fut' = [fut EXCEPT ![i] = "none"]
    BY <1>5 DEF Emit, Finish, worker
  <2> QED
    BY <2>1, QueueFacts DEF TypeOK, WorkerType, ControlType, InjectionType,
       WorkerInv
<1>6. ASSUME NEW i \in Ids, NextPass(i) PROVE WorkerInv'
  <2>1. /\ pc' = pc /\ pc = "emitting" /\ active' = active
        /\ queue' = Append(queue, i) /\ building' = building
        /\ fut' = [fut EXCEPT ![i] = "queued"]
    BY <1>6 DEF NextPass, Submit, control
  <2> QED
    BY <2>1, QueueFacts DEF TypeOK, WorkerType, ControlType, InjectionType,
       WorkerInv
<1>7. CASE CancelQueued
  BY <1>7 DEF CancelQueued, control, TypeOK, ControlType, InjectionType, WorkerInv
<1>8. CASE JoinWorker
  BY <1>8 DEF JoinWorker, control, worker, TypeOK, ControlType, WorkerInv
<1>9. CASE WorkerTake
  <2>1. /\ queue \in Seq(Ids) /\ fut \in [Ids -> Futures] /\ active \subseteq Ids
        /\ UNCHANGED <<pc, active>>
    BY <1>9 DEF WorkerTake, TypeOK, ControlType, WorkerType, InjectionType, engine,
       control
  <2>2. /\ building = NoId /\ queue # <<>> /\ queue' = Tail(queue)
    BY <1>9 DEF WorkerTake
  <2>3. pc \notin {"joining", "ended"}
    BY <2>2 DEF WorkerInv
  <2>4. \A i \in Ids : fut[i] # "building"
    BY <2>2, NoIdIsNone DEF WorkerInv
  <2>5. CASE fut[Head(queue)] = "queued"
    <3>1. /\ building' = Head(queue)
          /\ fut' = [fut EXCEPT ![Head(queue)] = "building"]
      BY <1>9, <2>5 DEF WorkerTake
    <3> QED
      BY <2>1, <2>2, <2>3, <2>4, <3>1, QueueFacts DEF WorkerInv
  <2>6. CASE ~(fut[Head(queue)] = "queued")
    <3>1. UNCHANGED <<building, fut>>
      BY <1>9, <2>6 DEF WorkerTake
    <3> QED
      BY <2>1, <2>2, <2>3, <2>4, <2>6, <3>1, QueueFacts DEF WorkerInv
  <2> QED
    BY <2>5, <2>6
<1>10. ASSUME NEW result \in {"frames", "failed"}, WorkerDone(result) PROVE WorkerInv'
  <2>1. /\ building \in Ids /\ queue' = queue /\ UNCHANGED <<pc, active>>
        /\ building' = NoId
        /\ fut' = [fut EXCEPT ![building] = IF @ = "building" THEN result ELSE @]
    BY <1>10 DEF WorkerDone, TypeOK, WorkerType, engine, control
  <2>2. fut \in [Ids -> Futures] /\ queue \in Seq(Ids) /\ active \subseteq Ids
    BY DEF TypeOK, InjectionType, WorkerType, ControlType
  <2>3. \A i \in Ids : i # building => fut'[i] = fut[i] /\ fut[i] # "building"
    BY <2>1, <2>2 DEF WorkerInv
  <2>4. fut'[building] \in {"frames", "failed", fut[building]}
        /\ fut'[building] # "building"
    BY <2>1, <2>2
  <2> QED
    BY <2>1, <2>2, <2>3, <2>4, QueueFacts DEF WorkerInv
<1> QED
  BY <1>1, <1>2, <1>3, <1>4, <1>5, <1>6, <1>7, <1>8, <1>9, <1>10 DEF Next,
     ControlStep, EngineStep, Sending, Extras, Close, WorkerStep

(* The frames of every injection add up, through bursts, ends of passes and   *)
(* the send loop: handed out and left make up the passes begun.               *)
LEMMA FrameAccountStep ==
  ASSUME TypeOK, Stages, Lifecycle,
         NEW j \in Ids, FrameAccount(j), [Next]_vars
  PROVE  FrameAccount(j)'
<1>1. CASE Pause \/ Resume \/ Stop \/ Block \/ FeedGate \/ SendGate \/ EndItem \/ (\E last \in
          BOOLEAN : SendBase(last)) \/ (\E i \in Ids : StartVisit(i)) \/
          StartDone \/ (\E i \in Ids : StillBuilding(i)) \/ EmitDone \/
          CancelQueued \/ JoinWorker \/ WorkerTake \/ (\E result \in
          {"frames", "failed"} : WorkerDone(result)) \/ OutOfFrames \/
          NextPhase \/ (\E i \in Ids : DeadlinePasses(i)) \/ UNCHANGED
          vars
  <2>1. /\ UNCHANGED <<state, left, passes, framesOut, credit, fed, sent>>
        /\ InLoop' => InLoop
        /\ extra' = extra \/ (extra' = None /\ ~InLoop')
    BY <1>1 DEF Pause, Resume, Stop, Block, FeedGate, GateReturns, Leave, ItemCopies, MostCopies, StopOrSend, SendGate, EndItem, SendBase, CountFrame, LastFrame, StartVisit, Submit,
       NoLongerPending, StartDone, StillBuilding, EmitDone, CancelQueued,
       JoinWorker, WorkerTake, WorkerDone, OutOfFrames, NextPhase,
       DeadlinePasses, vars, control, progress, engine, worker, places, pausing, history, InLoop
  <2> QED
    BY <2>1 DEF FrameAccount, Over, Fresh, None
<1>2. ASSUME NEW inc \in Incidents, Inject(inc) PROVE FrameAccount(j)'
  <2>1. Len(injections) + 1 \in Ids
    BY <1>2, BoundsAssumption DEF Inject, Ids, TypeOK, ControlType
  <2>2. state[Len(injections) + 1] = "absent"
    BY <2>1 DEF Lifecycle, TypeOK, ControlType
  <2>3. /\ state' = [state EXCEPT ![Len(injections) + 1] = "pending"]
        /\ UNCHANGED <<left, passes, framesOut, credit, fed, sent, extra, pc>>
    BY <1>2 DEF Inject, progress, engine, pausing, history
  <2> QED
    BY <2>1, <2>2, <2>3 DEF TypeOK, InjectionType, FrameAccount, Over, Fresh,
       InLoop
<1>3. ASSUME NEW last \in BOOLEAN, NEW i \in Ids, SendExtra(i, last) PROVE FrameAccount(j)'
  <2>1. /\ sent' = [sent EXCEPT ![i] = @ + 1]
        /\ UNCHANGED <<state, left, passes, framesOut, credit, fed>>
        /\ \/ ~InLoop'
           \/ InLoop /\ extra' = [extra EXCEPT ![i] = @ - 1]
    BY <1>3 DEF SendExtra, LastFrame, Leave, InLoop, progress
  <2>2. extra[i] \in Nat /\ extra[i] > 0 /\ sent[i] \in Nat /\ framesOut[i] \in Nat
    BY <1>3 DEF SendExtra, TypeOK, EngineType, HistoryType, InjectionType, Counters
  <2>3. state[j] \in {"absent", "pending"} => j # i
    BY <2>2 DEF FrameAccount, Fresh
  <2>4. j # i => /\ sent'[j] = sent[j]
                 /\ (extra'[j] = extra[j] \/ (extra'[j] = 0 /\ ~InLoop'))
    <3>1. CASE last /\ mode = "cycle"
      BY <1>3, <2>1, <3>1 DEF SendExtra, LastFrame, Leave, InLoop, None, TypeOK,
         HistoryType, Counters
    <3>2. CASE ~(last /\ mode = "cycle")
      <4>1. extra' = [extra EXCEPT ![i] = @ - 1]
        BY <1>3, <3>2 DEF SendExtra, LastFrame
      <4> QED
        BY <2>1, <4>1 DEF TypeOK, EngineType, HistoryType, Counters
    <3> QED
      BY <3>1, <3>2
  <2>5. j = i /\ InLoop' => sent'[j] = sent[j] + 1 /\ extra'[j] = extra[j] - 1
    BY <2>1 DEF TypeOK, EngineType, HistoryType, Counters
  <2>6. InLoop' => InLoop
    BY <2>1
  <2> QED
    BY <2>1, <2>2, <2>3, <2>4, <2>5, <2>6 DEF FrameAccount, Over, Fresh
<1>4. CASE TakeFirst
  <2>1. /\ starting \in Ids /\ state[starting] = "pending" /\ InLoop
        /\ UNCHANGED <<framesOut, fed, sent, extra>>
    BY <1>4, NoIdIsNone DEF TakeFirst, TypeOK, EngineType, Stages, Lifecycle,
       InLoop, pausing, history, progress
  <2>2. CASE fut[starting] = "failed"
    <3>1. /\ state' = [state EXCEPT ![starting] = "failed"]
          /\ UNCHANGED <<left, passes, credit>>
      BY <1>4, <2>2 DEF TakeFirst, Finish, progress
    <3> QED
      BY <2>1, <3>1 DEF FrameAccount, Over, Fresh, TypeOK, InjectionType
  <2>3. CASE ~(fut[starting] = "failed")
    <3>1. /\ state' = [state EXCEPT ![starting] = "active"]
          /\ left' = [left EXCEPT ![starting] = PassLen]
          /\ passes' = [passes EXCEPT ![starting] = 1]
          /\ credit' = [credit EXCEPT ![starting] = Unit]
      BY <1>4, <2>3 DEF TakeFirst
    <3>2. PassLen \in Nat /\ 0 * PassLen = 0 /\ 1 * PassLen = PassLen
      BY BoundsAssumption
    <3> QED
      BY <2>1, <3>1, <3>2 DEF FrameAccount, Over, Fresh, TypeOK, InjectionType,
         Counters
  <2> QED
    BY <2>2, <2>3
<1>5. ASSUME NEW i \in Ids, EndIdle(i) PROVE FrameAccount(j)'
  <2>1. /\ left[i] = 0 /\ state[i] = "active" /\ InLoop
        /\ UNCHANGED <<left, passes, framesOut, credit, fed, sent, extra>>
        /\ \E how \in {"done", "failed"} : state' = [state EXCEPT ![i] = how]
    BY <1>5 DEF EndIdle, Finish, Stages, Lifecycle, InLoop, progress, pausing, history
  <2> QED
    BY <2>1 DEF FrameAccount, Over, Fresh, TypeOK, InjectionType
<1>6. ASSUME NEW i \in Ids, Emit(i) PROVE FrameAccount(j)'
  <2>1. /\ state[i] = "active" /\ InLoop
        /\ UNCHANGED <<passes, sent>>
        /\ \/ state' = state
           \/ left'[i] = 0 /\ state' = [state EXCEPT ![i] = "done"]
    BY <1>6 DEF Emit, Finish, PassAndTimeOver, Stages, Lifecycle, InLoop
  <2>2. PICK n \in 0..left[i] : Buy(i, left[i], n)
    BY <1>6 DEF Emit, Credit
  <2>3. /\ left' = [left EXCEPT ![i] = left[i] - n]
        /\ framesOut' = [framesOut EXCEPT ![i] = framesOut[i] + n]
        /\ extra' = [extra EXCEPT ![i] = extra[i] + n]
        /\ credit' = [credit EXCEPT ![i] = credit[i] + Gain[i] - n * Unit]
        /\ fed' = [fed EXCEPT ![i] = fed[i] + 1]
    BY <2>2 DEF Buy
  <2>4. /\ left[i] \in Nat /\ n \in Nat /\ framesOut[i] \in Nat
        /\ extra[i] \in Nat /\ sent[i] \in Nat
    BY DEF TypeOK, InjectionType, EngineType, HistoryType, Counters
  <2>5. CASE j = i
    BY <2>1, <2>3, <2>4, <2>5 DEF FrameAccount, Over, TypeOK, InjectionType,
       EngineType, Counters, States
  <2>6. CASE j # i
    BY <2>1, <2>3, <2>6 DEF FrameAccount, Over, Fresh, TypeOK, InjectionType,
       EngineType, HistoryType, Counters
  <2> QED
    BY <2>5, <2>6
<1>7. ASSUME NEW i \in Ids, NextPass(i) PROVE FrameAccount(j)'
  <2>1. /\ state[i] = "active" /\ InLoop /\ left[i] = 0
        /\ UNCHANGED <<state, sent>>
        /\ passes' = [passes EXCEPT ![i] = passes[i] + 1]
    BY <1>7 DEF NextPass, Stages, Lifecycle, InLoop
  <2>2. PICK n \in 0..PassLen : Buy(i, PassLen, n)
    BY <1>7 DEF NextPass, Credit
  <2>3. /\ left' = [left EXCEPT ![i] = PassLen - n]
        /\ framesOut' = [framesOut EXCEPT ![i] = framesOut[i] + n]
        /\ extra' = [extra EXCEPT ![i] = extra[i] + n]
        /\ credit' = [credit EXCEPT ![i] = credit[i] + Gain[i] - n * Unit]
        /\ fed' = [fed EXCEPT ![i] = fed[i] + 1]
    BY <2>2 DEF Buy
  <2>4. /\ PassLen \in Nat /\ n \in Nat /\ framesOut[i] \in Nat
        /\ extra[i] \in Nat /\ sent[i] \in Nat /\ passes[i] \in Nat
    BY BoundsAssumption DEF TypeOK, InjectionType, EngineType, HistoryType, Counters
  <2>5. CASE j = i
    <3>1. /\ (passes[i] + 1) * PassLen = passes[i] * PassLen + PassLen
          /\ passes[i] * PassLen \in Nat
      BY <2>4, OneMore
    <3>2. /\ left'[j] = PassLen - n /\ framesOut'[j] = framesOut[i] + n
          /\ extra'[j] = extra[i] + n /\ passes'[j] = passes[i] + 1
      BY <2>1, <2>3, <2>5 DEF TypeOK, InjectionType, EngineType, Counters
    <3>3. framesOut'[j] + left'[j] = passes'[j] * PassLen
      BY <2>1, <2>4, <2>5, <3>1, <3>2 DEF FrameAccount
    <3>4. sent'[j] + extra'[j] = framesOut'[j]
      BY <2>1, <2>4, <2>5, <3>2 DEF FrameAccount
    <3> QED
      BY <2>1, <2>4, <2>5, <3>2, <3>3, <3>4 DEF FrameAccount, Over
  <2>6. CASE j # i
    BY <2>1, <2>3, <2>6 DEF FrameAccount, Over, Fresh, TypeOK, InjectionType,
       EngineType, HistoryType, Counters
  <2> QED
    BY <2>5, <2>6
<1> QED
  BY <1>1, <1>2, <1>3, <1>4, <1>5, <1>6, <1>7 DEF Next, ControlStep,
     EngineStep, Sending, Extras, Close, WorkerStep

(* The credit of every injection adds up: what was handed out and what is     *)
(* left is what its base frames earned, plus the one frame it starts with.    *)
LEMMA CreditAccountStep ==
  ASSUME TypeOK, Stages, Lifecycle,
         NEW j \in Ids, CreditAccount(j), \A i \in Ids : FrameAccount(i), [Next]_vars
  PROVE  CreditAccount(j)'
<1>1. CASE Pause \/ Resume \/ Stop \/ (\E inc \in Incidents : Inject(inc)) \/ Block
          \/ FeedGate \/ SendGate \/ EndItem \/ (\E last \in BOOLEAN :
          SendBase(last)) \/ (\E last \in BOOLEAN, i \in Ids :
          SendExtra(i, last)) \/ (\E i \in Ids : StartVisit(i)) \/
          StartDone \/ (\E i \in Ids : EndIdle(i)) \/ (\E i \in Ids :
          StillBuilding(i)) \/ EmitDone \/ CancelQueued \/ JoinWorker \/
          WorkerTake \/ (\E result \in {"frames", "failed"} :
          WorkerDone(result)) \/ OutOfFrames \/ NextPhase \/ (\E i \in Ids
          : DeadlinePasses(i)) \/ UNCHANGED vars
  <2>1. UNCHANGED <<passes, credit, framesOut, fed>>
    BY <1>1 DEF Pause, Resume, Stop, Inject, Block, FeedGate, GateReturns, Leave, ItemCopies, MostCopies, StopOrSend, SendGate, EndItem, SendBase, CountFrame, LastFrame,
       SendExtra, StartVisit, Submit, NoLongerPending, StartDone, EndIdle,
       Finish, StillBuilding, EmitDone, CancelQueued, JoinWorker, WorkerTake,
       WorkerDone, OutOfFrames, NextPhase, DeadlinePasses, vars, control,
       progress, engine, worker, places, pausing, history
  <2> QED
    BY <2>1 DEF CreditAccount
<1>2. CASE TakeFirst
  <2>1. /\ starting \in Ids /\ state[starting] = "pending"
        /\ UNCHANGED <<framesOut, fed>>
    BY <1>2, NoIdIsNone DEF TakeFirst, TypeOK, EngineType, Stages, Lifecycle,
       pausing, history, progress
  <2>2. CASE fut[starting] = "failed"
    <3>1. UNCHANGED <<passes, credit>>
      BY <1>2, <2>2 DEF TakeFirst, progress
    <3> QED
      BY <2>1, <3>1 DEF CreditAccount
  <2>3. CASE ~(fut[starting] = "failed")
    <3>1. /\ passes' = [passes EXCEPT ![starting] = 1]
          /\ credit' = [credit EXCEPT ![starting] = Unit]
      BY <1>2, <2>3 DEF TakeFirst
    <3>2. framesOut[starting] = 0 /\ fed[starting] = 0
      BY <2>1 DEF FrameAccount, Fresh
    <3>3. /\ Unit \in Nat /\ 0 * Unit = 0 /\ Gain[starting] * 0 = 0
      BY <2>1, BoundsAssumption DEF Ids
    <3>4. CASE j = starting
      <4>1. /\ passes'[j] = 1 /\ credit'[j] = Unit
            /\ framesOut'[j] = 0 /\ fed'[j] = 0
        BY <2>1, <3>1, <3>2, <3>4 DEF TypeOK, InjectionType, Counters
      <4> QED
        BY <3>3, <3>4, <4>1 DEF CreditAccount
    <3>5. CASE j # starting
      BY <2>1, <3>1, <3>5 DEF CreditAccount, TypeOK, InjectionType, Counters
    <3> QED
      BY <3>4, <3>5
  <2> QED
    BY <2>2, <2>3
<1>3. ASSUME NEW i \in Ids, Emit(i) PROVE CreditAccount(j)'
  <2>0. left[i] \in Nat /\ left[i] > 0
    BY <1>3 DEF Emit, TypeOK, InjectionType, Counters
  <2>1. passes' = passes /\ passes[i] \in Nat \ {0}
    BY <1>3 DEF Emit, Stages, Lifecycle, FrameAccount, TypeOK, InjectionType, Counters
  <2>2. PICK n \in 0..left[i] : Buy(i, left[i], n)
    BY <1>3 DEF Emit, Credit
  <2>3. /\ framesOut' = [framesOut EXCEPT ![i] = framesOut[i] + n]
        /\ credit' = [credit EXCEPT ![i] = credit[i] + Gain[i] - n * Unit]
        /\ fed' = [fed EXCEPT ![i] = fed[i] + 1]
    BY <2>2 DEF Buy
  <2>4. /\ n \in Nat /\ Unit \in Nat /\ Gain[i] \in Nat /\ framesOut[i] \in Nat
        /\ credit[i] \in Nat /\ fed[i] \in Nat /\ passes[i] \in Nat \ {0}
    BY <2>1, BoundsAssumption DEF TypeOK, InjectionType, HistoryType, Counters, Ids
  <2>5. CASE j = i
    <3>1. /\ (framesOut[i] + n) * Unit = framesOut[i] * Unit + n * Unit
          /\ framesOut[i] * Unit \in Nat /\ n * Unit \in Nat
          /\ Gain[i] * (fed[i] + 1) = Gain[i] * fed[i] + Gain[i]
          /\ Gain[i] * fed[i] \in Nat
      <4>1. (framesOut[i] + n) * Unit = framesOut[i] * Unit + n * Unit
        BY <2>4
      <4>2. framesOut[i] * Unit \in Nat /\ n * Unit \in Nat
        BY <2>4, OneMore
      <4>3. /\ Gain[i] * (fed[i] + 1) = Gain[i] * fed[i] + Gain[i]
            /\ Gain[i] * fed[i] \in Nat
        BY <2>4, OneMore
      <4> QED
        BY <4>1, <4>2, <4>3
    <3>2. /\ framesOut'[j] = framesOut[i] + n /\ fed'[j] = fed[i] + 1
          /\ credit'[j] = credit[i] + Gain[i] - n * Unit
          /\ passes'[j] \in Nat \ {0}
      BY <2>1, <2>3, <2>4, <2>5 DEF TypeOK, InjectionType, HistoryType, Counters
    <3>3. framesOut[i] * Unit + credit[i] = Unit + Gain[i] * fed[i]
      BY <2>4, <2>5 DEF CreditAccount
    <3>4. framesOut'[j] * Unit + credit'[j] = Unit + Gain[j] * fed'[j]
      BY <2>4, <2>5, <3>1, <3>2, <3>3, SMTT(30)
    <3> QED
      BY <3>2, <3>4 DEF CreditAccount
  <2>6. CASE j # i
    BY <2>1, <2>3, <2>6 DEF CreditAccount, TypeOK, InjectionType, HistoryType,
       Counters
  <2> QED
    BY <2>5, <2>6
<1>4. ASSUME NEW i \in Ids, NextPass(i) PROVE CreditAccount(j)'
  <2>1. /\ passes' = [passes EXCEPT ![i] = passes[i] + 1]
        /\ passes[i] \in Nat \ {0}
    BY <1>4 DEF NextPass, Stages, Lifecycle, FrameAccount, TypeOK, InjectionType,
       Counters
  <2>2. PICK n \in 0..PassLen : Buy(i, PassLen, n)
    BY <1>4 DEF NextPass, Credit
  <2>3. /\ framesOut' = [framesOut EXCEPT ![i] = framesOut[i] + n]
        /\ credit' = [credit EXCEPT ![i] = credit[i] + Gain[i] - n * Unit]
        /\ fed' = [fed EXCEPT ![i] = fed[i] + 1]
    BY <2>2 DEF Buy
  <2>4. /\ n \in Nat /\ Unit \in Nat /\ Gain[i] \in Nat /\ framesOut[i] \in Nat
        /\ credit[i] \in Nat /\ fed[i] \in Nat /\ passes[i] \in Nat \ {0}
    BY <2>1, BoundsAssumption DEF TypeOK, InjectionType, HistoryType, Counters, Ids
  <2>5. CASE j = i
    <3>1. /\ (framesOut[i] + n) * Unit = framesOut[i] * Unit + n * Unit
          /\ framesOut[i] * Unit \in Nat /\ n * Unit \in Nat
          /\ Gain[i] * (fed[i] + 1) = Gain[i] * fed[i] + Gain[i]
          /\ Gain[i] * fed[i] \in Nat
      <4>1. (framesOut[i] + n) * Unit = framesOut[i] * Unit + n * Unit
        BY <2>4
      <4>2. framesOut[i] * Unit \in Nat /\ n * Unit \in Nat
        BY <2>4, OneMore
      <4>3. /\ Gain[i] * (fed[i] + 1) = Gain[i] * fed[i] + Gain[i]
            /\ Gain[i] * fed[i] \in Nat
        BY <2>4, OneMore
      <4> QED
        BY <4>1, <4>2, <4>3
    <3>2. /\ framesOut'[j] = framesOut[i] + n /\ fed'[j] = fed[i] + 1
          /\ credit'[j] = credit[i] + Gain[i] - n * Unit
          /\ passes'[j] \in Nat \ {0}
      BY <2>1, <2>3, <2>4, <2>5 DEF TypeOK, InjectionType, HistoryType, Counters
    <3>3. framesOut[i] * Unit + credit[i] = Unit + Gain[i] * fed[i]
      BY <2>4, <2>5 DEF CreditAccount
    <3>4. framesOut'[j] * Unit + credit'[j] = Unit + Gain[j] * fed'[j]
      BY <2>4, <2>5, <3>1, <3>2, <3>3
    <3> QED
      BY <3>2, <3>4 DEF CreditAccount
  <2>6. CASE j # i
    BY <2>1, <2>3, <2>6 DEF CreditAccount, TypeOK, InjectionType, HistoryType,
       Counters
  <2> QED
    BY <2>5, <2>6
<1> QED
  BY <1>1, <1>2, <1>3, <1>4 DEF Next, ControlStep, EngineStep, Sending,
     Extras, Close, WorkerStep

(* An injection that is over stays as it is, whatever the worker still does   *)
(* with a build of it that was cancelled too late.                            *)
LEMMA OverStep ==
  ASSUME TypeOK, Stages, Lifecycle,
         NEW j \in Ids, FrameAccount(j), Over(j), [Next]_vars
  PROVE  state'[j] = state[j] /\ framesOut'[j] = framesOut[j]
<1>1. CASE Pause \/ Resume \/ Stop \/ Block \/ FeedGate \/ SendGate \/ EndItem \/ (\E last \in
          BOOLEAN : SendBase(last)) \/ (\E last \in BOOLEAN, i \in Ids :
          SendExtra(i, last)) \/ (\E i \in Ids : StartVisit(i)) \/
          StartDone \/ (\E i \in Ids : StillBuilding(i)) \/ EmitDone \/
          CancelQueued \/ JoinWorker \/ WorkerTake \/ (\E result \in
          {"frames", "failed"} : WorkerDone(result)) \/ OutOfFrames \/
          NextPhase \/ (\E i \in Ids : DeadlinePasses(i)) \/ UNCHANGED
          vars
  <2>1. UNCHANGED <<state, framesOut>>
    BY <1>1 DEF Pause, Resume, Stop, Block, FeedGate, GateReturns, Leave, ItemCopies, MostCopies, StopOrSend, SendGate, EndItem, SendBase, CountFrame, LastFrame, SendExtra,
       StartVisit, Submit, NoLongerPending, StartDone, StillBuilding,
       EmitDone, CancelQueued, JoinWorker, WorkerTake, WorkerDone,
       OutOfFrames, NextPhase, DeadlinePasses, vars, control, progress,
       engine, worker, places, pausing, history
  <2> QED
    BY <2>1 DEF Over
<1>2. ASSUME NEW inc \in Incidents, Inject(inc) PROVE state'[j] = state[j] /\ framesOut'[j] = framesOut[j]
  <2>1. Len(injections) + 1 \in Ids
    BY <1>2, BoundsAssumption DEF Inject, Ids, TypeOK, ControlType
  <2>2. state[Len(injections) + 1] = "absent"
    BY <2>1 DEF Lifecycle, TypeOK, ControlType
  <2> QED
    BY <1>2, <2>1, <2>2 DEF Inject, progress, Over, TypeOK, InjectionType
<1>3. CASE TakeFirst
  <2>1. starting \in Ids /\ state[starting] = "pending"
    BY <1>3, NoIdIsNone DEF TakeFirst, TypeOK, EngineType, Stages, Lifecycle
  <2>2. framesOut' = framesOut
    BY <1>3 DEF TakeFirst, progress
  <2>3. \E how \in States : state' = [state EXCEPT ![starting] = how]
    BY <1>3 DEF TakeFirst, Finish, States
  <2> QED
    BY <2>1, <2>2, <2>3 DEF Over, TypeOK, InjectionType
<1>4. ASSUME NEW i \in Ids, EndIdle(i) PROVE state'[j] = state[j] /\ framesOut'[j] = framesOut[j]
  BY <1>4 DEF EndIdle, Finish, progress, Over, Stages, Lifecycle, TypeOK, InjectionType
<1>5. ASSUME NEW i \in Ids, Emit(i) PROVE state'[j] = state[j] /\ framesOut'[j] = framesOut[j]
  <2>1. j # i
    BY <1>5 DEF Emit, Over, Stages, Lifecycle
  <2>2. state' = state \/ state' = [state EXCEPT ![i] = "done"]
    BY <1>5 DEF Emit, Finish
  <2>3. PICK n \in 0..left[i] : framesOut' = [framesOut EXCEPT ![i] = @ + n]
    BY <1>5 DEF Emit, Credit, Buy
  <2> QED
    BY <2>1, <2>2, <2>3 DEF TypeOK, InjectionType, Counters
<1>6. ASSUME NEW i \in Ids, NextPass(i) PROVE state'[j] = state[j] /\ framesOut'[j] = framesOut[j]
  <2>1. j # i /\ state' = state
    BY <1>6 DEF NextPass, Over, Stages, Lifecycle
  <2>2. PICK n \in 0..PassLen : framesOut' = [framesOut EXCEPT ![i] = @ + n]
    BY <1>6 DEF NextPass, Credit, Buy
  <2> QED
    BY <2>1, <2>2 DEF TypeOK, InjectionType, Counters
<1> QED
  BY <1>1, <1>2, <1>3, <1>4, <1>5, <1>6 DEF Next, ControlStep, EngineStep,
     Sending, Extras, Close, WorkerStep

-----------------------------------------------------------------------------
(* A control without injections satisfies the invariant.                      *)
LEMMA InitIInv == Init => IInv
<1> SUFFICES ASSUME Init PROVE IInv
  OBVIOUS
<1>1. None \in Counters /\ None \in PhasesOf
  BY BoundsAssumption DEF None, Counters, PhasesOf
<1>2. 1 \in 1..Phases /\ 0 <= MaxInjections /\ 0 * PassLen = 0 /\ 0 * Unit = 0
  BY BoundsAssumption
<1>3. \A i \in Ids : Gain[i] * 0 = 0 /\ i > 0
  BY BoundsAssumption DEF Ids
<1>4. TypeOK
  <2>1. ControlType
    <3>1. <<>> \in Seq(Incidents) /\ Len(<<>>) = 0
      OBVIOUS
    <3> QED
      BY <1>2, <3>1 DEF Init, ControlType
  <2>2. InjectionType
    BY <1>1 DEF Init, InjectionType, States, Futures
  <2>3. EngineType /\ WorkerType
    BY <1>1, ModesAssumption DEF Init, EngineType, WorkerType, Places
  <2>4. PlaceType /\ HistoryType
    BY <1>1, <1>2 DEF Init, PlaceType, HistoryType
  <2> QED
    BY <2>1, <2>2, <2>3, <2>4 DEF TypeOK
<1>5. Stages /\ Lifecycle /\ WorkerInv
  BY <1>3 DEF Init, Stages, Lifecycle, WorkerInv, NoId
<1>7. PauseInv
  BY ModesAssumption DEF Init, PauseInv, PauseHolds, MostCopies
<1>6. ASSUME NEW i \in Ids PROVE FrameAccount(i) /\ CreditAccount(i)
  BY <1>2, <1>3 DEF Init, None, FrameAccount, CreditAccount, Fresh, Over
<1> QED
  BY <1>4, <1>5, <1>6, <1>7 DEF IInv

(* Every step of every thread preserves it: the lemmas above, put together.   *)
LEMMA NextIInv == IInv /\ [Next]_vars => IInv'
<1> SUFFICES ASSUME IInv, [Next]_vars PROVE IInv'
  OBVIOUS
<1>1. /\ TypeOK /\ Stages /\ Lifecycle /\ PauseInv /\ WorkerInv
      /\ \A i \in Ids : FrameAccount(i) /\ CreditAccount(i)
  BY DEF IInv
<1>2. TypeOK'
  BY <1>1, ControlTypeStep, InjectionTypeStep, EngineTypeStep, WorkerTypeStep,
     PlaceTypeStep, HistoryTypeStep DEF TypeOK
<1>3. Stages' /\ Lifecycle' /\ PauseInv' /\ WorkerInv'
  BY <1>1, StagesStep, LifecycleStep, PauseStep, WorkerInvStep
<1>4. \A i \in Ids : FrameAccount(i)'
  BY <1>1, FrameAccountStep
<1>5. \A i \in Ids : CreditAccount(i)'
  BY <1>1, CreditAccountStep
<1> QED
  BY <1>2, <1>3, <1>4, <1>5 DEF IInv

(* The invariant holds in every run, for all interleavings of the control     *)
(* threads, the engine thread and the injection worker.                       *)
THEOREM Invariance == Spec => []IInv
  BY InitIInv, NextIInv, PTL DEF Spec

(* The variables keep their types; in particular credit is never overspent    *)
(* and no frame is taken from an exhausted pass.                              *)
THEOREM TypeCorrect == Spec => []TypeOK
  BY Invariance, PTL DEF IInv

(* pause() holds the run up to what the last gate had let through.            *)
THEOREM PauseCorrect == Spec => []PauseHolds
<1>1. IInv => PauseHolds
  BY DEF IInv, PauseInv
<1> QED
  BY <1>1, Invariance, PTL

(* An injection that is over has sent each pass it began, whole and once.     *)
THEOREM WholePassesCorrect == Spec => []WholePasses
<1>1. IInv => WholePasses
  <2> SUFFICES ASSUME IInv, NEW i \in Ids, InLoop, Over(i)
               PROVE  sent[i] + extra[i] = passes[i] * PassLen
    BY DEF WholePasses
  <2>1. /\ framesOut[i] + left[i] = passes[i] * PassLen /\ left[i] = 0
        /\ sent[i] + extra[i] = framesOut[i] /\ framesOut[i] \in Nat
    BY DEF IInv, FrameAccount, TypeOK, InjectionType, Counters
  <2> QED
    BY <2>1
<1> QED
  BY <1>1, Invariance, PTL

(* No injection exceeds its share of the wire, for every ratio.               *)
THEOREM ShareCorrect == Spec => []ShareBounded
<1>1. IInv => ShareBounded
  <2> SUFFICES ASSUME IInv, NEW i \in Ids
               PROVE  framesOut[i] * Unit <= Unit + Gain[i] * fed[i]
    BY DEF ShareBounded
  <2>1. /\ framesOut[i] \in Nat /\ Unit \in Nat /\ credit[i] \in Nat
        /\ Gain[i] \in Nat /\ fed[i] \in Nat
    BY BoundsAssumption DEF IInv, TypeOK, InjectionType, HistoryType, Counters, Ids
  <2>2. framesOut[i] * Unit \in Nat /\ Gain[i] * fed[i] \in Nat
    BY <2>1, OneMore
  <2>3. framesOut[i] * Unit + credit[i] =
          (IF passes[i] = 0 THEN 0 ELSE Unit) + Gain[i] * fed[i]
    BY DEF IInv, CreditAccount
  <2> QED
    BY <2>1, <2>2, <2>3
<1> QED
  BY <1>1, Invariance, PTL

(* The next pass of an active injection is never lost.                        *)
THEOREM NextPassCorrect == Spec => []NextPassComing
<1>1. IInv => NextPassComing
  BY DEF IInv, WorkerInv, InQueue, InLoop, NextPassComing, TypeOK, ControlType
<1> QED
  BY <1>1, Invariance, PTL

(* No build outlives the engine thread.                                       *)
THEOREM CloseCorrect == Spec => []NoBuildOutlivesRun
<1>1. IInv => NoBuildOutlivesRun
  BY DEF IInv, WorkerInv, NoBuildOutlivesRun
<1> QED
  BY <1>1, Invariance, PTL

(* An injection that is over is never revived.                                *)
THEOREM OverCorrect == Spec => OverIsFinal
<1>1. IInv /\ [Next]_vars =>
        [\A i \in Ids : Over(i) =>
            state'[i] = state[i] /\ framesOut'[i] = framesOut[i]]_vars
  BY OverStep DEF IInv
<1> QED
  BY <1>1, Invariance, PTL DEF Spec, OverIsFinal
=============================================================================
