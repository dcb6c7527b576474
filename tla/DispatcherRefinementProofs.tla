--------------------- MODULE DispatcherRefinementProofs ---------------------
(***************************************************************************)
(* Proof that the dispatcher of examples/forum-topic-filter.rs implements  *)
(* the abstract dispatcher of the specification (DispatchLoop), under the *)
(* mapping Abs of module Dispatcher, for every set of updates, topics and  *)
(* task slots.                                                             *)
(*                                                                         *)
(* The mapping needs four facts about reachable states (RInv): Ctrl+C is   *)
(* recorded only once the loop listens for it, so the start-up phase maps  *)
(* to Starting; no task exists before the loop; no task is cancelled      *)
(* before the program exits, so the loop's end detaches exactly the       *)
(* tasks that were running; and none runs after it.                        *)
(***************************************************************************)
EXTENDS DispatcherProofs, FiniteSetTheorems

StartUp == {"connect", "authorize", "sign_in"}

RInv ==
  /\ IInv
  /\ sigint => main \notin StartUp
  /\ main \in StartUp => \A s \in Slots : task[s].st = "free"
  /\ main \notin Exited => CancelledSlots = {}
  /\ main \in Exited => RunningSlots = {}

-----------------------------------------------------------------------------
(* Counting handler tasks: every set of slots is finite. *)
LEMMA SlotCount ==
  ASSUME NEW T \in SUBSET Slots
  PROVE  IsFiniteSet(T) /\ Cardinality(T) \in Nat
BY DispatcherAssumption, FS_Subset, FS_CardinalityType

(* Spawning into a slot that holds no running task adds one. *)
LEMMA CountAdd ==
  ASSUME NEW T \in SUBSET Slots, NEW s \in Slots, s \notin T
  PROVE  Cardinality(T \cup {s}) = Cardinality(T) + 1
BY SlotCount, FS_AddElement

(* A running task that finishes removes one, from a positive count. *)
LEMMA CountRemove ==
  ASSUME NEW T \in SUBSET Slots, NEW s \in T
  PROVE  /\ Cardinality(T) > 0
         /\ Cardinality(T \ {s}) = Cardinality(T) - 1
<1>1. IsFiniteSet(T) /\ Cardinality(T) \in Nat
  BY SlotCount
<1>2. Cardinality(T) # 0
  BY <1>1, FS_EmptySet
<1>3. Cardinality(T \ {s}) = IF s \in T THEN Cardinality(T) - 1 ELSE Cardinality(T)
  BY <1>1, FS_RemoveElement
<1> QED
  BY <1>1, <1>2, <1>3

-----------------------------------------------------------------------------
LEMMA RInvInit == Init => RInv
BY InitIInv DEF Init, RInv, MainStates, TaskStates, StartUp, Exited,
       CancelledSlots, RunningSlots

LEMMA RInvNext == RInv /\ [Next]_vars => RInv'
<1> SUFFICES ASSUME RInv, [Next]_vars PROVE RInv'
  OBVIOUS
<1>1. IInv'
  BY NextIInv DEF RInv
<1>2. (sigint => main \notin StartUp)'
  BY DEF RInv, Next, vars, Connect, Authorize, SignIn, Interrupt, UpdateArrives,
         SelectExit, SelectUpdate, SelectTransportError, HandlerPoll,
         HandlerSendDone, StartUp, Winner
<1>3. (main \in StartUp => \A s \in Slots : task[s].st = "free")'
  BY DEF RInv, Next, vars, Connect, Authorize, SignIn, Interrupt, UpdateArrives,
         SelectExit, SelectUpdate, SelectTransportError, HandlerPoll,
         HandlerSendDone, StartUp
<1>4. (main \notin Exited => CancelledSlots = {})'
  BY DEF RInv, IInv, TypeOK, Next, vars, Connect, Authorize, SignIn, Interrupt,
         UpdateArrives, SelectExit, SelectUpdate, SelectTransportError,
         HandlerPoll, HandlerSendDone, Exited, CancelledSlots
<1>5. (main \in Exited => RunningSlots = {})'
  <2>1. CASE Connect \/ Authorize \/ SignIn
    <3>1. main \in StartUp /\ task' = task
      BY <2>1 DEF Connect, Authorize, SignIn, StartUp
    <3> QED
      BY <3>1 DEF RInv, RunningSlots, Running
  <2>5. CASE Interrupt
    <3>1. CASE main = "loop"
      BY <2>5, <3>1 DEF Interrupt, Exited
    <3>2. CASE main # "loop"
      <4>1. main \in StartUp /\ task' = task
        BY <2>5, <3>2 DEF Interrupt, RInv, IInv, TypeOK, MainStates, Exited, StartUp
      <4> QED
        BY <4>1 DEF RInv, RunningSlots, Running
    <3> QED
      BY <3>1, <3>2
  <2>2. CASE SelectExit \/ SelectTransportError
    BY <2>2 DEF RInv, IInv, TypeOK, SelectExit, SelectTransportError,
                RunningSlots, DropRuntime, Running
  <2>3. CASE UpdateArrives \/ SelectUpdate \/ UNCHANGED vars
    BY <2>3 DEF RInv, UpdateArrives, SelectUpdate, vars, Exited, RunningSlots
  <2>4. ASSUME NEW s \in Slots, HandlerPoll(s) \/ HandlerSendDone(s)
        PROVE  (main \in Exited => RunningSlots = {})'
    BY <2>4 DEF HandlerPoll, HandlerSendDone, Exited
  <2> QED
    BY <2>1, <2>2, <2>3, <2>4, <2>5 DEF Next
<1> QED
  BY <1>1, <1>2, <1>3, <1>4, <1>5 DEF RInv

-----------------------------------------------------------------------------
(* Every step of the example is a step of DispatchLoop or leaves the      *)
(* mapped state unchanged.                                                 *)
LEMMA StepRefines == RInv /\ [Next]_vars => [Abs!Next]_Abs!avars
<1> SUFFICES ASSUME RInv, [Next]_vars PROVE [Abs!Next]_Abs!avars
  OBVIOUS
<1> DEFINE R == RunningSlots
           C == CancelledSlots
<1>0. TypeOK /\ R \in SUBSET Slots /\ C \in SUBSET Slots
  BY DEF RInv, IInv, RunningSlots, CancelledSlots
<1>1. CASE Connect \/ Authorize \/ SignIn
  <2>1. main \in StartUp /\ ~sigint /\ task' = task /\ sigint' = sigint
    BY <1>1 DEF RInv, Connect, Authorize, SignIn, StartUp
  <2>2. R' = R /\ C' = C
    BY <2>1 DEF RunningSlots, CancelledSlots
  <2>3. CASE main' \in StartUp
    BY <2>1, <2>2, <2>3 DEF Abs!avars, Phase, StartUp
  <2>4. CASE main' \notin StartUp
    <3>1. main' \in {"loop", "error"}
      BY <1>1, <2>4 DEF Connect, Authorize, SignIn, StartUp
    <3> QED
      BY <2>1, <2>2, <3>1 DEF Abs!Next, Abs!Start, Phase, StartUp
  <2> QED
    BY <2>3, <2>4
<1>2. CASE Interrupt
  <2>1. task' = task
    BY <1>2 DEF Interrupt
  <2>2. R' = R /\ C' = C
    BY <2>1 DEF RunningSlots, CancelledSlots
  <2>3. CASE main = "loop"
    BY <1>2, <2>2, <2>3 DEF Interrupt, Abs!Next, Abs!Signal, Phase
  <2>4. CASE main # "loop"
    <3>1. main \in StartUp /\ main' = "killed"
      BY <1>2, <2>4, <1>0 DEF Interrupt, TypeOK, MainStates, Exited, StartUp
    <3> QED
      BY <2>2, <3>1 DEF Abs!Next, Abs!Start, Phase, StartUp
  <2> QED
    BY <2>3, <2>4
<1>3. CASE UpdateArrives \/ UNCHANGED vars
  <2>1. main' = main /\ sigint' = sigint /\ task' = task
    BY <1>3 DEF UpdateArrives, vars
  <2>2. R' = R /\ C' = C
    BY <2>1 DEF RunningSlots, CancelledSlots
  <2> QED
    BY <2>1, <2>2 DEF Abs!avars, Phase
<1>4. CASE SelectExit \/ SelectTransportError
  <2>1. main = "loop" /\ sigint' = sigint /\ task' = DropRuntime(task)
    BY <1>4 DEF SelectExit, SelectTransportError
  <2>2. C = {}
    BY <2>1 DEF RInv, Exited
  <2>3. R' = {} /\ C' = R
    BY <2>1, <2>2, <1>0 DEF TypeOK, RunningSlots, CancelledSlots, DropRuntime,
                            Running, TaskStates
  <2>4. Cardinality(R') = 0 /\ Cardinality(C') = Cardinality(R)
    BY <2>3, FS_EmptySet
  <2>5. CASE SelectExit
    <3>1. sigint /\ main' \in {"ok", "error"}
      BY <2>5 DEF SelectExit, Winner
    <3> QED
      BY <2>1, <2>4, <3>1 DEF Abs!Next, Abs!Persist, Phase
  <2>6. CASE SelectTransportError
    <3>1. ~sigint /\ main' = "error"
      BY <2>6 DEF SelectTransportError, Winner
    <3> QED
      BY <2>1, <2>4, <3>1 DEF Abs!Next, Abs!TransportFailure, Phase
  <2> QED
    BY <1>4, <2>5, <2>6
<1>5. CASE SelectUpdate
  <2>1. PICK s \in FreeSlots, u \in UpdateInputs :
                task' = [task EXCEPT ![s] = [st |-> "spawned", upd |-> u]]
    BY <1>5 DEF SelectUpdate
  <2>2. main = "loop" /\ ~sigint /\ main' = main /\ sigint' = sigint
    BY <1>5 DEF SelectUpdate, Winner
  <2>3. s \in Slots /\ s \notin R /\ R' = R \cup {s} /\ C' = C
    BY <2>1, <1>0 DEF FreeSlots, TypeOK, RunningSlots, CancelledSlots, Running
  <2>4. Cardinality(R') = Cardinality(R) + 1
    BY <2>3, <1>0, CountAdd
  <2> QED
    BY <2>2, <2>3, <2>4 DEF Abs!Next, Abs!Dispatch, Phase
<1>6. ASSUME NEW s \in Slots, HandlerPoll(s) \/ HandlerSendDone(s)
      PROVE  [Abs!Next]_Abs!avars
  <2>1. main = "loop" /\ main' = main /\ sigint' = sigint
    BY <1>6 DEF HandlerPoll, HandlerSendDone
  <2>2. C' = C
    BY <1>6, <1>0 DEF HandlerPoll, HandlerSendDone, TypeOK, CancelledSlots
  <2>3. CASE task'[s].st \in Running
    <3>1. R' = R
      BY <1>6, <2>3, <1>0 DEF HandlerPoll, HandlerSendDone, TypeOK,
                              RunningSlots, Running
    <3> QED
      BY <2>1, <2>2, <3>1 DEF Abs!avars, Phase
  <2>4. CASE task'[s].st \notin Running
    <3>1. s \in R /\ R' = R \ {s}
      BY <1>6, <2>4, <1>0 DEF HandlerPoll, HandlerSendDone, TypeOK,
                              RunningSlots, Running
    <3>2. Cardinality(R) > 0 /\ Cardinality(R') = Cardinality(R) - 1
      BY <3>1, <1>0, CountRemove
    <3> QED
      BY <2>1, <2>2, <3>2 DEF Abs!Next, Abs!Complete, Phase
  <2> QED
    BY <2>3, <2>4
<1> QED
  BY <1>1, <1>2, <1>3, <1>4, <1>5, <1>6 DEF Next

(* The example implements the abstract dispatcher of the specification:  *)
(* no update is handed off once Ctrl+C is pending, the session is saved  *)
(* only on the way from Draining to Stopped, and neither exit waits for   *)
(* the handler tasks still running, for every set of updates, topics and  *)
(* task slots.                                                            *)
THEOREM Refinement == Spec => ImplementsDispatchLoop
<1>1. Spec => []RInv
  BY RInvInit, RInvNext, PTL DEF Spec
<1>2. Init => Abs!Init
  <2> SUFFICES ASSUME Init PROVE Abs!Init
    OBVIOUS
  <2>1. RunningSlots = {} /\ CancelledSlots = {}
    BY DEF Init, RunningSlots, CancelledSlots, Running
  <2> QED
    BY <2>1, FS_EmptySet DEF Init, Abs!Init, Phase
<1> QED
  BY <1>1, <1>2, StepRefines, PTL DEF Spec, ImplementsDispatchLoop, Abs!Spec
=============================================================================
