--------------------------- MODULE DispatcherProofs ---------------------------
(***************************************************************************)
(* Proofs about the dispatcher of examples/forum-topic-filter.rs, for     *)
(* every set of updates, topics and task slots: the type invariant, and   *)
(* that every message sent answers an incoming message of an allowed      *)
(* topic.  Neither invariant is inductive alone: a handler task that is   *)
(* awaiting send_message must be known to hold an update that passed the  *)
(* filter, which is what SendingAnswers adds.                             *)
(***************************************************************************)
EXTENDS Dispatcher, MessageSnapshotProofs

(* What handle_update answers is an incoming message of an allowed topic, *)
(* and the reply it sends names that topic and that chat.                *)
LEMMA AnsweredUpdate ==
  ASSUME NEW u \in UpdateInputs, HandleUpdateReplies(u)
  PROVE  /\ u.message \in Snapshots
         /\ ReplyTo(u.message) \in Replies
         /\ ~Outgoing(ReplyTo(u.message).to)
         /\ SpecTopicId(ReplyTo(u.message).to) \in AllowedTopics
         /\ ReplyTo(u.message).topic = SpecTopicId(ReplyTo(u.message).to)
         /\ ReplyTo(u.message).chat = ReplyTo(u.message).to.raw.peer_id
<1> DEFINE m == u.message
<1>1. m \in Snapshots
  BY DispatcherAssumption DEF HandleUpdateReplies, Updates
<1>2. TopicId(m) = SpecTopicId(m)
  BY <1>1, TopicIdMatchesSpec
<1>3. TopicId(m) \in AllowedTopics
  BY DEF HandleUpdateReplies, IsInTopics
<1>4. ReplyTo(m) \in Replies
  BY <1>1, <1>3, DispatcherAssumption
     DEF ReplyTo, Replies, Snapshots, RawMessages, Chat, AlwaysFindEntity,
         Text, Option
<1> QED
  BY <1>1, <1>2, <1>3, <1>4 DEF HandleUpdateReplies, ReplyTo, Chat, AlwaysFindEntity

-----------------------------------------------------------------------------
(* Dropping the runtime keeps every task's update and moves only running  *)
(* tasks, to "cancelled".                                                 *)
LEMMA DropRuntimeType ==
  ASSUME NEW t \in [Slots -> [st: TaskStates, upd: UpdateInputs \cup {NoneVal}]]
  PROVE  /\ DropRuntime(t) \in [Slots -> [st: TaskStates, upd: UpdateInputs \cup {NoneVal}]]
         /\ \A s \in Slots : /\ DropRuntime(t)[s].st # "sending"
                             /\ DropRuntime(t)[s].upd = t[s].upd
                             /\ DropRuntime(t)[s].st = "free" <=> t[s].st = "free"
BY DEF DropRuntime, TaskStates, Running

LEMMA InitIInv == Init => IInv
<1> SUFFICES ASSUME Init PROVE IInv
  OBVIOUS
<1>1. TypeOK
  BY DEF Init, TypeOK, MainStates, TaskStates
<1>2. HeldUpdates /\ SendingAnswers /\ RepliesOnlyToAllowedTopics
  BY DEF Init, HeldUpdates, SendingAnswers, RepliesOnlyToAllowedTopics
<1> QED
  BY <1>1, <1>2 DEF IInv

LEMMA NextIInv == IInv /\ [Next]_vars => IInv'
<1> SUFFICES ASSUME IInv, [Next]_vars PROVE IInv'
  OBVIOUS
<1> USE DEF IInv
<1>1. CASE Connect
  BY <1>1 DEF Connect, TypeOK, HeldUpdates, SendingAnswers, RepliesOnlyToAllowedTopics, MainStates
<1>2. CASE Authorize
  BY <1>2 DEF Authorize, TypeOK, HeldUpdates, SendingAnswers, RepliesOnlyToAllowedTopics, MainStates
<1>3. CASE SignIn
  BY <1>3 DEF SignIn, TypeOK, HeldUpdates, SendingAnswers, RepliesOnlyToAllowedTopics, MainStates
<1>4. CASE Interrupt
  BY <1>4 DEF Interrupt, TypeOK, HeldUpdates, SendingAnswers, RepliesOnlyToAllowedTopics, MainStates
<1>5. CASE UpdateArrives
  BY <1>5 DEF UpdateArrives, TypeOK, HeldUpdates, SendingAnswers, RepliesOnlyToAllowedTopics
<1>6. CASE SelectExit
  <2>1. TypeOK'
    BY <1>6, DropRuntimeType DEF SelectExit, TypeOK, MainStates
  <2>2. HeldUpdates' /\ SendingAnswers'
    BY <1>6, DropRuntimeType DEF SelectExit, TypeOK, HeldUpdates, SendingAnswers
  <2>3. RepliesOnlyToAllowedTopics'
    BY <1>6 DEF SelectExit, RepliesOnlyToAllowedTopics
  <2> QED
    BY <2>1, <2>2, <2>3
<1>7. CASE SelectUpdate
  BY <1>7 DEF SelectUpdate, FreeSlots, TypeOK, HeldUpdates, SendingAnswers,
              RepliesOnlyToAllowedTopics, TaskStates
<1>8. CASE SelectTransportError
  <2>1. TypeOK'
    BY <1>8, DropRuntimeType DEF SelectTransportError, TypeOK, MainStates
  <2>2. HeldUpdates' /\ SendingAnswers'
    BY <1>8, DropRuntimeType
       DEF SelectTransportError, TypeOK, HeldUpdates, SendingAnswers
  <2>3. RepliesOnlyToAllowedTopics'
    BY <1>8 DEF SelectTransportError, RepliesOnlyToAllowedTopics
  <2> QED
    BY <2>1, <2>2, <2>3
<1>9. ASSUME NEW s \in Slots, HandlerPoll(s)
      PROVE  IInv'
  <2>1. task[s].upd \in UpdateInputs
    BY <1>9 DEF HandlerPoll, HeldUpdates
  <2>2. TypeOK'
    BY <1>9 DEF HandlerPoll, TypeOK, TaskStates
  <2>3. HeldUpdates' /\ SendingAnswers'
    BY <1>9, <2>1 DEF HandlerPoll, TypeOK, HeldUpdates, SendingAnswers
  <2>4. RepliesOnlyToAllowedTopics'
    BY <1>9 DEF HandlerPoll, RepliesOnlyToAllowedTopics
  <2> QED
    BY <2>2, <2>3, <2>4
<1>10. ASSUME NEW s \in Slots, HandlerSendDone(s)
       PROVE  IInv'
  <2>1. task[s].upd \in UpdateInputs /\ HandleUpdateReplies(task[s].upd)
    BY <1>10 DEF HandlerSendDone, SendingAnswers
  <2>2. TypeOK'
    BY <1>10, <2>1, AnsweredUpdate DEF HandlerSendDone, TypeOK, TaskStates
  <2>3. HeldUpdates' /\ SendingAnswers'
    BY <1>10 DEF HandlerSendDone, TypeOK, HeldUpdates, SendingAnswers
  <2>4. RepliesOnlyToAllowedTopics'
    BY <1>10, <2>1, AnsweredUpdate DEF HandlerSendDone, RepliesOnlyToAllowedTopics
  <2> QED
    BY <2>2, <2>3, <2>4
<1>11. CASE UNCHANGED vars
  BY <1>11 DEF vars, TypeOK, HeldUpdates, SendingAnswers, RepliesOnlyToAllowedTopics
<1> QED
  BY <1>1, <1>2, <1>3, <1>4, <1>5, <1>6, <1>7, <1>8, <1>9, <1>10, <1>11 DEF Next

(* The type invariant holds in every reachable state. *)
THEOREM TypeCorrect == Spec => []TypeOK
<1>1. Init => IInv
  BY InitIInv
<1>2. IInv /\ [Next]_vars => IInv'
  BY NextIInv
<1>3. IInv => TypeOK
  BY DEF IInv
<1> QED
  BY <1>1, <1>2, <1>3, PTL DEF Spec

(* Every message the handlers send answers an incoming message of an     *)
(* allowed topic, naming that topic, in that chat: for every set of       *)
(* updates, allowed topics and task slots.                                *)
THEOREM RepliesAllowed == Spec => []RepliesOnlyToAllowedTopics
<1>1. Init => IInv
  BY InitIInv
<1>2. IInv /\ [Next]_vars => IInv'
  BY NextIInv
<1>3. IInv => RepliesOnlyToAllowedTopics
  BY DEF IInv
<1> QED
  BY <1>1, <1>2, <1>3, PTL DEF Spec
-----------------------------------------------------------------------------
(* Only SignIn's success and SelectExit's successful save change `saves`. *)
LEMMA SaveStepHolds == TypeOK /\ [Next]_vars => [SaveStep]_vars
<1> SUFFICES ASSUME TypeOK, [Next]_vars PROVE [SaveStep]_vars
  OBVIOUS
<1>1. CASE SignIn
  BY <1>1 DEF SignIn, SaveStep, TypeOK
<1>2. CASE SelectExit
  <2>1. CASE main' = "ok" /\ saves' = saves + 1
    <3>1. sigint
      BY <1>2 DEF SelectExit, Winner
    <3>2. \A s \in Slots : task'[s].st \notin Running
      BY <1>2 DEF SelectExit, DropRuntime, Running, TypeOK, TaskStates
    <3> QED
      BY <1>2, <2>1, <3>1, <3>2 DEF SelectExit, SaveStep
  <2>2. CASE main' = "error" /\ UNCHANGED saves
    BY <2>2 DEF SaveStep
  <2> QED
    BY <1>2, <2>1, <2>2 DEF SelectExit
<1>3. CASE \/ Connect \/ Authorize \/ Interrupt \/ UpdateArrives
           \/ SelectUpdate \/ SelectTransportError
           \/ \E s \in Slots : HandlerPoll(s) \/ HandlerSendDone(s)
  BY <1>3 DEF Connect, Authorize, Interrupt, UpdateArrives, SelectUpdate,
              SelectTransportError, HandlerPoll, HandlerSendDone, SaveStep
<1>4. CASE UNCHANGED vars
  BY <1>4 DEF vars
<1> QED
  BY <1>1, <1>2, <1>3, <1>4 DEF Next

(* The session file is written only after a sign-in and once at the       *)
(* Ctrl+C exit with no handler left running (lines 100 and 128), for      *)
(* every set of updates and slots.                                        *)
THEOREM SavesDisciplined == Spec => SaveDiscipline
<1>1. TypeOK /\ [Next]_vars => [SaveStep]_vars
  BY SaveStepHolds
<1> QED
  BY <1>1, TypeCorrect, PTL DEF Spec, SaveDiscipline
=============================================================================
