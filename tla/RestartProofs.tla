----------------------------- MODULE RestartProofs -----------------------------
(***************************************************************************)
(* Across restarts that all end by Ctrl+C and the save, the bot answers no *)
(* update twice, for every update stream, number of task slots and number  *)
(* of starts.  The invariant is not inductive alone: it needs ReplayInv,   *)
(* which says that every update handed out lies at or before `pos`, that   *)
(* running tasks hold distinct unanswered updates, and that a clean exit   *)
(* leaves the file's update state at or past `pos`.                       *)
(***************************************************************************)
EXTENDS Restart, TLAPS

(* The updates of the stream are distinct, so IndexOf inverts Stream. *)
LEMMA IndexOfStream ==
  ASSUME NEW i \in Indices
  PROVE  IndexOf(Stream[i]) = i
BY RestartAssumption DEF IndexOf, Indices

LEMMA IndexOfRange ==
  ASSUME NEW u \in Range(Stream)
  PROVE  /\ IndexOf(u) \in Indices
         /\ Stream[IndexOf(u)] = u
<1>1. DOMAIN Stream = Indices
  BY RestartAssumption DEF Indices
<1>2. \E i \in Indices : Stream[i] = u
  BY <1>1 DEF Range
<1> QED
  BY <1>2 DEF IndexOf

(* Two updates of the stream with the same index are the same update. *)
LEMMA IndexOfInjective ==
  ASSUME NEW u \in Range(Stream), NEW v \in Range(Stream),
         IndexOf(u) = IndexOf(v)
  PROVE  u = v
BY IndexOfRange

(* Dropping the runtime keeps every update and leaves no task running. *)
LEMMA DropRuntimeFacts ==
  ASSUME NEW t \in [Slots -> [st: D!TaskStates, upd: Range(Stream) \cup {NoneVal}]]
  PROVE  /\ D!DropRuntime(t) \in
              [Slots -> [st: D!TaskStates, upd: Range(Stream) \cup {NoneVal}]]
         /\ \A s \in Slots : /\ D!DropRuntime(t)[s].st \notin D!Running
                             /\ D!DropRuntime(t)[s].upd = t[s].upd
                             /\ D!DropRuntime(t)[s].st = "free" <=> t[s].st = "free"
BY DEF D!DropRuntime, D!TaskStates, D!Running

LEMMA StreamLength == Len(Stream) \in Nat
BY RestartAssumption

LEMMA InitReplay == Init => ReplayInv
<1> SUFFICES ASSUME Init PROVE ReplayInv
  OBVIOUS
<1>1. task \in [Slots -> [st: D!TaskStates, upd: Range(Stream) \cup {NoneVal}]]
  BY DEF Init, D!TaskStates
<1>2. answered \in [Indices -> Nat]
  BY DEF Init
<1>3. ReplayTypeOK
  <2>1. main \in D!MainStates
    BY DEF Init, D!MainStates
  <2>2. produced \in 0..Len(Stream) /\ recv \in 0..produced /\ pos \in 0..recv
    BY StreamLength DEF Init
  <2>3. saved \in {NoneVal} \cup 0..produced
    BY DEF Init
  <2> QED
    BY <1>1, <1>2, <2>1, <2>2, <2>3 DEF Init, ReplayTypeOK
<1>4. \A s \in Slots : task[s].st = "free"
  BY DEF Init
<1>5. \A i \in Indices : answered[i] = 0
  BY DEF Init
<1> QED
  BY <1>3, <1>4, <1>5 DEF Init, ReplayInv, D!Running

-----------------------------------------------------------------------------
(* Steps that touch neither the tasks, nor `pos`, nor the answers, nor    *)
(* the session file, and leave the bot short of a clean exit.             *)
LEMMA QuietStep ==
  ASSUME ReplayInv,
         main' \in D!MainStates \ {"ok"},
         produced' \in 0..Len(Stream), recv' \in 0..produced',
         produced <= produced', recv <= recv',
         UNCHANGED <<task, pos, saved, answered, ungraceful>>
  PROVE  ReplayInv'
<1>1. ReplayTypeOK'
  BY StreamLength DEF ReplayInv, ReplayTypeOK
<1> QED
  BY <1>1 DEF ReplayInv

LEMMA ProduceStep == ReplayInv /\ Produce => ReplayInv'
<1> SUFFICES ASSUME ReplayInv, Produce PROVE ReplayInv'
  OBVIOUS
<1>1. ReplayTypeOK'
  BY StreamLength DEF ReplayInv, ReplayTypeOK, Produce
<1> QED
  BY <1>1 DEF ReplayInv, Produce

LEMMA ReceiveStep == ReplayInv /\ Receive => ReplayInv'
<1> SUFFICES ASSUME ReplayInv, Receive PROVE ReplayInv'
  OBVIOUS
<1>1. main # "ok"
  BY DEF Receive
<1> QED
  BY <1>1, QuietStep, StreamLength DEF ReplayInv, ReplayTypeOK, Receive, D!MainStates

LEMMA StartUpStep ==
  ReplayInv /\ (RConnect \/ RAuthorize \/ RSignIn \/ RInterrupt) => ReplayInv'
<1> SUFFICES ASSUME ReplayInv, RConnect \/ RAuthorize \/ RSignIn \/ RInterrupt
             PROVE  ReplayInv'
  OBVIOUS
<1>1. CASE RConnect \/ RAuthorize \/ RInterrupt
  <2>1. main' \in D!MainStates \ {"ok"}
    BY <1>1 DEF ReplayInv, ReplayTypeOK, RConnect, RAuthorize, RInterrupt,
                D!Connect, D!Authorize, D!Interrupt, D!MainStates, D!Exited
  <2> QED
    BY <1>1, <2>1, QuietStep DEF ReplayInv, ReplayTypeOK, RConnect, RAuthorize,
       RInterrupt, D!Connect, D!Authorize, D!Interrupt, RestartVars
<1>2. CASE RSignIn
  <2>1. main' \in {"loop", "error"} /\ UNCHANGED task
    BY <1>2 DEF RSignIn, D!SignIn
  <2>2. saved' \in {NoneVal} \cup 0..produced'
    BY <1>2 DEF RSignIn, ReplayInv, ReplayTypeOK
  <2>3. ReplayTypeOK'
    BY <1>2, <2>1, <2>2 DEF RSignIn, ReplayInv, ReplayTypeOK, D!MainStates
  <2> QED
    BY <1>2, <2>1, <2>3 DEF RSignIn, ReplayInv
<1> QED
  BY <1>1, <1>2

(* The tasks after the runtime is dropped: none running, each holding   *)
(* the update it held and free exactly when it was.                        *)
DropTasks(t) ==
  \A s \in Slots : /\ t[s].st \notin D!Running
                   /\ t[s].upd = task[s].upd
                   /\ t[s].st = "free" <=> task[s].st = "free"

(* An exit that drops the runtime and, unless it is the clean one, leaves *)
(* the file alone keeps the invariant.                                     *)
LEMMA DroppedInv ==
  ASSUME ReplayInv, ReplayTypeOK', DropTasks(task'),
         UNCHANGED <<pos, answered, ungraceful>>,
         main' = "ok" => saved' # NoneVal /\ pos' <= saved'
  PROVE  ReplayInv'
<1>1. \A s \in Slots : task'[s].st # "free" => task'[s].upd \in Range(Stream)
  BY DEF DropTasks, ReplayInv
<1>2. ~ungraceful' =>
        \A s \in Slots : task'[s].st # "free" => IndexOf(task'[s].upd) <= pos'
  BY DEF DropTasks, ReplayInv
<1>3. \A s \in Slots : task'[s].st \notin D!Running
  BY DEF DropTasks
<1> QED
  BY <1>1, <1>2, <1>3 DEF ReplayInv

(* A restart resumes from the file; after a clean exit the file's state  *)
(* is at or past every update handed out, so the new `pos` is too.        *)
LEMMA RestartStep == ReplayInv /\ Restart => ReplayInv'
<1> SUFFICES ASSUME ReplayInv, Restart PROVE ReplayInv'
  OBVIOUS
<1>1. recv' \in 0..produced' /\ pos' = recv'
  BY DEF Restart, ReplayInv, ReplayTypeOK
<1>2. task' \in [Slots -> [st: D!TaskStates, upd: Range(Stream) \cup {NoneVal}]]
      /\ \A s \in Slots : task'[s].st = "free"
  BY DEF Restart, D!TaskStates
<1>3. ReplayTypeOK'
  BY <1>1, <1>2 DEF Restart, ReplayInv, ReplayTypeOK, D!MainStates
<1>4. ~ungraceful' => ~ungraceful /\ main = "ok"
  BY DEF Restart, ReplayInv, ReplayTypeOK
<1>5. ~ungraceful' => pos <= pos'
  BY <1>4 DEF Restart, ReplayInv, ReplayTypeOK
<1>6. main' # "ok"
  BY DEF Restart
<1>7. \A s \in Slots : task'[s].st \notin D!Running
  BY <1>2 DEF D!Running
<1>8. ~ungraceful' => \A i \in Indices : answered'[i] > 0 => i <= pos'
  <2> SUFFICES ASSUME ~ungraceful', NEW i \in Indices, answered'[i] > 0
               PROVE  i <= pos'
    OBVIOUS
  <2>1. answered' = answered
    BY DEF Restart
  <2>2. i <= pos /\ pos \in Nat /\ pos' \in Nat
    BY <1>1, <1>4, <2>1 DEF ReplayInv, ReplayTypeOK
  <2> QED
    BY <1>5, <2>2 DEF Indices
<1>9. ~ungraceful' => \A i \in Indices : answered'[i] <= 1
  BY <1>4 DEF Restart, ReplayInv
<1> QED
  BY <1>2, <1>3, <1>6, <1>7, <1>8, <1>9 DEF ReplayInv

(* Dropping the runtime cancels the running tasks; on Ctrl+C the file    *)
(* gets the client's update state, which is at or past `pos`.             *)
LEMMA SelectExitStep == ReplayInv /\ RSelectExit => ReplayInv'
<1> SUFFICES ASSUME ReplayInv, RSelectExit PROVE ReplayInv'
  OBVIOUS
<1>1. main' \in {"ok", "error"} /\ task' = D!DropRuntime(task)
  BY DEF RSelectExit, D!SelectExit
<1>2. saved' \in {NoneVal} \cup 0..produced'
      /\ (main' = "ok" => saved' # NoneVal /\ pos' <= saved')
  BY <1>1, RestartAssumption DEF RSelectExit, ReplayInv, ReplayTypeOK
<1>3. task' \in [Slots -> [st: D!TaskStates, upd: Range(Stream) \cup {NoneVal}]]
      /\ DropTasks(task')
  <2>1. task \in [Slots -> [st: D!TaskStates, upd: Range(Stream) \cup {NoneVal}]]
    BY DEF ReplayInv, ReplayTypeOK
  <2> QED
    BY <1>1, <2>1, DropRuntimeFacts DEF DropTasks
<1>4. ReplayTypeOK'
  BY <1>1, <1>2, <1>3 DEF RSelectExit, ReplayInv, ReplayTypeOK, D!MainStates
<1>5. UNCHANGED <<pos, answered, ungraceful>>
  BY DEF RSelectExit
<1> QED
  BY <1>2, <1>3, <1>4, <1>5, DroppedInv

(* next_update fails: the runtime is dropped and nothing is saved. *)
LEMMA TransportErrorStep == ReplayInv /\ RSelectTransportError => ReplayInv'
<1> SUFFICES ASSUME ReplayInv, RSelectTransportError PROVE ReplayInv'
  OBVIOUS
<1>1. main' = "error" /\ task' = D!DropRuntime(task)
      /\ UNCHANGED <<produced, recv, pos, saved, answered, ungraceful>>
  BY DEF RSelectTransportError, RestartVars
<1>2. task' \in [Slots -> [st: D!TaskStates, upd: Range(Stream) \cup {NoneVal}]]
      /\ DropTasks(task')
  <2>1. task \in [Slots -> [st: D!TaskStates, upd: Range(Stream) \cup {NoneVal}]]
    BY DEF ReplayInv, ReplayTypeOK
  <2> QED
    BY <1>1, <2>1, DropRuntimeFacts DEF DropTasks
<1>3. ReplayTypeOK'
  BY <1>1, <1>2 DEF ReplayInv, ReplayTypeOK, D!MainStates
<1> QED
  BY <1>1, <1>2, <1>3, DroppedInv

(* next_update hands out update pos + 1, which no task holds and no reply *)
(* answered: every earlier one lies at or before `pos`.                     *)
LEMMA SelectUpdateStep == ReplayInv /\ RSelectUpdate => ReplayInv'
<1> SUFFICES ASSUME ReplayInv, RSelectUpdate PROVE ReplayInv'
  OBVIOUS
<1>0. task \in [Slots -> [st: D!TaskStates, upd: Range(Stream) \cup {NoneVal}]]
  BY DEF ReplayInv, ReplayTypeOK
<1>1. PICK s0 \in D!FreeSlots, u \in Range(Stream) :
        task' = [task EXCEPT ![s0] = [st |-> "spawned", upd |-> u]]
  BY DEF RSelectUpdate, D!SelectUpdate
<1>2. s0 \in Slots /\ task[s0].st \notin D!Running
  BY DEF D!FreeSlots, D!Running
<1>3. /\ task'[s0] = [st |-> "spawned", upd |-> u]
      /\ \A s \in Slots \ {s0} : task'[s] = task[s]
  BY <1>0, <1>1, <1>2
<1>4. main = "loop" /\ pos < recv /\ pos' = pos + 1
  BY DEF RSelectUpdate, D!SelectUpdate, D!Winner
<1>5. pos + 1 \in Indices /\ pos \in Nat
  BY <1>4, StreamLength DEF ReplayInv, ReplayTypeOK, Indices
<1>6. u = Stream[pos + 1]
  BY <1>3 DEF RSelectUpdate
<1>7. IndexOf(u) = pos + 1
  BY <1>5, <1>6, IndexOfStream
<1>8. UNCHANGED <<main, produced, recv, saved, answered, ungraceful>>
  BY DEF RSelectUpdate, D!SelectUpdate
<1>9. ReplayTypeOK'
  <2>1. task' \in [Slots -> [st: D!TaskStates, upd: Range(Stream) \cup {NoneVal}]]
    BY <1>0, <1>1 DEF D!TaskStates
  <2> QED
    BY <1>4, <1>8, <2>1 DEF ReplayInv, ReplayTypeOK
<1>10. \A s \in Slots : task'[s].st # "free" => task'[s].upd \in Range(Stream)
  BY <1>3 DEF ReplayInv
<1> USE <1>8
<1>11. ~ungraceful' =>
         \A s \in Slots : task'[s].st # "free" => IndexOf(task'[s].upd) <= pos'
  <2> SUFFICES ASSUME ~ungraceful', NEW s \in Slots, task'[s].st # "free"
               PROVE  IndexOf(task'[s].upd) <= pos'
    OBVIOUS
  <2>1. CASE s = s0
    BY <1>3, <1>4, <1>7, <2>1
  <2>2. CASE s # s0
    <3>1. task[s].upd \in Range(Stream) /\ IndexOf(task[s].upd) <= pos
      BY <1>3, <2>2 DEF ReplayInv
    <3>2. IndexOf(task[s].upd) \in Indices
      BY <3>1, IndexOfRange
    <3> QED
      BY <1>3, <1>4, <1>5, <2>2, <3>1, <3>2 DEF Indices
  <2> QED
    BY <2>1, <2>2
<1>12. ~ungraceful' => \A i \in Indices : answered'[i] > 0 => i <= pos'
  BY <1>4, <1>5 DEF ReplayInv, ReplayTypeOK, Indices
<1>13. ~ungraceful' =>
         \A s \in Slots : task'[s].st \in D!Running => answered'[IndexOf(task'[s].upd)] = 0
  <2> SUFFICES ASSUME ~ungraceful', NEW s \in Slots, task'[s].st \in D!Running
               PROVE  answered'[IndexOf(task'[s].upd)] = 0
    OBVIOUS
  <2>1. CASE s = s0
    <3>1. answered[pos + 1] \in Nat /\ ~(answered[pos + 1] > 0)
      BY <1>5 DEF ReplayInv, ReplayTypeOK
    <3> QED
      BY <1>3, <1>7, <2>1, <3>1
  <2>2. CASE s # s0
    BY <1>3, <2>2 DEF ReplayInv
  <2> QED
    BY <2>1, <2>2
<1>14. ~ungraceful' =>
         \A s, t \in Slots :
           (s # t /\ task'[s].st \in D!Running /\ task'[t].st \in D!Running)
             => task'[s].upd # task'[t].upd
  <2> SUFFICES ASSUME ~ungraceful', NEW s \in Slots, NEW t \in Slots, s # t,
                      task'[s].st \in D!Running, task'[t].st \in D!Running
               PROVE  task'[s].upd # task'[t].upd
    OBVIOUS
  <2>1. ASSUME NEW a \in Slots \ {s0}, task[a].st \in D!Running
        PROVE  task[a].upd # u
    <3>1. task[a].upd \in Range(Stream) /\ IndexOf(task[a].upd) <= pos
      BY <2>1 DEF ReplayInv, D!Running
    <3> QED
      BY <1>5, <1>7, <3>1
  <2>2. CASE s = s0
    BY <1>3, <2>1, <2>2
  <2>3. CASE t = s0
    BY <1>3, <2>1, <2>3
  <2>4. CASE s # s0 /\ t # s0
    BY <1>3, <2>4 DEF ReplayInv
  <2> QED
    BY <2>2, <2>3, <2>4
<1> QED
  BY <1>4, <1>9, <1>10, <1>11, <1>12, <1>13, <1>14 DEF ReplayInv

(* A step that only moves tasks on, never into running and never back to *)
(* free, with `pos`, the answers and the exit untouched, keeps the        *)
(* invariant.                                                              *)
LEMMA TaskOnlyStep ==
  ASSUME ReplayInv, ReplayTypeOK',
         UNCHANGED <<pos, answered, ungraceful>>, main' # "ok",
         \A x \in Slots : /\ task'[x].upd = task[x].upd
                          /\ task'[x].st \in D!Running => task[x].st \in D!Running
                          /\ task'[x].st # "free" => task[x].st # "free"
  PROVE  ReplayInv'
<1>1. \A x \in Slots : task'[x].st \in D!Running => task'[x].st # "free"
  BY DEF D!Running
<1> QED
  BY <1>1 DEF ReplayInv

(* A handler's first poll takes it to the send or to its end. *)
LEMMA HandlerPollStep ==
  ASSUME NEW s \in Slots, ReplayInv, RHandlerPoll(s)
  PROVE  ReplayInv'
<1>0. task \in [Slots -> [st: D!TaskStates, upd: Range(Stream) \cup {NoneVal}]]
  BY DEF ReplayInv, ReplayTypeOK
<1>1. /\ task[s].st = "spawned" /\ main = "loop"
      /\ task' = [task EXCEPT ![s].st = IF D!HandleUpdateReplies(task[s].upd)
                                        THEN "sending" ELSE "done"]
      /\ UNCHANGED <<main, produced, recv, pos, saved, answered, ungraceful>>
  BY DEF RHandlerPoll, D!HandlerPoll
<1>2. task' \in [Slots -> [st: D!TaskStates, upd: Range(Stream) \cup {NoneVal}]]
  BY <1>0, <1>1 DEF D!TaskStates
<1>3. ReplayTypeOK'
  BY <1>1, <1>2 DEF ReplayInv, ReplayTypeOK
<1>4. \A x \in Slots : /\ task'[x].upd = task[x].upd
                       /\ task'[x].st \in D!Running => task[x].st \in D!Running
                       /\ task'[x].st # "free" => task[x].st # "free"
  BY <1>0, <1>1 DEF D!Running
<1> QED
  BY <1>1, <1>3, <1>4, TaskOnlyStep

(* send_message completes.  On Ok the update gets its first reply: its    *)
(* task was running, so no reply had been sent for it, and no other       *)
(* running task holds it.                                                  *)
LEMMA HandlerSendDoneStep ==
  ASSUME NEW s \in Slots, ReplayInv, RHandlerSendDone(s)
  PROVE  ReplayInv'
<1>0. task \in [Slots -> [st: D!TaskStates, upd: Range(Stream) \cup {NoneVal}]]
  BY DEF ReplayInv, ReplayTypeOK
<1>1. /\ task[s].st = "sending" /\ main = "loop"
      /\ UNCHANGED <<main, produced, recv, pos, saved, ungraceful>>
  BY DEF RHandlerSendDone, D!HandlerSendDone
<1>2. CASE task' = [task EXCEPT ![s].st = "failed"]
  <2>0. task'[s].st = "failed"
    BY <1>0, <1>2
  <2>1. answered' = answered
    BY <2>0 DEF RHandlerSendDone
  <2>2. ReplayTypeOK'
    BY <1>0, <1>1, <1>2, <2>1 DEF ReplayInv, ReplayTypeOK, D!TaskStates
  <2> QED
    BY <1>0, <1>1, <1>2, <2>1, <2>2, TaskOnlyStep DEF D!Running
<1>3. CASE task' = [task EXCEPT ![s].st = "done"]
  <2> DEFINE k == IndexOf(task[s].upd)
  <2>1. task[s].upd \in Range(Stream) /\ k \in Indices
    BY <1>0, <1>1, IndexOfRange DEF ReplayInv
  <2>0. task'[s].st = "done"
    BY <1>0, <1>3
  <2>2. answered' = [answered EXCEPT ![k] = @ + 1]
    BY <2>0 DEF RHandlerSendDone
  <2>3. ReplayTypeOK'
    BY <1>0, <1>1, <1>3, <2>1, <2>2 DEF ReplayInv, ReplayTypeOK, D!TaskStates
  <2>4. \A x \in Slots : /\ task'[x].upd = task[x].upd
                         /\ task'[x].st \in D!Running => x # s /\ task[x].st \in D!Running
                         /\ task'[x].st # "free" <=> task[x].st # "free"
    BY <1>0, <1>1, <1>3 DEF D!Running
  <2>5. \A x \in Slots : task'[x].st # "free" => task'[x].upd \in Range(Stream)
    BY <2>4 DEF ReplayInv
  <2> SUFFICES ASSUME ~ungraceful' PROVE ReplayInv'
    BY <2>3, <2>5, <1>1 DEF ReplayInv
  <2>6. /\ answered[k] = 0 /\ k <= pos
        /\ \A i \in Indices : answered[i] \in Nat
    BY <1>1, <2>1 DEF ReplayInv, ReplayTypeOK, D!Running
  <2>7. \A i \in Indices : answered'[i] > 0 => i <= pos'
    BY <1>1, <2>2, <2>6 DEF ReplayInv
  <2>8. \A i \in Indices : answered'[i] <= 1
    BY <1>1, <2>2, <2>6 DEF ReplayInv
  <2>9. \A x \in Slots : task'[x].st \in D!Running => answered'[IndexOf(task'[x].upd)] = 0
    <3> SUFFICES ASSUME NEW x \in Slots, task'[x].st \in D!Running
                 PROVE  answered'[IndexOf(task'[x].upd)] = 0
      OBVIOUS
    <3>1. x # s /\ task[x].st \in D!Running /\ task'[x].upd = task[x].upd
      BY <2>4
    <3>2. task[x].upd # task[s].upd /\ task[x].upd \in Range(Stream)
      BY <1>1, <3>1 DEF ReplayInv, D!Running
    <3>3. IndexOf(task[x].upd) # k /\ IndexOf(task[x].upd) \in Indices
      BY <2>1, <3>2, IndexOfRange
    <3> QED
      BY <1>1, <2>2, <3>1, <3>3 DEF ReplayInv
  <2>10. \A x, y \in Slots :
           (x # y /\ task'[x].st \in D!Running /\ task'[y].st \in D!Running)
             => task'[x].upd # task'[y].upd
    BY <1>1, <2>4 DEF ReplayInv
  <2>11. \A x \in Slots : task'[x].st # "free" => IndexOf(task'[x].upd) <= pos'
    BY <1>1, <2>4 DEF ReplayInv
  <2> QED
    BY <1>1, <2>3, <2>5, <2>7, <2>8, <2>9, <2>10, <2>11 DEF ReplayInv
<1> QED
  BY <1>2, <1>3 DEF RHandlerSendDone, D!HandlerSendDone

-----------------------------------------------------------------------------
LEMMA NextReplay == ReplayInv /\ [Next]_vars => ReplayInv'
<1> SUFFICES ASSUME ReplayInv, [Next]_vars PROVE ReplayInv'
  OBVIOUS
<1>1. CASE Produce
  BY <1>1, ProduceStep
<1>2. CASE Receive
  BY <1>2, ReceiveStep
<1>3. CASE Restart
  BY <1>3, RestartStep
<1>4. CASE RConnect \/ RAuthorize \/ RSignIn \/ RInterrupt
  BY <1>4, StartUpStep
<1>5. CASE RSelectExit
  BY <1>5, SelectExitStep
<1>6. CASE RSelectUpdate
  BY <1>6, SelectUpdateStep
<1>7. CASE RSelectTransportError
  BY <1>7, TransportErrorStep
<1>8. ASSUME NEW s \in Slots, RHandlerPoll(s) \/ RHandlerSendDone(s)
      PROVE  ReplayInv'
  BY <1>8, HandlerPollStep, HandlerSendDoneStep
<1>9. CASE UNCHANGED vars
  BY <1>9 DEF ReplayInv, ReplayTypeOK, vars
<1> QED
  BY <1>1, <1>2, <1>3, <1>4, <1>5, <1>6, <1>7, <1>8, <1>9 DEF Next

(* Across any number of restarts, all ended by Ctrl+C with the session   *)
(* saved (save_to_file at line 128 of the example), catch_up never hands  *)
(* a handler an update already answered: no update gets two replies.      *)
THEOREM NoReplay == Spec => []NoDuplicateRepliesAfterCleanExits
<1>1. Init => ReplayInv
  BY InitReplay
<1>2. ReplayInv /\ [Next]_vars => ReplayInv'
  BY NextReplay
<1>3. ReplayInv => NoDuplicateRepliesAfterCleanExits
  BY DEF ReplayInv, NoDuplicateRepliesAfterCleanExits
<1> QED
  BY <1>1, <1>2, <1>3, PTL DEF Spec

-----------------------------------------------------------------------------
(* The type invariant, through TypeInv.                                    *)

(* Every update of the stream is an Update. *)
LEMMA StreamUpdates == Range(Stream) \subseteq D!Updates
BY RestartAssumption DEF Range

(* The reply handle_update sends for an update it accepts is a message   *)
(* of the Replies type.                                                    *)
LEMMA AnsweredReply ==
  ASSUME NEW u \in Range(Stream), D!HandleUpdateReplies(u)
  PROVE  D!ReplyTo(u.message) \in D!Replies
<1>1. u.message \in D!Snapshots
  <2>1. u \in D!Updates /\ u.kind = "NewMessage"
    BY StreamUpdates DEF D!HandleUpdateReplies
  <2> QED
    BY <2>1 DEF D!Updates
<1>2. D!TopicId(u.message) \in MsgIds
  BY RestartAssumption DEF D!HandleUpdateReplies, D!IsInTopics
<1>3. /\ D!Chat(u.message).peer \in D!Peers
      /\ D!Text(u.message) \in TextVals
  BY <1>1 DEF D!Snapshots, D!RawMessages, D!Chat, D!AlwaysFindEntity, D!Text
<1> QED
  BY <1>1, <1>2, <1>3 DEF D!ReplyTo, D!Replies, D!Option

LEMMA InitTypeInv == Init => TypeInv
<1> SUFFICES ASSUME Init PROVE TypeInv
  OBVIOUS
<1>1. task \in [Slots -> [st: D!TaskStates, upd: Range(Stream) \cup {NoneVal}]]
      /\ \A s \in Slots : task[s].st = "free"
  BY DEF Init, D!TaskStates
<1>2. answered \in [Indices -> Nat] /\ outbox \subseteq D!Replies
  BY DEF Init
<1>3. runs \in 1..MaxRuns /\ saves \in Nat /\ main \in D!MainStates
  BY RestartAssumption DEF Init, D!MainStates
<1>4. produced \in 0..Len(Stream) /\ recv \in 0..produced /\ pos \in 0..recv
      /\ saved \in {NoneVal} \cup 0..Len(Stream)
      /\ (saved # NoneVal => saved <= produced)
  BY StreamLength DEF Init
<1> QED
  BY <1>1, <1>2, <1>3, <1>4 DEF Init, TypeInv, TypeOK

(* The start-up steps, the server and the client touch no task. *)
LEMMA QuietTypeStep ==
  ASSUME TypeInv,
         Produce \/ Receive \/ RConnect \/ RAuthorize \/ RSignIn \/ RInterrupt
  PROVE  TypeInv'
<1> USE DEF TypeInv, TypeOK
<1>1. CASE Produce
  BY <1>1, StreamLength DEF Produce
<1>2. CASE Receive
  BY <1>2 DEF Receive
<1>3. CASE RConnect \/ RAuthorize \/ RInterrupt
  BY <1>3 DEF RConnect, RAuthorize, RInterrupt, D!Connect, D!Authorize,
              D!Interrupt, D!MainStates, RestartVars
<1>4. CASE RSignIn
  <2>1. main' \in {"loop", "error"} /\ saves' \in Nat /\ UNCHANGED task
    BY <1>4 DEF RSignIn, D!SignIn
  <2>2. saved' \in {NoneVal} \cup 0..Len(Stream) /\ (saved' # NoneVal => saved' <= produced')
    BY <1>4 DEF RSignIn
  <2> QED
    BY <1>4, <2>1, <2>2 DEF RSignIn, D!SignIn, D!MainStates
<1> QED
  BY <1>1, <1>2, <1>3, <1>4

(* A restart frees every slot and resumes at most at the server's count. *)
LEMMA RestartTypeStep ==
  ASSUME TypeInv, Restart
  PROVE  TypeInv'
<1>1. task' \in [Slots -> [st: D!TaskStates, upd: Range(Stream) \cup {NoneVal}]]
      /\ \A s \in Slots : task'[s].st = "free"
  BY DEF Restart, D!TaskStates
<1>2. recv' \in 0..produced' /\ pos' = recv'
  BY DEF Restart, TypeInv, TypeOK
<1>3. runs' \in 1..MaxRuns
  <2>1. runs \in Nat /\ MaxRuns \in Nat /\ runs < MaxRuns /\ runs' = runs + 1
    BY RestartAssumption DEF Restart, TypeInv, TypeOK
  <2> QED
    BY <2>1
<1>4. main' \in D!MainStates /\ sigint' \in BOOLEAN /\ ungraceful' \in BOOLEAN
  BY DEF Restart, TypeInv, TypeOK, D!MainStates
<1> QED
  BY <1>1, <1>2, <1>3, <1>4 DEF Restart, TypeInv, TypeOK

(* The exits drop the runtime; on Ctrl+C the file gets the client's state. *)
LEMMA ExitTypeStep ==
  ASSUME TypeInv, RSelectExit \/ RSelectTransportError
  PROVE  TypeInv'
<1>1. /\ task' = D!DropRuntime(task)
      /\ main' \in {"ok", "error"} /\ saves' \in Nat
      /\ UNCHANGED <<sigint, outbox, produced, recv, pos, runs, answered, ungraceful>>
  BY DEF RSelectExit, RSelectTransportError, D!SelectExit, TypeInv, TypeOK, RestartVars
<1>2. saved' \in {NoneVal} \cup 0..Len(Stream) /\ (saved' # NoneVal => saved' <= produced')
  BY <1>1 DEF RSelectExit, RSelectTransportError, TypeInv, TypeOK, RestartVars
<1>3. /\ task' \in [Slots -> [st: D!TaskStates, upd: Range(Stream) \cup {NoneVal}]]
      /\ \A s \in Slots : task'[s].st \notin D!Running
      /\ \A s \in Slots : task'[s].upd = task[s].upd
      /\ \A s \in Slots : task'[s].st = "free" <=> task[s].st = "free"
  <2>1. task \in [Slots -> [st: D!TaskStates, upd: Range(Stream) \cup {NoneVal}]]
    BY DEF TypeInv, TypeOK
  <2> QED
    BY <1>1, <2>1, DropRuntimeFacts
<1> QED
  BY <1>1, <1>2, <1>3 DEF TypeInv, TypeOK, D!MainStates, D!Running

(* next_update hands out a received update to a free slot. *)
LEMMA SpawnTypeStep ==
  ASSUME TypeInv, RSelectUpdate
  PROVE  TypeInv'
<1>0. task \in [Slots -> [st: D!TaskStates, upd: Range(Stream) \cup {NoneVal}]]
  BY DEF TypeInv, TypeOK
<1>1. PICK s0 \in D!FreeSlots, u \in Range(Stream) :
        task' = [task EXCEPT ![s0] = [st |-> "spawned", upd |-> u]]
  BY DEF RSelectUpdate, D!SelectUpdate
<1>2. s0 \in Slots
  BY DEF D!FreeSlots
<1>3. task' \in [Slots -> [st: D!TaskStates, upd: Range(Stream) \cup {NoneVal}]]
  BY <1>0, <1>1, <1>2 DEF D!TaskStates
<1>4. \A s \in Slots : task'[s].st # "free" => task'[s].upd \in Range(Stream)
  BY <1>0, <1>1, <1>2 DEF TypeInv
<1>5. \A s \in Slots : task'[s].st = "sending" => D!HandleUpdateReplies(task'[s].upd)
  BY <1>0, <1>1, <1>2 DEF TypeInv
<1>6. pos < recv /\ pos' = pos + 1
  BY DEF RSelectUpdate, D!SelectUpdate, D!Winner
<1>7. UNCHANGED <<main, sigint, saves, outbox, produced, recv, saved, runs,
                  answered, ungraceful>>
  BY DEF RSelectUpdate, D!SelectUpdate
<1> QED
  BY <1>3, <1>4, <1>5, <1>6, <1>7 DEF TypeInv, TypeOK

(* A handler's first poll moves only its own task on. *)
LEMMA PollTypeStep ==
  ASSUME NEW s \in Slots, TypeInv, RHandlerPoll(s)
  PROVE  TypeInv'
<1>0. task \in [Slots -> [st: D!TaskStates, upd: Range(Stream) \cup {NoneVal}]]
  BY DEF TypeInv, TypeOK
<1>1. /\ task[s].st = "spawned"
      /\ task' = [task EXCEPT ![s].st = IF D!HandleUpdateReplies(task[s].upd)
                                        THEN "sending" ELSE "done"]
      /\ UNCHANGED <<main, sigint, saves, outbox, produced, recv, pos, saved,
                     runs, answered, ungraceful>>
  BY DEF RHandlerPoll, D!HandlerPoll
<1>2. task[s].upd \in Range(Stream) /\ IndexOf(task[s].upd) \in Indices
  BY <1>1, IndexOfRange DEF TypeInv
<1>4. task' \in [Slots -> [st: D!TaskStates, upd: Range(Stream) \cup {NoneVal}]]
  BY <1>0, <1>1 DEF D!TaskStates
<1>5. \A x \in Slots : task'[x].st # "free" => task'[x].upd \in Range(Stream)
  BY <1>0, <1>1 DEF TypeInv
<1>6. \A x \in Slots : task'[x].st = "sending" => D!HandleUpdateReplies(task'[x].upd)
  BY <1>0, <1>1 DEF TypeInv
<1> QED
  BY <1>1, <1>4, <1>5, <1>6 DEF TypeInv, TypeOK

(* send_message completes: the reply is sent on Ok.                       *)
LEMMA SendTypeStep ==
  ASSUME NEW s \in Slots, TypeInv, RHandlerSendDone(s)
  PROVE  TypeInv'
<1>0. task \in [Slots -> [st: D!TaskStates, upd: Range(Stream) \cup {NoneVal}]]
  BY DEF TypeInv, TypeOK
<1>1. /\ task[s].st = "sending"
      /\ UNCHANGED <<main, sigint, saves, produced, recv, pos, saved, runs, ungraceful>>
  BY DEF RHandlerSendDone, D!HandlerSendDone
<1>2. /\ task[s].upd \in Range(Stream) /\ IndexOf(task[s].upd) \in Indices
      /\ D!ReplyTo(task[s].upd.message) \in D!Replies
  BY <1>1, IndexOfRange, AnsweredReply DEF TypeInv
<1>4. answered' \in [Indices -> Nat]
  BY <1>2 DEF RHandlerSendDone, TypeInv, TypeOK
<1>5. /\ task' \in [Slots -> [st: D!TaskStates, upd: Range(Stream) \cup {NoneVal}]]
      /\ \A x \in Slots : task'[x].upd = task[x].upd
      /\ \A x \in Slots : task'[x].st # "free" => task[x].st # "free"
      /\ \A x \in Slots : task'[x].st = "sending" => task[x].st = "sending"
      /\ outbox' \subseteq D!Replies
  <2>1. \/ task' = [task EXCEPT ![s].st = "done"]
           /\ outbox' = outbox \cup {D!ReplyTo(task[s].upd.message)}
        \/ task' = [task EXCEPT ![s].st = "failed"] /\ outbox' = outbox
    BY DEF RHandlerSendDone, D!HandlerSendDone
  <2>2. outbox \subseteq D!Replies
    BY DEF TypeInv, TypeOK
  <2> QED
    BY <1>0, <1>1, <1>2, <2>1, <2>2 DEF D!TaskStates
<1>6. \A x \in Slots : task'[x].st # "free" => task'[x].upd \in Range(Stream)
  BY <1>5 DEF TypeInv
<1>7. \A x \in Slots : task'[x].st = "sending" => D!HandleUpdateReplies(task'[x].upd)
  BY <1>5 DEF TypeInv
<1>8. TypeOK'
  BY <1>1, <1>4, <1>5 DEF TypeInv, TypeOK
<1> QED
  BY <1>1, <1>6, <1>7, <1>8 DEF TypeInv

LEMMA NextTypeInv == TypeInv /\ [Next]_vars => TypeInv'
<1> SUFFICES ASSUME TypeInv, [Next]_vars PROVE TypeInv'
  OBVIOUS
<1>1. CASE Produce \/ Receive \/ RConnect \/ RAuthorize \/ RSignIn \/ RInterrupt
  BY <1>1, QuietTypeStep
<1>2. CASE Restart
  BY <1>2, RestartTypeStep
<1>3. CASE RSelectExit \/ RSelectTransportError
  BY <1>3, ExitTypeStep
<1>4. CASE RSelectUpdate
  BY <1>4, SpawnTypeStep
<1>5. ASSUME NEW s \in Slots, RHandlerPoll(s) \/ RHandlerSendDone(s)
      PROVE  TypeInv'
  BY <1>5, PollTypeStep, SendTypeStep
<1>6. CASE UNCHANGED vars
  BY <1>6 DEF TypeInv, TypeOK, vars
<1> QED
  BY <1>1, <1>2, <1>3, <1>4, <1>5, <1>6 DEF Next

(* Across restarts, whatever the runs' ends: the session file never      *)
(* counts more updates than the server produced, answered updates are    *)
(* updates of the stream, and every message the handlers    *)
(* send is a well-formed reply (forum-topic-filter.rs, lines 27-137).    *)
THEOREM RestartTypeCorrect == Spec => []TypeOK
<1>1. Init => TypeInv
  BY InitTypeInv
<1>2. TypeInv /\ [Next]_vars => TypeInv'
  BY NextTypeInv
<1>3. TypeInv => TypeOK
  BY DEF TypeInv
<1> QED
  BY <1>1, <1>2, <1>3, PTL DEF Spec

-----------------------------------------------------------------------------
(* The session file never counts more updates than the client has         *)
(* received: a save writes the client's state, and a restart resumes the  *)
(* client from the file's.  Together with ReplayInv this is what makes    *)
(* the resume point monotone.                                              *)
SavedBehind == saved # NoneVal => saved <= recv

LEMMA InitSavedBehind == Init => SavedBehind
BY DEF Init, SavedBehind

(* The numbers the monotonicity steps compare. *)
LEMMA ReplayNumbers ==
  ASSUME ReplayInv
  PROVE  /\ produced \in Nat /\ recv \in Nat /\ pos \in Nat
         /\ saved # NoneVal => saved \in Nat
<1>1. Len(Stream) \in Nat
  BY StreamLength
<1> QED
  BY <1>1 DEF ReplayInv, ReplayTypeOK

(* The steps that write neither the file nor the client's update state. *)
LEMMA KeepsFileAndClient ==
  ASSUME [Next]_vars, ~Receive, ~Restart, ~RSignIn, ~RSelectExit
  PROVE  UNCHANGED <<saved, recv>>
<1>1. CASE Produce \/ RConnect \/ RAuthorize \/ RInterrupt \/ RSelectUpdate
           \/ RSelectTransportError
  BY <1>1 DEF Produce, RConnect, RAuthorize, RInterrupt, RSelectUpdate,
              RSelectTransportError, RestartVars
<1>2. ASSUME NEW s \in Slots, RHandlerPoll(s) \/ RHandlerSendDone(s)
      PROVE  UNCHANGED <<saved, recv>>
  BY <1>2 DEF RHandlerPoll, RHandlerSendDone
<1>3. CASE UNCHANGED vars
  BY <1>3 DEF vars
<1> QED
  BY <1>1, <1>2, <1>3 DEF Next

LEMMA SavedBehindStep == ReplayInv /\ SavedBehind /\ [Next]_vars => SavedBehind'
<1> SUFFICES ASSUME ReplayInv, SavedBehind, [Next]_vars PROVE SavedBehind'
  OBVIOUS
<1>1. /\ recv \in Nat
      /\ saved # NoneVal => saved \in Nat
  BY ReplayNumbers
<1>2. CASE Receive
  BY <1>1, <1>2 DEF Receive, SavedBehind
<1>3. CASE Restart
  BY <1>1, <1>3 DEF Restart, SavedBehind
<1>4. CASE RSignIn \/ RSelectExit
  BY <1>1, <1>4 DEF RSignIn, RSelectExit, SavedBehind
<1>5. CASE ~Receive /\ ~Restart /\ ~RSignIn /\ ~RSelectExit
  BY <1>5, KeepsFileAndClient DEF SavedBehind
<1> QED
  BY <1>2, <1>3, <1>4, <1>5

(* The step ResumePointMonotone allows.  A save writes the client's state,*)
(* which is at or past the file's; a restart after a clean exit resumes  *)
(* from the file's state, which that exit left at or past `pos`.          *)
LEMMA ResumeStep ==
  ASSUME ReplayInv, SavedBehind, [Next]_vars
  PROVE  [ /\ saved # NoneVal => saved' # NoneVal /\ saved' >= saved
           /\ ~ungraceful' => pos' >= pos ]_vars
<1>1. /\ recv \in Nat /\ pos \in Nat
      /\ saved # NoneVal => saved \in Nat
  BY ReplayNumbers
<1>2. CASE Restart
  <2>1. ~ungraceful' => main = "ok" /\ ~ungraceful
    BY <1>2 DEF Restart, ReplayInv, ReplayTypeOK
  <2>2. ~ungraceful' => saved # NoneVal /\ pos <= saved
    BY <2>1 DEF ReplayInv
  <2>3. ~ungraceful' => pos' = saved
    BY <1>2, <2>2 DEF Restart
  <2>4. saved' = saved
    BY <1>2 DEF Restart
  <2> QED
    BY <1>1, <2>2, <2>3, <2>4
<1>3. CASE RSelectUpdate
  BY <1>1, <1>3 DEF RSelectUpdate
<1>4. CASE Receive \/ RSignIn \/ RSelectExit
  <2>1. pos' = pos /\ recv' \in Nat
    BY <1>1, <1>4 DEF Receive, RSignIn, RSelectExit
  <2>2. saved' = saved \/ saved' = recv
    BY <1>4 DEF Receive, RSignIn, RSelectExit
  <2>3. recv # NoneVal
    <3>1. recv \in 0..Len(Stream)
      BY StreamLength DEF ReplayInv, ReplayTypeOK
    <3> QED
      BY <3>1, RestartAssumption
  <2> QED
    BY <1>1, <2>1, <2>2, <2>3 DEF SavedBehind
<1>5. CASE ~Receive /\ ~Restart /\ ~RSignIn /\ ~RSelectExit /\ ~RSelectUpdate
  <2>1. UNCHANGED <<saved, recv>>
    BY <1>5, KeepsFileAndClient
  <2>2. pos' = pos
    <3>1. CASE Produce \/ RConnect \/ RAuthorize \/ RInterrupt
               \/ RSelectTransportError
      BY <3>1 DEF Produce, RConnect, RAuthorize, RInterrupt,
                  RSelectTransportError, RestartVars
    <3>2. ASSUME NEW s \in Slots, RHandlerPoll(s) \/ RHandlerSendDone(s)
          PROVE  pos' = pos
      BY <3>2 DEF RHandlerPoll, RHandlerSendDone
    <3>3. CASE UNCHANGED vars
      BY <3>3 DEF vars
    <3> QED
      BY <1>5, <3>1, <3>2, <3>3 DEF Next
  <2> QED
    BY <1>1, <2>1, <2>2
<1> QED
  BY <1>2, <1>3, <1>4, <1>5

(* Whatever way the runs end, no save_to_file (lines 100, 128) writes an  *)
(* update state older than the file's; and while every run has ended by   *)
(* Ctrl+C and its save, catch_up (line 90) never resumes next_update      *)
(* before an update it already handed out, for every stream, number of    *)
(* task slots and number of starts.                                       *)
THEOREM ResumeNeverRewinds == Spec => ResumePointMonotone
<1>1. Init => ReplayInv /\ SavedBehind
  BY InitReplay, InitSavedBehind
<1>2. ReplayInv /\ SavedBehind /\ [Next]_vars => ReplayInv' /\ SavedBehind'
  BY NextReplay, SavedBehindStep
<1>3. ReplayInv /\ SavedBehind /\ [Next]_vars =>
        [ /\ saved # NoneVal => saved' # NoneVal /\ saved' >= saved
          /\ ~ungraceful' => pos' >= pos ]_vars
  BY ResumeStep
<1> QED
  BY <1>1, <1>2, <1>3, PTL DEF Spec, ResumePointMonotone
=============================================================================
