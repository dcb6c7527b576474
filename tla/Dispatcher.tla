------------------------------ MODULE Dispatcher ------------------------------
(***************************************************************************)
(* The update dispatcher of examples/forum-topic-filter.rs: start-up       *)
(* (connect, authorise, sign in and save), the loop that races Ctrl+C      *)
(* against next_update with `select`, the handler task spawned for every   *)
(* update (handle_update, which answers incoming messages of the allowed   *)
(* forum topics), and the exit that saves the session.                     *)
(*                                                                         *)
(* The program runs on a current-thread tokio runtime (main, line 133):    *)
(* spawned handlers run only while async_main is suspended in `select`,    *)
(* and the code between two awaits of one task is one atomic step.  Once   *)
(* async_main returns, block_on returns and the runtime is dropped with    *)
(* every unfinished task in it.                                            *)
(***************************************************************************)
EXTENDS MessageSnapshot, Naturals

CONSTANTS
  AllowedTopics,  \* allowed_topics: the topic id given as second argument
  UpdateInputs,   \* the Update values next_update can return
  Slots           \* identities of handler tasks alive at one time

(* Update: NewMessage carries a snapshot; the handler ignores the other   *)
(* variants (`_ => {}`).                                                   *)
Updates == [kind: {"NewMessage"}, message: Snapshots] \cup [kind: {"Other"}]

ASSUME DispatcherAssumption ==
  /\ AllowedTopics \subseteq MsgIds
  /\ IsFiniteSet(AllowedTopics) /\ Cardinality(AllowedTopics) <= 1
  /\ UpdateInputs \subseteq Updates
  /\ UpdateInputs # {}
  /\ Slots # {} /\ IsFiniteSet(Slots)

(* The control points of async_main; the last three are exits. *)
MainStates == {"connect", "authorize", "sign_in", "loop", "ok", "error", "killed"}
Exited == {"ok", "error", "killed"}

(* The life of one spawned handler task. *)
TaskStates == {"free", "spawned", "sending", "done", "failed", "cancelled"}
Running == {"spawned", "sending"}

(* The message handle_update sends: to the message's chat, quoting its    *)
(* text and the topic id (the format! of line 46).                         *)
Replies ==
  [to: Snapshots, chat: Peers, said: TextVals, topic: Option(MsgIds)]

VARIABLES
  main,     \* control point of async_main
  sigint,   \* Ctrl+C delivered to the registered ctrl_c listener
  ready,    \* next_update has a result to return
  saves,    \* successful session().save_to_file calls
  task,     \* task[s]: state and update of the handler task in slot s
  outbox    \* the messages handlers have sent

vars == <<main, sigint, ready, saves, task, outbox>>

Init ==
  /\ main = "connect"
  /\ sigint = FALSE
  /\ ready = FALSE
  /\ saves = 0
  /\ task = [s \in Slots |-> [st |-> "free", upd |-> NoneVal]]
  /\ outbox = {}

-----------------------------------------------------------------------------
(* Start-up, lines 83-102. *)

(* Session::load_file_or_create and Client::connect, each with `?`. *)
Connect ==
  /\ main = "connect"
  /\ main' \in {"authorize", "error"}
  /\ UNCHANGED <<sigint, ready, saves, task, outbox>>

(* client.is_authorized().await?: already signed in, or not, or an error. *)
Authorize ==
  /\ main = "authorize"
  /\ main' \in {"loop", "sign_in", "error"}
  /\ UNCHANGED <<sigint, ready, saves, task, outbox>>

(* bot_sign_in(&token).await? then session().save_to_file(...)?. *)
SignIn ==
  /\ main = "sign_in"
  /\ \/ main' = "loop" /\ saves' = saves + 1
     \/ main' = "error" /\ UNCHANGED saves
  /\ UNCHANGED <<sigint, ready, task, outbox>>

-----------------------------------------------------------------------------
(* The environment. *)

(* Ctrl+C.  Until the loop first polls tokio::signal::ctrl_c no handler  *)
(* is installed and SIGINT ends the process.  In the loop every iteration *)
(* makes a new listener (line 109), pending on its first poll, so the     *)
(* signal reaches one only while the select waits with next_update        *)
(* pending; a signal at any other moment reaches no listener and is lost, *)
(* a step that changes nothing.                                            *)
Interrupt ==
  /\ main \notin Exited
  /\ ~sigint
  /\ IF main = "loop"
     THEN ~ready /\ sigint' = TRUE /\ UNCHANGED main
     ELSE main' = "killed" /\ UNCHANGED sigint
  /\ UNCHANGED <<ready, saves, task, outbox>>

(* The transport has an update (or an error) for next_update. *)
UpdateArrives ==
  /\ main = "loop"
  /\ ~ready
  /\ ready' = TRUE
  /\ UNCHANGED <<main, sigint, saves, task, outbox>>

-----------------------------------------------------------------------------
(* The loop, lines 108-128. *)

(* Mutant: select(upd, exit), the update arm polled first. *)
WinnerUpdateFirst ==
  IF ready THEN "update" ELSE IF sigint THEN "exit" ELSE "pending"

(* futures_util::future::select(exit, upd) polls `exit` first, so when    *)
(* both are ready the Ctrl+C arm wins.                                     *)
Winner ==
  IF sigint THEN "exit" ELSE IF ready THEN "update" ELSE "pending"

(* Dropping the runtime drops every task that has not finished. *)
DropRuntime(t) ==
  [s \in Slots |-> IF t[s].st \in Running THEN [t[s] EXCEPT !.st = "cancelled"]
                   ELSE t[s]]

FreeSlots == {s \in Slots : task[s].st \in {"free", "done", "failed"}}

(* Either::Left => break; then save_to_file(SESSION_FILE)? and return, so *)
(* block_on returns and the runtime is dropped.                            *)
SelectExit ==
  /\ main = "loop"
  /\ Winner = "exit"
  /\ \/ main' = "ok" /\ saves' = saves + 1
     \/ main' = "error" /\ UNCHANGED saves
  /\ task' = DropRuntime(task)
  /\ UNCHANGED <<sigint, ready, outbox>>

(* Mutant: the session saved after every update. *)
SelectUpdateSaving ==
  /\ main = "loop"
  /\ Winner = "update"
  /\ \E s \in FreeSlots, u \in UpdateInputs :
       task' = [task EXCEPT ![s] = [st |-> "spawned", upd |-> u]]
  /\ ready' \in BOOLEAN
  /\ saves' = saves + 1
  /\ UNCHANGED <<main, sigint, outbox>>

(* Either::Right((Ok(update), _)): task::spawn(handle_update(...)) and    *)
(* loop; another update may already be buffered.                           *)
SelectUpdate ==
  /\ main = "loop"
  /\ Winner = "update"
  /\ \E s \in FreeSlots, u \in UpdateInputs :
       task' = [task EXCEPT ![s] = [st |-> "spawned", upd |-> u]]
  /\ ready' \in BOOLEAN
  /\ UNCHANGED <<main, sigint, saves, outbox>>

(* Either::Right((Err(e), _)): `u?` returns the error from async_main,    *)
(* without saving the session.                                             *)
SelectTransportError ==
  /\ main = "loop"
  /\ Winner = "update"
  /\ main' = "error"
  /\ ready' = FALSE
  /\ task' = DropRuntime(task)
  /\ UNCHANGED <<sigint, saves, outbox>>

-----------------------------------------------------------------------------
(* A handler task, lines 27-64 and 119-124. *)

(* Mutant: the `!message.outgoing()` guard dropped. *)
HandleUpdateRepliesAnyDirection(u) ==
  /\ u.kind = "NewMessage"
  /\ IsForumTopic(u.message)
  /\ TopicId(u.message) # NoneVal
  /\ IsInTopics(u.message, AllowedTopics)

(* The filter of handle_update: a new, incoming message, flagged as a     *)
(* forum topic, with a known topic id among the allowed ones.              *)
HandleUpdateReplies(u) ==
  /\ u.kind = "NewMessage"
  /\ ~Outgoing(u.message)
  /\ IsForumTopic(u.message)
  /\ TopicId(u.message) # NoneVal
  /\ IsInTopics(u.message, AllowedTopics)

(* Mutant: the reply addressed with the chat entity instead of its peer. *)
ReplyToChatEntity(m) ==
  [to |-> m, chat |-> Chat(m), said |-> Text(m), topic |-> TopicId(m)]

ReplyTo(m) ==
  [to |-> m, chat |-> Chat(m).peer, said |-> Text(m), topic |-> TopicId(m)]

(* First poll of the task: run the filter up to the send_message await, *)
(* or to Ok(()) when the update is not answered.                           *)
HandlerPoll(s) ==
  /\ main = "loop"
  /\ task[s].st = "spawned"
  /\ task' = [task EXCEPT ![s].st =
                IF HandleUpdateReplies(task[s].upd) THEN "sending" ELSE "done"]
  /\ UNCHANGED <<main, sigint, ready, saves, outbox>>

(* send_message completes: Ok, or Err, which `?` returns and the spawned *)
(* block reports with eprintln!.                                           *)
HandlerSendDone(s) ==
  /\ main = "loop"
  /\ task[s].st = "sending"
  /\ \/ /\ task' = [task EXCEPT ![s].st = "done"]
        /\ outbox' = outbox \cup {ReplyTo(task[s].upd.message)}
     \/ /\ task' = [task EXCEPT ![s].st = "failed"]
        /\ UNCHANGED outbox
  /\ UNCHANGED <<main, sigint, ready, saves>>

-----------------------------------------------------------------------------
Next ==
  \/ Connect \/ Authorize \/ SignIn
  \/ Interrupt \/ UpdateArrives
  \/ SelectExit \/ SelectUpdate \/ SelectTransportError
  \/ \E s \in Slots : HandlerPoll(s) \/ HandlerSendDone(s)

(* The main task and the handler tasks are scheduled whenever they can    *)
(* run; the transport and the user (Ctrl+C) are not obliged to act.        *)
Fairness ==
  /\ WF_vars(Connect) /\ WF_vars(Authorize) /\ WF_vars(SignIn)
  /\ WF_vars(SelectExit) /\ WF_vars(SelectUpdate \/ SelectTransportError)
  /\ \A s \in Slots : WF_vars(HandlerPoll(s)) /\ WF_vars(HandlerSendDone(s))

Spec == Init /\ [][Next]_vars

FairSpec == Spec /\ Fairness
-----------------------------------------------------------------------------
(* Properties. *)

TypeOK ==
  /\ main \in MainStates
  /\ sigint \in BOOLEAN
  /\ ready \in BOOLEAN
  /\ saves \in Nat
  /\ task \in [Slots -> [st: TaskStates, upd: UpdateInputs \cup {NoneVal}]]
  /\ outbox \subseteq Replies

(* Whatever the interleaving of handler tasks, every message the example *)
(* sends answers an incoming message (never one of the bot's own) whose  *)
(* topic, by the specification's resolution algorithm, is an allowed     *)
(* one, in that message's chat, naming that topic (handle_update, lines  *)
(* 29-46).                                                                *)
RepliesOnlyToAllowedTopics ==
  \A r \in outbox :
    /\ ~Outgoing(r.to)
    /\ SpecTopicId(r.to) \in AllowedTopics
    /\ r.topic = SpecTopicId(r.to)
    /\ r.chat = r.to.raw.peer_id

(* Inductive strengthening of TypeOK and RepliesOnlyToAllowedTopics: a    *)
(* task awaiting send_message holds an update that passed the filter.     *)
SendingAnswers ==
  \A s \in Slots :
    task[s].st = "sending" =>
      task[s].upd \in UpdateInputs /\ HandleUpdateReplies(task[s].upd)

(* A slot that has been used holds the update it was spawned for. *)
HeldUpdates ==
  \A s \in Slots : task[s].st # "free" => task[s].upd \in UpdateInputs

IInv == TypeOK /\ HeldUpdates /\ SendingAnswers /\ RepliesOnlyToAllowedTopics

(* A step that writes the session file, as SaveDiscipline allows it. *)
SaveStep ==
  saves' # saves =>
    /\ saves' = saves + 1
    /\ \/ main = "sign_in" /\ main' = "loop"
       \/ /\ main = "loop" /\ sigint /\ main' = "ok"
          /\ \A s \in Slots : task'[s].st \notin Running

(* The session is written only right after a sign-in, and on the Ctrl+C  *)
(* arm after the signal, once, with no handler left to run after it      *)
(* (lines 100 and 128; section 4.3 of the specification).                *)
SaveDiscipline == [][SaveStep]_vars

(* Once Ctrl+C is delivered the program exits, even under a steady       *)
(* stream of updates: the shutdown arm wins the race (line 112).         *)
ShutdownTerminates ==
  sigint ~> (main \in Exited)

-----------------------------------------------------------------------------
(* The refinement mapping onto DispatchLoop.  The loop is Draining from   *)
(* the moment the listener holds a Ctrl+C: from then on `select` can only *)
(* take the exit arm.  Handlers in flight are the spawned or sending      *)
(* tasks; the detached ones are those the runtime drop cancelled.         *)
RunningSlots == {s \in Slots : task[s].st \in Running}
CancelledSlots == {s \in Slots : task[s].st = "cancelled"}

Phase ==
  IF main \in {"connect", "authorize", "sign_in"} THEN "Starting"
  ELSE IF main = "loop" THEN (IF sigint THEN "Draining" ELSE "Running")
  ELSE IF main = "ok" THEN "Stopped"
  ELSE IF main = "error" THEN "Failed"
  ELSE "Killed"

Abs == INSTANCE DispatchLoop WITH
         phase <- Phase,
         inflight <- Cardinality(RunningSlots),
         detached <- Cardinality(CancelledSlots)

(* The example implements the dispatcher of section 4.3: every step of    *)
(* async_main and of its handler tasks is a step of DispatchLoop or leaves *)
(* it unchanged; in particular no update is spawned once Ctrl+C is        *)
(* pending, and neither exit waits for the tasks still running.            *)
ImplementsDispatchLoop == Abs!Spec

(* Section 5 of the specification: on Ctrl+C a handler task already      *)
(* running is never forcibly cancelled; it runs to completion while the  *)
(* loop saves the session and terminates.                                *)
NoHandlerCancelledAtShutdown ==
  sigint => \A s \in Slots : task[s].st # "cancelled"
=============================================================================
