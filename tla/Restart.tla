------------------------------- MODULE Restart -------------------------------
(***************************************************************************)
(* The forum-topic bot across restarts: the dispatcher of Dispatcher,      *)
(* composed with the session file and the server's update stream.          *)
(*                                                                         *)
(* The server produces the updates of Stream one by one, whether the bot   *)
(* runs or not.  While connected the client receives them in order and     *)
(* its update state (`recv`, how many it has received) advances;           *)
(* next_update hands them out in the same order (`pos`).  save_to_file     *)
(* writes that update state into the session file (`saved`; NoneVal: no   *)
(* file).  The program is started again after every exit; with            *)
(* `catch_up: true` (line 90) Client::connect resumes the stream from the  *)
(* state in the file, and a fresh session starts from the server's        *)
(* present.  The client and the session are collaborators outside src/:   *)
(* what they do here is the contract the example relies on.                *)
(***************************************************************************)
EXTENDS MessageSnapshot, Naturals, Sequences

CONSTANTS
  AllowedTopics,  \* allowed_topics
  Stream,         \* the updates the server produces, in order, all distinct
  Slots,          \* identities of handler tasks alive at one time
  MaxRuns         \* how many times the program is started

VARIABLES
  main, sigint, saves, task, outbox,  \* the dispatcher's state
  produced,   \* updates the server has produced
  recv,       \* the client's update state: updates received so far
  pos,        \* updates next_update has returned
  saved,      \* the update state in the session file, or NoneVal
  runs,       \* how many times the program has been started
  answered,   \* answered[i]: replies sent for update i, over all runs
  ungraceful  \* some run ended by an error or was killed

vars == <<main, sigint, saves, task, outbox, produced, recv, pos, saved,
          runs, answered, ungraceful>>

(* next_update has a result when the client holds an update not yet      *)
(* returned.                                                               *)
Range(f) == {f[i] : i \in DOMAIN f}

D == INSTANCE Dispatcher WITH
       UpdateInputs <- Range(Stream),
       ready <- (pos < recv)

ASSUME RestartAssumption ==
  /\ Stream \in Seq(D!Updates)
  /\ \A i, j \in 1..Len(Stream) : Stream[i] = Stream[j] => i = j
  /\ MaxRuns \in Nat \ {0}
  /\ NoneVal \notin 0..Len(Stream)
  /\ AllowedTopics \subseteq MsgIds

Indices == 1..Len(Stream)

IndexOf(u) == CHOOSE i \in Indices : Stream[i] = u

Init ==
  /\ main = "connect" /\ sigint = FALSE /\ saves = 0 /\ outbox = {}
  /\ task = [s \in Slots |-> [st |-> "free", upd |-> NoneVal]]
  /\ produced = 0 /\ recv = 0 /\ pos = 0
  /\ saved \in {NoneVal, 0}
  /\ runs = 1
  /\ answered = [i \in Indices |-> 0]
  /\ ungraceful = FALSE

RestartVars == <<produced, recv, pos, saved, runs, answered, ungraceful>>

-----------------------------------------------------------------------------
(* The server produces the next update; a connected client receives the  *)
(* updates it has not received yet, in order.                             *)
Produce ==
  /\ produced < Len(Stream)
  /\ produced' = produced + 1
  /\ UNCHANGED <<main, sigint, saves, task, outbox, recv, pos, saved, runs,
                 answered, ungraceful>>

Receive ==
  /\ main \in {"authorize", "sign_in", "loop"}
  /\ recv < produced
  /\ recv' = recv + 1
  /\ UNCHANGED <<main, sigint, saves, task, outbox, produced, pos, saved, runs,
                 answered, ungraceful>>

(* Mutant: the restarted client keeps the old run's next_update position. *)
RestartStalePos ==
  /\ main \in D!Exited
  /\ runs < MaxRuns
  /\ runs' = runs + 1
  /\ main' = "connect" /\ sigint' = FALSE
  /\ task' = [s \in Slots |-> [st |-> "free", upd |-> NoneVal]]
  /\ recv' = IF saved = NoneVal THEN produced ELSE saved
  /\ ungraceful' = (ungraceful \/ main # "ok")
  /\ UNCHANGED <<saves, outbox, produced, saved, answered, pos>>

(* The program is started again after it exited.  Client::connect with   *)
(* the loaded session resumes from its update state (catch_up: true); a   *)
(* fresh session starts where the server is now.                           *)
Restart ==
  /\ main \in D!Exited
  /\ runs < MaxRuns
  /\ runs' = runs + 1
  /\ main' = "connect" /\ sigint' = FALSE
  /\ task' = [s \in Slots |-> [st |-> "free", upd |-> NoneVal]]
  /\ recv' = IF saved = NoneVal THEN produced ELSE saved
  /\ pos' = recv'
  /\ ungraceful' = (ungraceful \/ main # "ok")
  /\ UNCHANGED <<saves, outbox, produced, saved, answered>>

-----------------------------------------------------------------------------
(* Start-up.  A session file that exists holds an authorisation (which    *)
(* the server may have revoked); without one the bot must sign in.         *)
RConnect ==
  /\ UNCHANGED RestartVars
  /\ D!Connect

RAuthorize ==
  /\ UNCHANGED RestartVars
  /\ D!Authorize
  /\ saved = NoneVal => main' # "loop"

(* bot_sign_in and save_to_file (lines 99-100): the file now holds the    *)
(* client's update state.                                                  *)
RSignIn ==
  /\ UNCHANGED <<produced, recv, pos, runs, answered, ungraceful>>
  /\ D!SignIn
  /\ saved' = IF main' = "loop" THEN recv ELSE saved

RInterrupt ==
  /\ UNCHANGED RestartVars
  /\ D!Interrupt

(* Mutant: the session saved at shutdown without the update state        *)
(* reached since start-up.                                                 *)
RSelectExitStaleState ==
  /\ UNCHANGED <<produced, recv, pos, saved, runs, answered, ungraceful>>
  /\ D!SelectExit

(* Ctrl+C: save_to_file (line 128) writes the client's update state; the *)
(* runtime is dropped.                                                     *)
RSelectExit ==
  /\ UNCHANGED <<produced, recv, pos, runs, answered, ungraceful>>
  /\ D!SelectExit
  /\ saved' = IF main' = "ok" THEN recv ELSE saved

(* next_update returns the next update received; it is spawned. *)
RSelectUpdate ==
  /\ pos' = pos + 1
  /\ UNCHANGED <<produced, recv, saved, runs, answered, ungraceful>>
  /\ D!SelectUpdate
  /\ \E s \in Slots : task'[s] # task[s] /\ task'[s].upd = Stream[pos + 1]

(* next_update fails (line 114): async_main returns with no save. *)
RSelectTransportError ==
  /\ main = "loop"
  /\ ~sigint
  /\ main' = "error"
  /\ task' = D!DropRuntime(task)
  /\ UNCHANGED <<sigint, saves, outbox>>
  /\ UNCHANGED RestartVars

(* A handler task's steps; a reply sent answers the task's update. *)
RHandlerPoll(s) ==
  /\ UNCHANGED <<produced, recv, pos, saved, runs, answered, ungraceful>>
  /\ D!HandlerPoll(s)

RHandlerSendDone(s) ==
  /\ UNCHANGED <<produced, recv, pos, saved, runs, ungraceful>>
  /\ D!HandlerSendDone(s)
  /\ answered' = IF task'[s].st = "done"
                 THEN [answered EXCEPT ![IndexOf(task[s].upd)] = @ + 1]
                 ELSE answered

Next ==
  \/ Produce \/ Receive \/ Restart
  \/ RConnect \/ RAuthorize \/ RSignIn \/ RInterrupt
  \/ RSelectExit \/ RSelectUpdate \/ RSelectTransportError
  \/ \E s \in Slots : RHandlerPoll(s) \/ RHandlerSendDone(s)

Spec == Init /\ [][Next]_vars

-----------------------------------------------------------------------------
TypeOK ==
  /\ main \in D!MainStates /\ sigint \in BOOLEAN /\ saves \in Nat
  /\ task \in [Slots -> [st: D!TaskStates, upd: Range(Stream) \cup {NoneVal}]]
  /\ outbox \subseteq D!Replies
  /\ pos \in 0..recv /\ recv \in 0..produced /\ produced \in 0..Len(Stream)
  /\ saved \in {NoneVal} \cup 0..Len(Stream)
  /\ runs \in 1..MaxRuns
  /\ answered \in [Indices -> Nat]
  /\ ungraceful \in BOOLEAN

(* Across restarts that all end by Ctrl+C with the session saved, no     *)
(* update is answered twice: catch_up resumes after every update handed  *)
(* out before the save.  Only an exit without a save (a transport error, *)
(* a failed save, a kill) may make catch_up replay an update already      *)
(* answered (lines 114, 128; section 4.3 leaves that recovery to the      *)
(* caller).                                                                *)
NoDuplicateRepliesAfterCleanExits ==
  ~ungraceful => \A i \in Indices : answered[i] <= 1

(* The point catch_up resumes from never moves back.  Once the session    *)
(* file holds an update state, no later save_to_file (sign-in, line 100;  *)
(* Ctrl+C, line 128) writes an older one, whatever way the runs end; and  *)
(* while every run has ended by Ctrl+C and its save, the position         *)
(* next_update hands out from never decreases, across restarts included, *)
(* so no update is handed out a second time.                              *)
ResumePointMonotone ==
  [][ /\ saved # NoneVal => saved' # NoneVal /\ saved' >= saved
      /\ ~ungraceful' => pos' >= pos ]_vars
(* The inductive strengthening of NoDuplicateRepliesAfterCleanExits.      *)
(* While every run ended cleanly, every update a task holds or that was    *)
(* answered lies at or before `pos`, so the next spawn is of an update    *)
(* never handed out before; a running task holds an unanswered update no  *)
(* other running task holds; and after a clean exit the file's state is   *)
(* at or past `pos`, so the next start resumes beyond every update        *)
(* handed out.                                                             *)
ReplayTypeOK ==
  /\ main \in D!MainStates
  /\ task \in [Slots -> [st: D!TaskStates, upd: Range(Stream) \cup {NoneVal}]]
  /\ produced \in 0..Len(Stream) /\ recv \in 0..produced /\ pos \in 0..recv
  /\ saved \in {NoneVal} \cup 0..produced
  /\ answered \in [Indices -> Nat]
  /\ ungraceful \in BOOLEAN

ReplayInv ==
  /\ ReplayTypeOK
  /\ \A s \in Slots : task[s].st # "free" => task[s].upd \in Range(Stream)
  /\ ~ungraceful =>
       /\ \A s \in Slots : task[s].st # "free" => IndexOf(task[s].upd) <= pos
       /\ \A i \in Indices : answered[i] > 0 => i <= pos
       /\ \A i \in Indices : answered[i] <= 1
       /\ \A s \in Slots :
            task[s].st \in D!Running => answered[IndexOf(task[s].upd)] = 0
       /\ \A s, t \in Slots :
            (s # t /\ task[s].st \in D!Running /\ task[t].st \in D!Running)
              => task[s].upd # task[t].upd
       /\ main = "ok" => saved # NoneVal /\ pos <= saved

(* The inductive strengthening of TypeOK: the file never counts more     *)
(* updates than the server produced, a task that has been spawned holds   *)
(* an update of the stream, and one awaiting send_message holds an update *)
(* the filter of handle_update accepted, so the reply it sends is a       *)
(* well-formed message.                                                    *)
TypeInv ==
  /\ TypeOK
  /\ saved # NoneVal => saved <= produced
  /\ \A s \in Slots : task[s].st # "free" => task[s].upd \in Range(Stream)
  /\ \A s \in Slots : task[s].st = "sending" => D!HandleUpdateReplies(task[s].upd)
=============================================================================
