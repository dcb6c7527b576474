----------------------------- MODULE DispatchLoop -----------------------------
(***************************************************************************)
(* What the update dispatcher promises (specification, sections 4.3 and    *)
(* 5): the loop is Running, Draining or Stopped, hands every update it     *)
(* accepts to a handler task and never waits for one, accepts no update    *)
(* once the shutdown signal is observed, and persists the session on the   *)
(* way from Draining to Stopped.  Handlers still running when the loop     *)
(* ends are detached: they are not waited for and may still finish.       *)
(*                                                                         *)
(* Besides the three states of section 4.3 the loop has a start-up phase   *)
(* (connect and sign-in, out of the core's scope) and two abnormal ends:   *)
(* Failed (a transport error, or a failed save, surfaced to the caller)    *)
(* and Killed (the process interrupted before the loop listens for the     *)
(* signal).  Handlers are counted, not named: nothing here depends on      *)
(* which update a handler holds.                                           *)
(***************************************************************************)
EXTENDS Naturals

VARIABLES
  phase,     \* the dispatcher's state
  inflight,  \* handler tasks handed off by the loop and not finished
  detached   \* handler tasks still running when the loop ended

avars == <<phase, inflight, detached>>

Phases == {"Starting", "Running", "Draining", "Stopped", "Failed", "Killed"}
Ended == {"Stopped", "Failed", "Killed"}

Init ==
  /\ phase = "Starting"
  /\ inflight = 0
  /\ detached = 0

(* Start-up ends in the loop, in an error, or with the process killed. *)
Start ==
  /\ phase = "Starting"
  /\ phase' \in {"Running", "Failed", "Killed"}
  /\ UNCHANGED <<inflight, detached>>

(* The update arm wins the race: one more handler task, and the loop goes *)
(* on without waiting for it.                                              *)
Dispatch ==
  /\ phase = "Running"
  /\ inflight' = inflight + 1
  /\ UNCHANGED <<phase, detached>>

(* The shutdown arm wins the race: no update is accepted from now on. *)
Signal ==
  /\ phase = "Running"
  /\ phase' = "Draining"
  /\ UNCHANGED <<inflight, detached>>

(* A handler task finishes, successfully or with a reported error, while *)
(* the loop still runs.                                                    *)
Complete ==
  /\ phase \in {"Running", "Draining"}
  /\ inflight > 0
  /\ inflight' = inflight - 1
  /\ UNCHANGED <<phase, detached>>

(* Draining -> Stopped: the one persistence step; when it fails the error *)
(* goes to the caller.  The loop ends without waiting for its handlers.   *)
Persist ==
  /\ phase = "Draining"
  /\ phase' \in {"Stopped", "Failed"}
  /\ detached' = inflight
  /\ inflight' = 0

(* A transport error ends the loop with no persistence step. *)
TransportFailure ==
  /\ phase = "Running"
  /\ phase' = "Failed"
  /\ detached' = inflight
  /\ inflight' = 0

(* A detached handler runs to completion on its own. *)
DetachedComplete ==
  /\ detached > 0
  /\ detached' = detached - 1
  /\ UNCHANGED <<phase, inflight>>

Next ==
  \/ Start \/ Dispatch \/ Signal \/ Complete
  \/ Persist \/ TransportFailure \/ DetachedComplete

Spec == Init /\ [][Next]_avars
=============================================================================
