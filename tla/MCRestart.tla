------------------------------ MODULE MCRestart ------------------------------
(* The bot across up to three starts, with a stream of two messages in   *)
(* the allowed topic 1 (both answered) and two handler tasks: enough for  *)
(* one update to be handled, one to be in flight or buffered at Ctrl+C,   *)
(* and a restart after a clean exit and after a crash.                    *)
EXTENDS Restart

CONSTANTS u1, g1   \* a user and a forum group

MCMsgIds == {1, 2}
MCTextVals == {"", "hi"}

MCMessage(id) ==
  [kind |-> "NewMessage",
   message |-> [raw |-> [flags |-> {}, id |-> id, from_id |-> u1, peer_id |-> g1,
                         reply_to |-> [variant |-> "Header", forum_topic |-> TRUE,
                                       reply_to_top_id |-> 1, reply_to_msg_id |-> 1],
                         message |-> "hi", extra |-> {}],
                raw_action |-> NoneVal, chats |-> {g1}]]

MCStream == <<MCMessage(1), MCMessage(2)>>
=============================================================================
