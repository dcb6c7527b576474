---------------------------- MODULE MCMessageOps ----------------------------
(* A handler holding an incoming message of a group or of a channel (so   *)
(* both forms of mark_as_read happen), that may forward it to either      *)
(* chat, sends albums of up to two medias and calls three methods.  The  *)
(* reactions are two counts whose sum exceeds the largest integer of the *)
(* width, which is 16 bits rather than the code's 32: the wrap is the    *)
(* same and TLC's own integers stay in range.                            *)
EXTENDS MessageOps

CONSTANTS u1, g1, c1   \* a user, a group, a channel

MCMsgIds == {1, 2}
MCTextVals == {"", "hi"}

MCIn(chat) ==
  FromRaw([shape |-> "Message",
           msg |-> [flags |-> {}, id |-> 2, from_id |-> u1, peer_id |-> chat,
                    reply_to |-> NoneVal, message |-> "hi", extra |-> {}]],
          {chat})

MCMsgs == {MCIn(g1), MCIn(c1)}

MCReactions == <<2^15 - 1, 1>>
=============================================================================
