--------------------------- MODULE MCDispatcher ---------------------------
(* Dispatcher with topic 1 allowed and seven kinds of update: answered    *)
(* messages in topic 1 (found through reply_to_top_id and through the     *)
(* reply_to_msg_id fallback, and a service message), and unanswered ones: *)
(* topic 2, an outgoing message in topic 1, a header not flagged as a     *)
(* forum topic, and an update that is not a new message.                  *)
EXTENDS Dispatcher

CONSTANTS u1, g1, act1   \* a user, a forum group, a service action

MCMsgIds == {1, 2}
MCTextVals == {"", "hi"}

MCHeader(variant, forum, top, msg) ==
  [variant |-> variant, forum_topic |-> forum,
   reply_to_top_id |-> top, reply_to_msg_id |-> msg]

MCRaw(flags, reply_to) ==
  [flags |-> flags, id |-> 2, from_id |-> NoneVal, peer_id |-> g1,
   reply_to |-> reply_to, message |-> "hi", extra |-> {}]

MCNew(wire) == [kind |-> "NewMessage", message |-> FromRaw(wire, {g1})]

MCUpdateInputs ==
  { MCNew([shape |-> "Message",
           msg |-> MCRaw({}, MCHeader("Header", TRUE, 1, 2))]),
    MCNew([shape |-> "Message",
           msg |-> MCRaw({}, MCHeader("MessageReplyHeader", TRUE, NoneVal, 1))]),
    MCNew([shape |-> "Service",
           msg |-> [flags |-> {}, id |-> 2, from_id |-> u1, peer_id |-> g1,
                    reply_to |-> MCHeader("Header", TRUE, 1, 1),
                    action |-> act1, extra |-> {}]]),
    MCNew([shape |-> "Message",
           msg |-> MCRaw({}, MCHeader("Header", TRUE, 2, 1))]),
    MCNew([shape |-> "Message",
           msg |-> MCRaw({"out"}, MCHeader("Header", TRUE, 1, 2))]),
    MCNew([shape |-> "Message",
           msg |-> MCRaw({}, MCHeader("Header", FALSE, 1, 1))]),
    [kind |-> "Other"] }
=============================================================================
