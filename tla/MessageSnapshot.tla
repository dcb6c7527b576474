--------------------------- MODULE MessageSnapshot ---------------------------
(***************************************************************************)
(* The message snapshot of grammers-client (src/types/message.rs): the     *)
(* three wire shapes a message arrives in, their normalisation into one    *)
(* `Message` value (`from_raw`, `from_raw_short_updates`) and the queries  *)
(* derived from it, topic resolution included.                             *)
(*                                                                         *)
(* Data is abstracted to what the queries tell apart: a Boolean flag of    *)
(* `tl::types::Message` is the presence of its name in `flags`; an         *)
(* optional field whose value no query inspects is the presence of its     *)
(* name in `extra`; the fields queries do inspect (id, from_id, peer_id,   *)
(* reply_to, message) keep their values.  Dates are copied verbatim by     *)
(* every shape and left out.  The module has no variables: it is used by   *)
(* the dispatcher and the normalisation check.                             *)
(***************************************************************************)
EXTENDS FiniteSets

CONSTANTS
  MsgIds,      \* message identifiers (i32) that occur in the model
  UserPeers,   \* values of Peer::User
  GroupPeers,  \* values of Peer::Chat and Peer::Channel
  ActionVals,  \* MessageAction payloads of service messages
  TextVals,    \* message bodies; "" is String::new()
  NoneVal      \* Rust's None

Peers == UserPeers \cup GroupPeers

Option(S) == S \cup {NoneVal}

(* The Boolean fields of tl::types::Message. *)
MessageFlags ==
  {"out", "mentioned", "media_unread", "silent", "post", "from_scheduled",
   "legacy", "edit_hide", "pinned", "noforwards", "invert_media", "offline",
   "video_processing_pending"}

(* The optional fields of tl::types::Message no query of the model reads. *)
ExtraFields ==
  {"from_boosts_applied", "saved_peer_id", "fwd_from", "via_bot_id",
   "via_business_bot_id", "media", "reply_markup", "entities", "views",
   "forwards", "replies", "edit_date", "post_author", "grouped_id",
   "reactions", "restriction_reason", "ttl_period", "quick_reply_shortcut_id",
   "effect", "factcheck", "report_delivery_until_date"}

(* The two reply-header variants that carry the topic fields, and the      *)
(* other variants (a story reply), which `_ =>` arms treat as absent.      *)
HeaderVariants == {"Header", "MessageReplyHeader"}

ReplyHeaders ==
  [variant: HeaderVariants, forum_topic: BOOLEAN,
   reply_to_top_id: Option(MsgIds), reply_to_msg_id: Option(MsgIds)]

StoryHeaders == [variant: {"StoryHeader"}, story_id: MsgIds]

RawMessages ==
  [flags: SUBSET MessageFlags, id: MsgIds, from_id: Option(Peers),
   peer_id: Peers, reply_to: Option(ReplyHeaders \cup StoryHeaders),
   message: TextVals, extra: SUBSET ExtraFields]

(* tl::types::MessageService: the trimmed shape carrying an action. *)
ServiceFlags == {"out", "mentioned", "media_unread", "silent", "post", "legacy"}

ServiceMessages ==
  [flags: SUBSET ServiceFlags, id: MsgIds, from_id: Option(Peers),
   peer_id: Peers, reply_to: Option(ReplyHeaders \cup StoryHeaders),
   action: ActionVals, extra: SUBSET {"ttl_period"}]

(* tl::enums::Message. *)
WireMessages ==
       [shape: {"Empty"}, id: MsgIds]
  \cup [shape: {"Message"}, msg: RawMessages]
  \cup [shape: {"Service"}, msg: ServiceMessages]

(* tl::types::UpdateShortSentMessage, and the InputMessage that was sent. *)
ShortSentAcks ==
  [out: BOOLEAN, id: MsgIds, extra: SUBSET {"media", "entities", "ttl_period"}]

InputMessages ==
  [silent: BOOLEAN, invert_media: BOOLEAN, text: TextVals,
   reply_to: Option(MsgIds), reply_markup: BOOLEAN]

(* struct Message; `chats` is the shared ChatMap, as the set of its peers. *)
Snapshots ==
  [raw: RawMessages, raw_action: Option(ActionVals), chats: SUBSET Peers]

(* None is none of the values an Option can hold. *)
ASSUME ConstantsAssumption ==
  /\ UserPeers \cap GroupPeers = {}
  /\ NoneVal \notin MsgIds \cup Peers \cup ActionVals
  /\ NoneVal \notin ReplyHeaders \cup StoryHeaders
  /\ "" \in TextVals

-----------------------------------------------------------------------------
(* Normalisation. *)

(* Mutant: the reply header of a service message dropped. *)
ServiceAsMessageNoReply(msg) ==
  [flags |-> msg.flags, id |-> msg.id, from_id |-> msg.from_id,
   peer_id |-> msg.peer_id, reply_to |-> NoneVal, message |-> "",
   extra |-> msg.extra]

(* Mutant: the text of a service message defaulted to None. *)
ServiceAsMessageNoText(msg) ==
  [flags |-> msg.flags, id |-> msg.id, from_id |-> msg.from_id,
   peer_id |-> msg.peer_id, reply_to |-> msg.reply_to, message |-> NoneVal,
   extra |-> msg.extra]

(* The service arm of from_raw: copy what the service shape carries and   *)
(* default everything else.                                                *)
ServiceAsMessage(msg) ==
  [flags     |-> msg.flags,
   id        |-> msg.id,
   from_id   |-> msg.from_id,
   peer_id   |-> msg.peer_id,
   reply_to  |-> msg.reply_to,
   message   |-> "",
   extra     |-> msg.extra]

(* Message::from_raw: None for an empty message, else one snapshot. *)
FromRaw(message, chats) ==
  CASE message.shape = "Empty"   -> NoneVal
    [] message.shape = "Message" ->
         [raw |-> message.msg, raw_action |-> NoneVal, chats |-> chats]
    [] message.shape = "Service" ->
         [raw |-> ServiceAsMessage(message.msg),
          raw_action |-> message.msg.action, chats |-> chats]

(* The reply header from_raw_short_updates synthesises from the local     *)
(* reply target: never flagged as a forum topic.                           *)
ShortReplyHeader(reply_to) ==
  IF reply_to = NoneVal THEN NoneVal
  ELSE [variant |-> "Header", forum_topic |-> FALSE,
        reply_to_top_id |-> NoneVal, reply_to_msg_id |-> reply_to]

(* Message::from_raw_short_updates: the acknowledgment of a local send. *)
FromRawShortUpdates(updates, input, chat) ==
  [raw |-> [flags    |-> {f \in {"out", "silent", "invert_media"} :
                            \/ f = "out" /\ updates.out
                            \/ f = "silent" /\ input.silent
                            \/ f = "invert_media" /\ input.invert_media},
            id       |-> updates.id,
            from_id  |-> NoneVal,
            peer_id  |-> chat,
            reply_to |-> ShortReplyHeader(input.reply_to),
            message  |-> input.text,
            extra    |-> updates.extra \cup
                           (IF input.reply_markup THEN {"reply_markup"} ELSE {})],
   raw_action |-> NoneVal,
   chats |-> {chat}]

-----------------------------------------------------------------------------
(* Queries. *)

(* outgoing(), mentioned(), silent(), pinned(), ...: one flag each. *)
Flag(m, f) == f \in m.raw.flags

Outgoing(m) == Flag(m, "out")

Text(m) == m.raw.message

Action(m) == m.raw_action

(* utils::always_find_entity: the chat from the map, or a minimal stand-in *)
(* unpacked from the peer when the response did not include it.           *)
AlwaysFindEntity(peer, chats) == [peer |-> peer, resolved |-> peer \in chats]

Chat(m) == AlwaysFindEntity(m.raw.peer_id, m.chats)

(* sender(): from_id, or for incoming private messages the chat itself. *)
Sender(m) ==
  LET from == IF m.raw.from_id # NoneVal THEN m.raw.from_id
              ELSE IF ~Outgoing(m) /\ m.raw.peer_id \in UserPeers
                   THEN m.raw.peer_id ELSE NoneVal
  IN  IF from = NoneVal THEN NoneVal ELSE AlwaysFindEntity(from, m.chats)

(* The (forum_topic, reply_to_top_id, reply_to_msg_id) triple the          *)
(* `match header` arms extract; `_ => (false, None, None)`.                *)
HeaderTriple(h) ==
  IF h.variant \in HeaderVariants
  THEN [forum_topic |-> h.forum_topic, top |-> h.reply_to_top_id,
        msg |-> h.reply_to_msg_id]
  ELSE [forum_topic |-> FALSE, top |-> NoneVal, msg |-> NoneVal]

ReplyToMessageId(m) ==
  IF m.raw.reply_to = NoneVal THEN NoneVal
  ELSE HeaderTriple(m.raw.reply_to).msg

IsForumTopic(m) ==
  m.raw.reply_to # NoneVal /\ HeaderTriple(m.raw.reply_to).forum_topic

(* Mutant: reply_to_msg_id tried before reply_to_top_id. *)
TopicIdMsgFirst(m) ==
  IF m.raw.reply_to = NoneVal THEN NoneVal
  ELSE LET t == HeaderTriple(m.raw.reply_to)
       IN  IF ~t.forum_topic THEN NoneVal
           ELSE IF t.msg # NoneVal THEN t.msg
           ELSE t.top

(* topic_id(): reply_to_top_id if present, else reply_to_msg_id, and only *)
(* for a header flagged forum_topic.                                       *)
TopicId(m) ==
  IF m.raw.reply_to = NoneVal THEN NoneVal
  ELSE LET t == HeaderTriple(m.raw.reply_to)
       IN  IF ~t.forum_topic THEN NoneVal
           ELSE IF t.top # NoneVal THEN t.top
           ELSE t.msg

IsInTopic(m, topic_id) ==
  LET id == TopicId(m) IN id # NoneVal /\ id = topic_id

IsInTopics(m, topic_ids) ==
  LET id == TopicId(m) IN id # NoneVal /\ id \in topic_ids

-----------------------------------------------------------------------------
(* Reference definitions from the specification (section 4.2), against    *)
(* which the code's topic resolution is checked.                           *)

(* ReplyDescriptor: the three fields of either header shape; no           *)
(* descriptor when the message has no header carrying them.               *)
Descriptor(m) ==
  IF m.raw.reply_to = NoneVal \/ m.raw.reply_to.variant \notin HeaderVariants
  THEN NoneVal
  ELSE m.raw.reply_to

(* The four numbered steps of the topic-resolution algorithm. *)
SpecTopicId(m) ==
  LET d == Descriptor(m) IN
  IF d = NoneVal \/ ~d.forum_topic THEN NoneVal     \* step 1
  ELSE IF d.reply_to_top_id # NoneVal THEN d.reply_to_top_id  \* step 2
  ELSE IF d.reply_to_msg_id # NoneVal THEN d.reply_to_msg_id  \* step 3
  ELSE NoneVal                                       \* step 4
=============================================================================
