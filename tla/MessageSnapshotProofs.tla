-------------------------- MODULE MessageSnapshotProofs --------------------------
(***************************************************************************)
(* Facts about the normalisation and topic resolution of message.rs that   *)
(* hold for every value of the constants: what from_raw and                *)
(* from_raw_short_updates return, and that topic_id, is_forum_topic and    *)
(* is_in_topics compute the specification's algorithm (section 4.2).      *)
(***************************************************************************)
EXTENDS MessageSnapshot, TLAPS

(* The code's topic_id agrees with the specification's algorithm on      *)
(* every snapshot.                                                        *)
LEMMA TopicIdMatchesSpec ==
  ASSUME NEW m \in Snapshots
  PROVE  TopicId(m) = SpecTopicId(m)
<1> DEFINE h == m.raw.reply_to
<1>1. h \in Option(ReplyHeaders \cup StoryHeaders)
  BY DEF Snapshots, RawMessages
<1>2. CASE h = NoneVal
  BY <1>2 DEF TopicId, SpecTopicId, Descriptor
<1>3. CASE h \in ReplyHeaders
  <2>1. h # NoneVal /\ h.variant \in HeaderVariants
    BY <1>3, ConstantsAssumption DEF ReplyHeaders
  <2>2. Descriptor(m) = h
    BY <2>1 DEF Descriptor
  <2>3. HeaderTriple(h) = [forum_topic |-> h.forum_topic,
                           top |-> h.reply_to_top_id, msg |-> h.reply_to_msg_id]
    BY <2>1 DEF HeaderTriple
  <2>4. h.reply_to_msg_id \in Option(MsgIds)
    BY <1>3 DEF ReplyHeaders
  <2> QED
    BY <2>1, <2>2, <2>3, <2>4 DEF TopicId, SpecTopicId, Option
<1>4. CASE h \in StoryHeaders
  <2>1. h # NoneVal /\ h.variant \notin HeaderVariants
    BY <1>4, ConstantsAssumption DEF StoryHeaders, HeaderVariants
  <2> QED
    BY <2>1 DEF TopicId, SpecTopicId, Descriptor, HeaderTriple
<1> QED
  BY <1>1, <1>2, <1>3, <1>4 DEF Option

(* is_forum_topic is the flag of the descriptor, false without one. *)
LEMMA IsForumTopicMatchesSpec ==
  ASSUME NEW m \in Snapshots
  PROVE  IsForumTopic(m) = (Descriptor(m) # NoneVal /\ Descriptor(m).forum_topic)
<1> DEFINE h == m.raw.reply_to
<1>1. h \in Option(ReplyHeaders \cup StoryHeaders)
  BY DEF Snapshots, RawMessages
<1>2. CASE h = NoneVal
  BY <1>2 DEF IsForumTopic, Descriptor
<1>3. CASE h \in ReplyHeaders
  <2>1. h # NoneVal /\ h.variant \in HeaderVariants
    BY <1>3, ConstantsAssumption DEF ReplyHeaders
  <2> QED
    BY <2>1 DEF IsForumTopic, Descriptor, HeaderTriple
<1>4. CASE h \in StoryHeaders
  <2>1. h # NoneVal /\ h.variant \notin HeaderVariants
    BY <1>4, ConstantsAssumption DEF StoryHeaders, HeaderVariants
  <2> QED
    BY <2>1 DEF IsForumTopic, Descriptor, HeaderTriple
<1> QED
  BY <1>1, <1>2, <1>3, <1>4 DEF Option

(* The topic a snapshot resolves to is an identifier or None. *)
LEMMA SpecTopicIdType ==
  ASSUME NEW m \in Snapshots
  PROVE  SpecTopicId(m) \in Option(MsgIds)
<1> DEFINE h == m.raw.reply_to
<1>1. h \in Option(ReplyHeaders \cup StoryHeaders)
  BY DEF Snapshots, RawMessages
<1>2. CASE h \in ReplyHeaders
  <2>1. h # NoneVal /\ h.variant \in HeaderVariants
    BY <1>2, ConstantsAssumption DEF ReplyHeaders
  <2> QED
    BY <1>2, <2>1 DEF SpecTopicId, Descriptor, ReplyHeaders, Option
<1> QED
  BY <1>1, <1>2 DEF SpecTopicId, Descriptor, Option, StoryHeaders, HeaderVariants

(* is_in_topic and is_in_topics are the specification's equality and     *)
(* membership tests, false when there is no topic.                        *)
LEMMA TopicQueriesMatchSpec ==
  ASSUME NEW m \in Snapshots
  PROVE  /\ \A t \in MsgIds : IsInTopic(m, t) = (SpecTopicId(m) = t)
         /\ \A ts \in SUBSET MsgIds : IsInTopics(m, ts) = (SpecTopicId(m) \in ts)
<1>1. TopicId(m) = SpecTopicId(m)
  BY TopicIdMatchesSpec
<1>2. NoneVal \notin MsgIds
  BY ConstantsAssumption
<1> QED
  BY <1>1, <1>2 DEF IsInTopic, IsInTopics

(* from_raw returns None or a snapshot. *)
LEMMA FromRawType ==
  ASSUME NEW w \in WireMessages, NEW chats \in SUBSET Peers
  PROVE  FromRaw(w, chats) \in Snapshots \cup {NoneVal}
<1>1. CASE w.shape = "Empty"
  BY <1>1 DEF FromRaw
<1>2. CASE w.shape = "Message"
  BY <1>2 DEF FromRaw, WireMessages, Snapshots, Option
<1>3. CASE w.shape = "Service"
  <2>1. w.msg \in ServiceMessages
    BY <1>3 DEF WireMessages
  <2>2. ServiceAsMessage(w.msg) \in RawMessages
    BY <2>1, ConstantsAssumption
       DEF ServiceAsMessage, ServiceMessages, RawMessages, ServiceFlags,
           MessageFlags, ExtraFields
  <2> QED
    BY <1>3, <2>1, <2>2 DEF FromRaw, Snapshots, ServiceMessages, Option
<1> QED
  BY <1>1, <1>2, <1>3 DEF WireMessages

(* from_raw_short_updates returns a snapshot. *)
LEMMA ShortSentType ==
  ASSUME NEW a \in ShortSentAcks, NEW i \in InputMessages, NEW c \in Peers
  PROVE  FromRawShortUpdates(a, i, c) \in Snapshots
<1>1. ShortReplyHeader(i.reply_to) \in Option(ReplyHeaders \cup StoryHeaders)
  BY DEF ShortReplyHeader, InputMessages, ReplyHeaders, HeaderVariants, Option
<1> QED
  BY <1>1 DEF FromRawShortUpdates, Snapshots, RawMessages, ShortSentAcks,
             InputMessages, MessageFlags, ExtraFields, Option
=============================================================================
