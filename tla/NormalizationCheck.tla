-------------------------- MODULE NormalizationCheck --------------------------
(***************************************************************************)
(* Checks the normalisation and topic resolution of MessageSnapshot over   *)
(* bounded inputs: each step normalises one wire record (from_raw) or one  *)
(* send acknowledgment (from_raw_short_updates) and keeps the input beside *)
(* the result, so that invariants can relate the two.                      *)
(***************************************************************************)
EXTENDS MessageSnapshot

CONSTANTS
  WireInputs,   \* the tl::enums::Message records fed to from_raw
  AckInputs,    \* the UpdateShortSentMessage acknowledgments
  SentInputs,   \* the InputMessages those acknowledge
  Registry      \* the ChatMap of the response, as a set of peers

ASSUME InputsAssumption ==
  /\ WireInputs \subseteq WireMessages
  /\ AckInputs \subseteq ShortSentAcks
  /\ SentInputs \subseteq InputMessages
  /\ Registry \subseteq Peers

VARIABLES
  input,    \* the last record normalised, tagged with the function used
  result    \* what that function returned

vars == <<input, result>>

Init ==
  /\ input = NoneVal
  /\ result = NoneVal

(* Message::from_raw on one record of a server response.  Each behaviour  *)
(* makes one call: the functions are pure, so one call per input suffices *)
(* and the behaviour ends there.                                           *)
NormalizeWire ==
  /\ input = NoneVal
  /\ \E w \in WireInputs :
       /\ input' = [fn |-> "from_raw", wire |-> w]
       /\ result' = FromRaw(w, Registry)

(* Message::from_raw_short_updates on the acknowledgment of a local send. *)
NormalizeShortSent ==
  /\ input = NoneVal
  /\ \E a \in AckInputs, i \in SentInputs, c \in Peers :
       /\ input' = [fn |-> "short", ack |-> a, sent |-> i, chat |-> c]
       /\ result' = FromRawShortUpdates(a, i, c)

Next == NormalizeWire \/ NormalizeShortSent

Spec == Init /\ [][Next]_vars

-----------------------------------------------------------------------------
(* The result of normalisation is None or a snapshot. *)
TypeOK ==
  result \in Snapshots \cup {NoneVal}

(* Section 4.1 of the specification: an empty record yields no snapshot;  *)
(* a full message is copied with no action; a service message gets empty  *)
(* text, its action, and every field the service shape lacks defaulted    *)
(* while those it has are kept; a send acknowledgment gets the local      *)
(* reply target but is never flagged as a forum topic, and its chat is    *)
(* always found in the snapshot's own registry (section 4.4).             *)
NormalizationContract ==
  input # NoneVal =>
    IF input.fn = "from_raw"
    THEN CASE input.wire.shape = "Empty" -> result = NoneVal
           [] input.wire.shape = "Message" ->
                /\ result.raw = input.wire.msg
                /\ Action(result) = NoneVal
           [] input.wire.shape = "Service" ->
                LET s == input.wire.msg IN
                /\ Text(result) = ""
                /\ Action(result) = s.action
                /\ result.raw.flags = s.flags
                /\ result.raw.extra = s.extra
                /\ result.raw.id = s.id
                /\ result.raw.reply_to = s.reply_to
                /\ result.raw.from_id = s.from_id
                /\ result.raw.peer_id = s.peer_id
    ELSE /\ Text(result) = input.sent.text
         /\ Action(result) = NoneVal
         /\ ~IsForumTopic(result)
         /\ TopicId(result) = NoneVal
         /\ ReplyToMessageId(result) = input.sent.reply_to
         /\ Chat(result).resolved

(* Section 4.2 and the topic properties of section 8: topic_id,           *)
(* is_in_topic and is_in_topics agree with the specification's algorithm *)
(* on every snapshot and every topic set, the empty set included.         *)
TopicResolutionMatchesSpec ==
  result # NoneVal =>
    /\ TopicId(result) = SpecTopicId(result)
    /\ IsForumTopic(result) = (Descriptor(result) # NoneVal
                               /\ Descriptor(result).forum_topic)
    /\ \A t \in MsgIds : IsInTopic(result, t) = (SpecTopicId(result) = t)
    /\ \A ts \in SUBSET MsgIds :
         IsInTopics(result, ts) = (SpecTopicId(result) \in ts)
=============================================================================
