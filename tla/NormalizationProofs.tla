--------------------------- MODULE NormalizationProofs ---------------------------
(***************************************************************************)
(* The invariants of the normalisation check, proved for every set of      *)
(* identifiers, peers, texts, actions and inputs.  Each call of from_raw  *)
(* or from_raw_short_updates is one step that sets `input` and `result`   *)
(* together, so every invariant is inductive on its own: it holds of the  *)
(* initial state vacuously and of the state after the call by what the    *)
(* call returns (lemmas of MessageSnapshotProofs).                         *)
(***************************************************************************)
EXTENDS NormalizationCheck, MessageSnapshotProofs

(* The one call of a behaviour, with its input named. *)
LEMMA CallCases ==
  ASSUME Next
  PROVE  \/ \E w \in WireInputs :
              /\ input' = [fn |-> "from_raw", wire |-> w]
              /\ result' = FromRaw(w, Registry)
         \/ \E a \in AckInputs, i \in SentInputs, c \in Peers :
              /\ input' = [fn |-> "short", ack |-> a, sent |-> i, chat |-> c]
              /\ result' = FromRawShortUpdates(a, i, c)
BY DEF Next, NormalizeWire, NormalizeShortSent

(* A call returns None or a snapshot. *)
LEMMA TypeStep == TypeOK /\ [Next]_vars => TypeOK'
<1> SUFFICES ASSUME TypeOK, [Next]_vars PROVE TypeOK'
  OBVIOUS
<1>1. CASE Next
  BY <1>1, CallCases, FromRawType, ShortSentType, InputsAssumption DEF TypeOK
<1>2. CASE UNCHANGED vars
  BY <1>2 DEF TypeOK, vars
<1> QED
  BY <1>1, <1>2

(* The result of a normalisation is None or a snapshot: from_raw and     *)
(* from_raw_short_updates never build a malformed message.               *)
THEOREM NormalizationTypeCorrect == Spec => []TypeOK
<1>1. Init => TypeOK
  BY DEF Init, TypeOK
<1>2. TypeOK /\ [Next]_vars => TypeOK'
  BY TypeStep
<1> QED
  BY <1>1, <1>2, PTL DEF Spec

(* The contract of section 4.1, for every input of from_raw and of       *)
(* from_raw_short_updates: empty records give None, full messages are    *)
(* kept, service messages get empty text and their action, and sent      *)
(* messages keep their reply target but are never in a forum topic.      *)
THEOREM NormalizationMeetsContract == Spec => []NormalizationContract
<1>1. Init => NormalizationContract
  BY DEF Init, NormalizationContract
<1>2. NormalizationContract /\ [Next]_vars => NormalizationContract'
  <2> SUFFICES ASSUME NormalizationContract, [Next]_vars
               PROVE  NormalizationContract'
    OBVIOUS
  <2>1. ASSUME NEW w \in WireInputs,
               input' = [fn |-> "from_raw", wire |-> w],
               result' = FromRaw(w, Registry)
        PROVE  NormalizationContract'
    <3>1. w \in WireMessages
      BY InputsAssumption
    <3> QED
      BY <2>1, <3>1 DEF NormalizationContract, FromRaw, ServiceAsMessage,
                        WireMessages, Text, Action
  <2>2. ASSUME NEW a \in AckInputs, NEW i \in SentInputs, NEW c \in Peers,
               input' = [fn |-> "short", ack |-> a, sent |-> i, chat |-> c],
               result' = FromRawShortUpdates(a, i, c)
        PROVE  NormalizationContract'
    <3>1. i \in InputMessages
      BY InputsAssumption
    <3>2. CASE i.reply_to = NoneVal
      BY <2>2, <3>2 DEF NormalizationContract, FromRawShortUpdates,
                        ShortReplyHeader, Text, Action, IsForumTopic, TopicId,
                        ReplyToMessageId, Chat, AlwaysFindEntity
    <3>3. CASE i.reply_to # NoneVal
      <4>1. ShortReplyHeader(i.reply_to) # NoneVal
            /\ ShortReplyHeader(i.reply_to).variant \in HeaderVariants
            /\ HeaderTriple(ShortReplyHeader(i.reply_to))
                 = [forum_topic |-> FALSE, top |-> NoneVal, msg |-> i.reply_to]
        <5>1. ShortReplyHeader(i.reply_to) \in ReplyHeaders
          BY <3>1, <3>3 DEF ShortReplyHeader, ReplyHeaders, HeaderVariants,
                            InputMessages, Option
        <5> QED
          BY <3>3, <5>1, ConstantsAssumption
             DEF ShortReplyHeader, HeaderVariants, HeaderTriple
      <4>2. result'.raw.reply_to = ShortReplyHeader(i.reply_to)
        BY <2>2 DEF FromRawShortUpdates
      <4>3. Text(result') = i.text /\ Action(result') = NoneVal
        BY <2>2 DEF FromRawShortUpdates, Text, Action
      <4>4. ~IsForumTopic(result') /\ TopicId(result') = NoneVal
        BY <4>1, <4>2 DEF IsForumTopic, TopicId
      <4>5. ReplyToMessageId(result') = i.reply_to
        BY <4>1, <4>2 DEF ReplyToMessageId
      <4>6. Chat(result').resolved
        BY <2>2 DEF FromRawShortUpdates, Chat, AlwaysFindEntity
      <4> QED
        BY <2>2, <4>3, <4>4, <4>5, <4>6 DEF NormalizationContract
    <3> QED
      BY <3>2, <3>3
  <2>3. CASE UNCHANGED vars
    BY <2>3 DEF NormalizationContract, vars
  <2> QED
    BY <2>1, <2>2, <2>3, CallCases
<1> QED
  BY <1>1, <1>2, PTL DEF Spec

(* topic_id, is_forum_topic, is_in_topic and is_in_topics agree with the *)
(* algorithm of section 4.2 on every normalised message.                  *)
THEOREM TopicResolutionCorrect == Spec => []TopicResolutionMatchesSpec
<1>1. Init => TopicResolutionMatchesSpec
  BY DEF Init, TopicResolutionMatchesSpec
<1>2. TypeOK /\ TopicResolutionMatchesSpec /\ [Next]_vars
        => TopicResolutionMatchesSpec'
  <2> SUFFICES ASSUME TypeOK, TopicResolutionMatchesSpec, [Next]_vars
               PROVE  TopicResolutionMatchesSpec'
    OBVIOUS
  <2>1. TypeOK'
    BY TypeStep
  <2>2. CASE result' # NoneVal
    <3>1. result' \in Snapshots
      BY <2>1, <2>2 DEF TypeOK
    <3> QED
      BY <3>1, TopicIdMatchesSpec, IsForumTopicMatchesSpec, TopicQueriesMatchSpec
         DEF TopicResolutionMatchesSpec
  <2> QED
    BY <2>2 DEF TopicResolutionMatchesSpec
<1>3. Spec => []TypeOK
  BY NormalizationTypeCorrect
<1> QED
  BY <1>1, <1>2, <1>3, PTL DEF Spec
=============================================================================
