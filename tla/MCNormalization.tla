------------------------- MODULE MCNormalization -------------------------
(* Bounded inputs for NormalizationCheck: two message ids, one user and  *)
(* one group peer, and every reply header over those ids.                *)
EXTENDS NormalizationCheck

MCMsgIds == {1, 2}
MCTextVals == {"", "hi"}

(* Flag and field sets that tell the shapes apart: none, the ones the    *)
(* service shape carries, and ones only the full shape has.              *)
MCFlagSets == {{}, {"out", "legacy"}, {"pinned", "from_scheduled"}}
MCExtraSets == {{}, {"ttl_period"}, {"media", "views"}}

MCReplyTo == Option(ReplyHeaders \cup StoryHeaders)

MCWireInputs ==
       [shape: {"Empty"}, id: MsgIds]
  \cup [shape: {"Message"},
        msg: [flags: MCFlagSets, id: MsgIds, from_id: Option(Peers),
              peer_id: Peers, reply_to: MCReplyTo, message: TextVals,
              extra: MCExtraSets]]
  \cup [shape: {"Service"},
        msg: [flags: {f \cap ServiceFlags : f \in MCFlagSets}, id: MsgIds,
              from_id: Option(Peers), peer_id: Peers, reply_to: MCReplyTo,
              action: ActionVals, extra: {{}, {"ttl_period"}}]]

MCAckInputs == [out: BOOLEAN, id: MsgIds, extra: {{}, {"media"}}]

MCSentInputs ==
  [silent: BOOLEAN, invert_media: {FALSE}, text: TextVals,
   reply_to: Option(MsgIds), reply_markup: BOOLEAN]
=============================================================================
