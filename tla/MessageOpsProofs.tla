---------------------------- MODULE MessageOpsProofs ----------------------------
(***************************************************************************)
(* Every request the outbound methods of a Message make is about the      *)
(* snapshot's own message, for every set of snapshots, chats, album sizes *)
(* and counts of calls.  The snapshot a handler holds never changes and   *)
(* requests are only ever added, so the invariant is inductive as it      *)
(* stands: each method adds one request, and each request is built by Req  *)
(* from the snapshot's chat and id.                                        *)
(***************************************************************************)
EXTENDS MessageOps, TLAPS

(* What RequestsTargetSnapshot asks of one request. *)
Targets(q) ==
  /\ q.chat = msg.raw.peer_id /\ q.id = msg.raw.id
  /\ q.fn = "forward_messages" => q.to \in Dests
  /\ q.op \in {"reply", "reply_album"} =>
       q.replies # <<>> /\ q.replies[1] = msg.raw.id
  /\ q.op = "mark_as_read" =>
       (q.fn = "channels.ReadHistory" <=> msg.raw.peer_id \in ChannelPeers)

LEMMA TargetsAll == RequestsTargetSnapshot <=> \A q \in reqs : Targets(q)
BY DEF RequestsTargetSnapshot, Targets

(* A request built by Req names the snapshot's chat and message. *)
LEMMA ReqTargets ==
  ASSUME NEW op, NEW fn, NEW to, NEW replies,
         fn = "forward_messages" => to \in Dests,
         op \in {"reply", "reply_album"} =>
           replies # <<>> /\ replies[1] = msg.raw.id,
         op = "mark_as_read" =>
           (fn = "channels.ReadHistory" <=> msg.raw.peer_id \in ChannelPeers)
  PROVE  Targets(Req(op, fn, to, replies))
BY DEF Targets, Req, Peer, Id, Chat, AlwaysFindEntity

(* One method call that sends nothing, or sends a request of the         *)
(* snapshot, keeps the invariant.                                          *)
LEMMA CallKeeps ==
  ASSUME RequestsTargetSnapshot, NEW op, NEW req, NEW r, NEW v,
         CallValue(op, req, r, v),
         req # NoneVal => Targets(req)
  PROVE  RequestsTargetSnapshot'
<1>1. msg' = msg /\ reqs' = IF req = NoneVal THEN reqs ELSE reqs \cup {req}
  BY DEF CallValue
<1>2. \A q \in reqs : Targets(q)
  BY TargetsAll
<1>3. \A q \in reqs' : Targets(q)'
  BY <1>1, <1>2 DEF Targets
<1> QED
  BY <1>3 DEF RequestsTargetSnapshot, Targets

(* reply_album: the first media of a non-empty album answers the message. *)
LEMMA AlbumFirst ==
  ASSUME NEW medias \in AlbumInputs, medias # <<>>
  PROVE  /\ [medias EXCEPT ![1] = Id] # <<>>
         /\ [medias EXCEPT ![1] = Id][1] = msg.raw.id
<1>1. PICK n \in 0..MaxAlbum : medias \in [1..n -> Option(MsgIds)]
  BY DEF AlbumInputs
<1>2. n # 0
  <2>1. SUFFICES ASSUME n = 0 PROVE FALSE
    OBVIOUS
  <2>2. medias = <<>>
    BY <1>1, <2>1
  <2> QED
    BY <2>2
<1>3. 1 \in DOMAIN medias /\ DOMAIN [medias EXCEPT ![1] = Id] = 1..n
  BY <1>1, <1>2, MessageOpsAssumption
<1>4. DOMAIN <<>> = {}
  OBVIOUS
<1> QED
  BY <1>3, <1>4 DEF Id

-----------------------------------------------------------------------------
(* The methods that send one request built by Req with no destination and *)
(* no reply target taken from the snapshot.                                *)
LEMMA PlainCallKeeps ==
  ASSUME RequestsTargetSnapshot,
         \/ GetReply \/ Respond \/ RespondAlbum \/ Edit \/ Delete
         \/ Pin \/ Unpin \/ React \/ Refetch
  PROVE  RequestsTargetSnapshot'
<1> DEFINE Plain(op, fn, replies) == Req(op, fn, NoneVal, replies)
<1>1. ASSUME NEW op, NEW fn, NEW replies,
             op \notin {"reply", "reply_album", "mark_as_read"},
             fn # "forward_messages",
             NEW r, CallValue(op, Plain(op, fn, replies), r, NoneVal)
      PROVE  RequestsTargetSnapshot'
  <2>1. Targets(Plain(op, fn, replies))
    BY <1>1, ReqTargets
  <2> QED
    BY <1>1, <2>1, CallKeeps
<1> QED
  BY <1>1 DEF GetReply, Respond, RespondAlbum, Edit, Delete, Pin, Unpin,
              React, Refetch, Call

(* reply overrides the reply target with the message's own id. *)
LEMMA ReplyKeeps ==
  ASSUME RequestsTargetSnapshot, Reply
  PROVE  RequestsTargetSnapshot'
<1>1. Targets(Req("reply", "send_message", NoneVal, <<Id>>))
  BY ReqTargets DEF Id
<1> QED
  BY <1>1, CallKeeps DEF Reply, Call

(* reply_album panics on an empty album, sending nothing. *)
LEMMA ReplyAlbumKeeps ==
  ASSUME RequestsTargetSnapshot, ReplyAlbum
  PROVE  RequestsTargetSnapshot'
<1>1. PICK medias \in AlbumInputs, r \in {"ok", "err"} :
        IF medias = <<>>
        THEN Call("reply_album", NoneVal, "panic")
        ELSE Call("reply_album",
                  Req("reply_album", "send_album", NoneVal,
                      [medias EXCEPT ![1] = Id]), r)
  BY DEF ReplyAlbum
<1>2. CASE medias = <<>>
  BY <1>1, <1>2, CallKeeps DEF Call
<1>3. CASE medias # <<>>
  <2>1. Targets(Req("reply_album", "send_album", NoneVal, [medias EXCEPT ![1] = Id]))
    BY <1>3, AlbumFirst, ReqTargets
  <2> QED
    BY <1>1, <1>3, <2>1, CallKeeps DEF Call
<1> QED
  BY <1>2, <1>3

(* forward_to sends from the snapshot's chat to one of the destinations. *)
LEMMA ForwardKeeps ==
  ASSUME RequestsTargetSnapshot, ForwardTo
  PROVE  RequestsTargetSnapshot'
<1>1. PICK c \in Dests, r \in {"ok", "err"} :
        Call("forward_to", Req("forward_to", "forward_messages", c, <<>>), r)
  BY DEF ForwardTo
<1>2. Targets(Req("forward_to", "forward_messages", c, <<>>))
  BY ReqTargets
<1> QED
  BY <1>1, <1>2, CallKeeps DEF Call

(* mark_as_read picks the channel form exactly for channels. *)
LEMMA MarkKeeps ==
  ASSUME RequestsTargetSnapshot, MarkAsRead
  PROVE  RequestsTargetSnapshot'
<1> DEFINE fn == IF Peer \in ChannelPeers THEN "channels.ReadHistory"
                 ELSE "messages.ReadHistory"
<1>1. PICK r \in {"ok", "err"} : Call("mark_as_read", Req("mark_as_read", fn, NoneVal, <<>>), r)
  BY DEF MarkAsRead
<1>2. Targets(Req("mark_as_read", fn, NoneVal, <<>>))
  BY ReqTargets DEF Peer, Chat, AlwaysFindEntity
<1> QED
  BY <1>1, <1>2, CallKeeps DEF Call

(* reaction_count sends nothing; another client's delete changes no       *)
(* request.                                                                 *)
LEMMA LocalKeeps ==
  ASSUME RequestsTargetSnapshot, ReactionCount \/ DeletedElsewhere \/ UNCHANGED vars
  PROVE  RequestsTargetSnapshot'
<1>1. UNCHANGED <<msg, reqs>>
  BY DEF ReactionCount, DeletedElsewhere, CallValue, vars
<1> QED
  BY <1>1 DEF RequestsTargetSnapshot

(* Whatever methods a handler calls, in whatever order, and whatever the *)
(* client answers or other clients do, every request names the snapshot's *)
(* chat and message, forwards go to a chosen chat, reply and reply_album  *)
(* answer the message, and mark_as_read takes the channel form exactly    *)
(* for channels (message.rs, 645-779).                                    *)
THEOREM RequestsAreAboutSnapshot == Spec => []RequestsTargetSnapshot
<1>1. Init => RequestsTargetSnapshot
  BY DEF Init, RequestsTargetSnapshot
<1>2. RequestsTargetSnapshot /\ [Next]_vars => RequestsTargetSnapshot'
  BY PlainCallKeeps, ReplyKeeps, ReplyAlbumKeeps, ForwardKeeps, MarkKeeps,
     LocalKeeps DEF Next
<1> QED
  BY <1>1, <1>2, PTL DEF Spec
=============================================================================
