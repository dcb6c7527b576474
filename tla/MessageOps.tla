------------------------------ MODULE MessageOps ------------------------------
(***************************************************************************)
(* The outbound operations of a Message (message.rs, lines 463-471 and     *)
(* 645-789) and reaction_count (474-490), called by a handler task on the  *)
(* snapshot `msg` it holds.                                                *)
(*                                                                         *)
(* Each method is a shorthand: it builds one request to the client and     *)
(* maps the client's answer.  A step is one whole method: the request it   *)
(* sends (`reqs`) and what the method returns (`last`): Ok, the Err the    *)
(* client answered, or a panic of the method's own unwrap or todo!.  The  *)
(* client and the server are collaborators outside src/: their answers are *)
(* every answer their contract allows.  Another client may delete the      *)
(* message at any time.  A task that panicked runs no more.                *)
(***************************************************************************)
EXTENDS MessageSnapshot, Integers, Sequences

CONSTANTS
  Msgs,          \* the snapshots a handler may hold
  ChannelPeers,  \* the peers that are channels (try_to_input_channel)
  Dests,         \* chats a message may be forwarded to
  MaxAlbum,      \* the largest album the handler sends
  MaxCalls,      \* how many methods the handler calls
  Reactions,     \* raw.reactions of msg: None, or the counts of its results
  IntWidth,      \* the width of the counts' integer type (i32: 32)
  Builds         \* the profiles the program may be built with

ASSUME MessageOpsAssumption ==
  /\ Msgs \subseteq Snapshots /\ Msgs # {}
  /\ ChannelPeers \subseteq GroupPeers
  /\ Dests \subseteq Peers /\ Dests # {}
  /\ MaxAlbum \in Nat /\ MaxCalls \in Nat
  /\ IntWidth \in Nat \ {0}
  /\ Reactions \in Option(Seq(0..(2^(IntWidth - 1) - 1)))
  /\ Builds \subseteq {"debug", "release"} /\ Builds # {}

Methods ==
  {"get_reply", "respond", "respond_album", "reply", "reply_album",
   "forward_to", "edit", "delete", "mark_as_read", "pin", "unpin", "react",
   "refetch", "reaction_count"}

(* The reply_to of each InputMedia of an album, or of one InputMessage. *)
AlbumInputs == UNION {[1..n -> Option(MsgIds)] : n \in 0..MaxAlbum}

(* A call to the client: the method that made it, the client function,   *)
(* the chat and message it names, the destination of a forward, and the *)
(* reply_to of each message it sends.                                      *)
ClientCalls ==
  {"get_reply_to_message", "send_message", "send_album",
   "forward_messages", "edit_message", "delete_messages",
   "channels.ReadHistory", "messages.ReadHistory", "pin_message",
   "unpin_message", "get_messages_by_id", "send_reactions"}

Results == {"ok", "err", "panic"}

VARIABLES
  msg,    \* the snapshot the handler holds (never changes)
  alive,  \* the message still exists on the server
  reqs,   \* the requests the handler has made
  last,   \* the method last called, what it returned, and the count value
  calls   \* how many methods the handler has called

vars == <<msg, alive, reqs, last, calls>>

(* self.chat(), as the packed peer the client is given, and self.raw.id. *)
Peer == Chat(msg).peer
Id == msg.raw.id

Req(op, fn, to, replies) ==
  [op |-> op, fn |-> fn, chat |-> Peer, id |-> Id, to |-> to, replies |-> replies]

Init ==
  /\ msg \in Msgs
  /\ alive = TRUE
  /\ reqs = {}
  /\ last = [op |-> "none", res |-> "ok", count |-> NoneVal]
  /\ calls = 0

(* One call of method `op`: the handler has not panicked and has calls    *)
(* left; the method sends `req` (NoneVal: none) and returns `r` and `v`.  *)
CallValue(op, req, r, v) ==
  /\ last.res # "panic"
  /\ calls < MaxCalls
  /\ calls' = calls + 1
  /\ reqs' = IF req = NoneVal THEN reqs ELSE reqs \cup {req}
  /\ last' = [op |-> op, res |-> r, count |-> v]
  /\ UNCHANGED msg

Call(op, req, r) == CallValue(op, req, r, NoneVal)

-----------------------------------------------------------------------------
(* get_reply: client.get_reply_to_message(self). *)
GetReply ==
  \E r \in {"ok", "err"} :
    /\ Call("get_reply", Req("get_reply", "get_reply_to_message", NoneVal, <<>>), r)
    /\ UNCHANGED alive

(* respond: send_message to self.chat(), the message as given. *)
Respond ==
  \E rt \in Option(MsgIds), r \in {"ok", "err"} :
    /\ Call("respond", Req("respond", "send_message", NoneVal, <<rt>>), r)
    /\ UNCHANGED alive

(* respond_album: send_album to self.chat(), the medias as given. *)
RespondAlbum ==
  \E medias \in AlbumInputs, r \in {"ok", "err"} :
    /\ Call("respond_album", Req("respond_album", "send_album", NoneVal, medias), r)
    /\ UNCHANGED alive

(* reply: whatever reply_to the message had is overridden with          *)
(* self.raw.id.                                                            *)
Reply ==
  \E r \in {"ok", "err"} :
    /\ Call("reply", Req("reply", "send_message", NoneVal, <<Id>>), r)
    /\ UNCHANGED alive

(* Mutant: the album sent with self.raw.id put in front of the medias. *)
ReplyAlbumPrepends ==
  \E medias \in AlbumInputs, r \in {"ok", "err"} :
    /\ Call("reply_album", Req("reply_album", "send_album", NoneVal, <<Id>> \o medias), r)
    /\ UNCHANGED alive

(* reply_album: medias.first_mut().unwrap() panics on an empty album;     *)
(* otherwise the first media's reply_to becomes self.raw.id.              *)
ReplyAlbum ==
  \E medias \in AlbumInputs, r \in {"ok", "err"} :
    /\ IF medias = <<>>
       THEN Call("reply_album", NoneVal, "panic")
       ELSE Call("reply_album",
                 Req("reply_album", "send_album", NoneVal,
                     [medias EXCEPT ![1] = Id]), r)
    /\ UNCHANGED alive

(* Mutant: forward_messages given the two chats the other way round. *)
ForwardToSwapped ==
  \E c \in Dests, r \in {"ok", "err"} :
    /\ alive \/ r = "err"
    /\ Call("forward_to",
            [op |-> "forward_to", fn |-> "forward_messages", chat |-> c,
             id |-> Id, to |-> Peer, replies |-> <<>>], r)
    /\ UNCHANGED alive

(* forward_to: forward_messages(chat, [self.raw.id], self.chat()), then   *)
(* msgs.pop().unwrap().unwrap().  The client's contract (lines 707-708):  *)
(* a single forward that fails is an RPC error, so Ok holds one message.  *)
ForwardTo ==
  \E c \in Dests, r \in {"ok", "err"} :
    /\ alive \/ r = "err"
    /\ Call("forward_to", Req("forward_to", "forward_messages", c, <<>>), r)
    /\ UNCHANGED alive

(* edit: edit_message(self.chat(), self.raw.id, new_message). *)
Edit ==
  \E r \in {"ok", "err"} :
    /\ Call("edit", Req("edit", "edit_message", NoneVal, <<>>), r)
    /\ UNCHANGED alive

(* delete: delete_messages(self.chat(), [self.raw.id]).map(drop). *)
Delete ==
  \E r \in {"ok", "err"} :
    /\ Call("delete", Req("delete", "delete_messages", NoneVal, <<>>), r)
    /\ alive' = (alive /\ r = "err")

(* mark_as_read: channels::ReadHistory when the packed chat is a channel, *)
(* messages::ReadHistory otherwise, with max_id = self.raw.id.            *)
MarkAsRead ==
  \E r \in {"ok", "err"} :
    /\ Call("mark_as_read",
            Req("mark_as_read",
                IF Peer \in ChannelPeers THEN "channels.ReadHistory"
                ELSE "messages.ReadHistory", NoneVal, <<>>), r)
    /\ UNCHANGED alive

(* pin, unpin: pin_message / unpin_message(self.chat(), self.raw.id). *)
Pin ==
  \E r \in {"ok", "err"} :
    /\ Call("pin", Req("pin", "pin_message", NoneVal, <<>>), r)
    /\ UNCHANGED alive

Unpin ==
  \E r \in {"ok", "err"} :
    /\ Call("unpin", Req("unpin", "unpin_message", NoneVal, <<>>), r)
    /\ UNCHANGED alive

(* react: send_reactions(self.chat(), self.id(), reactions).await?. *)
React ==
  \E r \in {"ok", "err"} :
    /\ Call("react", Req("react", "send_reactions", NoneVal, <<>>), r)
    /\ UNCHANGED alive

(* refetch: get_messages_by_id(self.chat(), [self.raw.id]).await? gives   *)
(* [Some(message)], or [None] for a deleted one (messageEmpty, which      *)
(* from_raw maps to None); .pop().unwrap().unwrap() panics on None, and   *)
(* on Some the method reaches todo!.  Only the Err of `?` returns.        *)
Refetch ==
  \E r \in {"err", "panic"} :
    /\ Call("refetch", Req("refetch", "get_messages_by_id", NoneVal, <<>>), r)
    /\ UNCHANGED alive

(* The largest i32 at the width, and two's-complement wrapping. *)
MaxInt == 2^(IntWidth - 1) - 1
Wrap(x) == ((x + 2^(IntWidth - 1)) % 2^IntWidth) - 2^(IntWidth - 1)

(* Iterator::sum of the counts: added one by one from the first, from 0. *)
Total(counts) ==
  LET sum[n \in 0..Len(counts)] == IF n = 0 THEN 0 ELSE sum[n - 1] + counts[n]
  IN  sum[Len(counts)]

(* reaction_count: None without reactions, else the .sum() of the i32   *)
(* counts.  An overflowing add panics in a debug build and wraps in a    *)
(* release build.                                                          *)
ReactionCount ==
  /\ IF Reactions = NoneVal
     THEN CallValue("reaction_count", NoneVal, "ok", NoneVal)
     ELSE LET total == Total(Reactions)
          IN  \E b \in Builds :
                IF total <= MaxInt
                THEN CallValue("reaction_count", NoneVal, "ok", total)
                ELSE IF b = "debug"
                THEN CallValue("reaction_count", NoneVal, "panic", NoneVal)
                ELSE CallValue("reaction_count", NoneVal, "ok", Wrap(total))
  /\ UNCHANGED alive

(* Another client deletes the message. *)
DeletedElsewhere ==
  /\ alive
  /\ alive' = FALSE
  /\ UNCHANGED <<msg, reqs, last, calls>>

Next ==
  \/ GetReply \/ Respond \/ RespondAlbum \/ Reply \/ ReplyAlbum
  \/ ForwardTo \/ Edit \/ Delete \/ MarkAsRead \/ Pin \/ Unpin \/ React
  \/ Refetch \/ ReactionCount \/ DeletedElsewhere

Spec == Init /\ [][Next]_vars

-----------------------------------------------------------------------------
TypeOK ==
  /\ msg \in Msgs
  /\ alive \in BOOLEAN
  /\ reqs \subseteq [op: Methods, fn: ClientCalls, chat: Peers, id: MsgIds,
                     to: Option(Peers), replies: AlbumInputs]
  /\ last \in [op: Methods \cup {"none"}, res: Results, count: Int \cup {NoneVal}]
  /\ calls \in 0..MaxCalls

(* Every request a method makes is about the snapshot's own message in   *)
(* the snapshot's own chat: forward_to sends it from there to the chosen *)
(* chat, reply and reply_album make the first message sent answer it      *)
(* whatever reply_to the caller gave, and mark_as_read takes the channel  *)
(* form exactly when the chat is a channel (message.rs, 645-779).        *)
RequestsTargetSnapshot ==
  \A q \in reqs :
    /\ q.chat = msg.raw.peer_id /\ q.id = msg.raw.id
    /\ q.fn = "forward_messages" => q.to \in Dests
    /\ q.op \in {"reply", "reply_album"} =>
         q.replies # <<>> /\ q.replies[1] = msg.raw.id
    /\ q.op = "mark_as_read" =>
         (q.fn = "channels.ReadHistory" <=> msg.raw.peer_id \in ChannelPeers)

(* Sections 4.3 and 7 of the specification: a handler's failure is an    *)
(* error, caught by the spawned block and reported; no method of the     *)
(* snapshot ends the handler task with a panic (refetch, line 788;        *)
(* reply_album, line 697; forward_to, line 712).                          *)
HandlerFailuresAreErrors == last.res # "panic"

(* reaction_count, "How many reactions does this message have": the      *)
(* count it returns is the total of the reactions' counts (line 486).     *)
ReactionCountIsTotal ==
  (last.op = "reaction_count" /\ Reactions # NoneVal) =>
    last.count = Total(Reactions)
=============================================================================
