CONSTANTS
  NoneVal = NoneVal
  u1 = u1
  g1 = g1
  c1 = c1
  MsgIds <- MCMsgIds
  UserPeers = {u1}
  GroupPeers = {g1, c1}
  ActionVals = {}
  TextVals <- MCTextVals
  Msgs <- MCMsgs
  ChannelPeers = {c1}
  Dests = {g1, c1}
  MaxAlbum = 2
  MaxCalls = 3
  Reactions <- MCReactions
  IntWidth = 16
  Builds = {"debug", "release"}

SPECIFICATION Spec

INVARIANT TypeOK
INVARIANT RequestsTargetSnapshot

\* The handler stops after its last call, or at a panic.
CHECK_DEADLOCK FALSE
