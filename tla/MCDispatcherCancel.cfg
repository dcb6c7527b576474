CONSTANTS
  NoneVal = NoneVal
  u1 = u1
  g1 = g1
  act1 = act1
  MsgIds <- MCMsgIds
  UserPeers = {u1}
  GroupPeers = {g1}
  ActionVals = {act1}
  TextVals <- MCTextVals
  AllowedTopics = {1}
  UpdateInputs <- MCUpdateInputs
  Slots = {s1, s2}

SPECIFICATION Spec

INVARIANT NoHandlerCancelledAtShutdown


\* The process exits: the three exit states have no successor.
CHECK_DEADLOCK FALSE
