CONSTANTS
  NoneVal = NoneVal
  u1 = u1
  g1 = g1
  act1 = act1
  MsgIds <- MCMsgIds
  UserPeers = {u1}
  GroupPeers = {g1}
  ActionVals = {act1}
  TextVals <- MCTextVals
  WireInputs <- MCWireInputs
  AckInputs <- MCAckInputs
  SentInputs <- MCSentInputs
  Registry = {g1}

SPECIFICATION Spec

INVARIANT TypeOK
INVARIANT NormalizationContract
INVARIANT TopicResolutionMatchesSpec

\* One pure call per behaviour: every behaviour stops after it.
CHECK_DEADLOCK FALSE
