CONSTANTS
  NoneVal = NoneVal
  u1 = u1
  g1 = g1
  MsgIds <- MCMsgIds
  UserPeers = {u1}
  GroupPeers = {g1}
  ActionVals = {}
  TextVals <- MCTextVals
  AllowedTopics = {1}
  Stream <- MCStream
  Slots = {s1, s2}
  MaxRuns = 3

SPECIFICATION Spec

INVARIANT TypeOK
INVARIANT NoDuplicateRepliesAfterCleanExits
PROPERTY ResumePointMonotone

\* The last start may end: an exited program with no start left stops.
CHECK_DEADLOCK FALSE
