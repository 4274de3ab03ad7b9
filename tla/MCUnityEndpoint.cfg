SPECIFICATION Spec
CONSTANTS
  MaxConnections = 3
  Descriptors = {fd1, fd2}
  Topics = {joints}
  Capacity = 2
  Depth = 2
  MaxMessages = 3
  Bounds <- ConnectionsAndMessages
SYMMETRY AnyDescriptor
INVARIANTS
  ThreadsOwnTheirConnection
  RepliesReachTheirConnection
  LostRegistrationsGone
  HandshakeFirst
PROPERTIES
  TopicsFollowUnity
CHECK_DEADLOCK FALSE
