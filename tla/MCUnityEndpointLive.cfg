SPECIFICATION FairSpec
CONSTANTS
  MaxConnections = 2
  Descriptors = {fd1, fd2}
  Topics = {joints}
  Capacity = 1
  Depth = 1
  MaxMessages = 0
  Bounds <- ConnectionsAndMessages
PROPERTIES
  ConnectionsEnd
CHECK_DEADLOCK FALSE
