SPECIFICATION FairSpec
CONSTANTS
  MAX_DATA_LENGTH = 4
  NumPrograms = 3
  PingData <- MCPingData
  Job <- MCJob
  StrayBytes <- MCStrayBytes
  MaxFaults = 1
INVARIANTS
  TypeOK
  OneClient
  BoundedDeafness
PROPERTIES
  OnlySentPackets
  RepliesAreOwn
  Answered
CHECK_DEADLOCK FALSE
