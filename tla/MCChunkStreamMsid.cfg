\* One chunk stream shared by two message streams: a type 0 chunk with a positive delta.
CONSTANTS
  ChunkStreamIDs = {4}
  TsMod = 8
  ExtTs = 4
  InitialChunkSize = 2
  MaxBodySize = 8
  Garbled = Garbled
  NoBody = NoBody
  Nobody = Nobody
  NoMessage = NoMessage
  MaxSent = 3
  size1 = size1
  size3 = size3
  audio = audio
  video = video
  w1 = w1
  w2 = w2
  Writers <- MCWriters
  Bodies <- MCBodies
  Value <- MCValue
  Messages <- MCTwoMessageStreams
SPECIFICATION Spec
INVARIANT Intact
CHECK_DEADLOCK FALSE
