\* Two writers, six messages, every interleaving of their chunks with the reader.
CONSTANTS
  ChunkStreamIDs = {2, 4}
  TsMod = 8
  ExtTs = 4
  InitialChunkSize = 2
  MaxBodySize = 8
  Garbled = Garbled
  NoBody = NoBody
  Nobody = Nobody
  NoMessage = NoMessage
  MaxSent = 4
  size1 = size1
  size3 = size3
  audio = audio
  video = video
  w1 = w1
  w2 = w2
  Writers <- MCWriters
  Bodies <- MCBodies
  Value <- MCValue
  Messages <- MCMessages
SPECIFICATION Spec
INVARIANTS TypeOK StaysInFrame Intact InStep Exclusive
PROPERTY ImplementsChannel
CHECK_DEADLOCK FALSE
