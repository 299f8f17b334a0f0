\* An interleaving and aborting sender that repeats the header after an abort.
CONSTANTS
  ChunkStreamIDs = {2, 4, 6}
  TsMod = 8
  ExtTs = 4
  InitialChunkSize = 2
  MaxBodySize = 8
  Garbled = Garbled
  NoBody = NoBody
  NoMessage = NoMessage
  Inherit = FALSE
  MaxDone = 4
  MaxAborts = 2
  size1 = size1
  size3 = size3
  stop4 = stop4
  stop6 = stop6
  audio = audio
  video = video
  Bodies <- MCBodies
  Value <- MCValue
  Messages <- MCMessages
SPECIFICATION Spec
INVARIANTS Follows Reassembled
CHECK_DEADLOCK FALSE
