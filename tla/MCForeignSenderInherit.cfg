\* An interleaving and aborting sender that relies on the preceding header after an abort.
CONSTANTS
  ChunkStreamIDs = {2, 4, 6}
  TsMod = 8
  ExtTs = 4
  InitialChunkSize = 2
  MaxBodySize = 8
  Garbled = Garbled
  NoBody = NoBody
  NoMessage = NoMessage
  Inherit = TRUE
  MaxDone = 4
  MaxAborts = 2
  size1 = size1
  size3 = size3
  stop4 = stop4
  stop6 = stop6
  audio = audio
  video = video
  Bodies <- MCBodies
  Value <- MCValue
  Messages <- MCMessages
SPECIFICATION Spec
INVARIANT Follows
CHECK_DEADLOCK FALSE
