\* Plain and encrypted, strict or not, over a connection of one packet.
CONSTANTS
  DigestLength = 1
  DigestChunkLength = 2
  KeyLength = 2
  KeyChunkLength = 2
  Capacity = 1
  Random <- MCRandom
  HmacByte <- MCHmacByte
  RandomData <- MCRandomData
SPECIFICATION Spec
INVARIANTS KeysMatch EchoChecked NothingUnread
PROPERTIES Completes Ends
CHECK_DEADLOCK FALSE
