\* Three kinds of peers: SEI that waits for its access unit, two tracks of each
\* kind, codecs found in the data and payloads that do not decode.
CONSTANTS
  TrackIDs = {0, 1}
  AnalyzePeriod = 1
  MaxRecordedSize = 4
  MaxUnits = 2
  MaxReceived = 6
  Messages <- MCMessages
  Peers <- MCPeers
SPECIFICATION MCSpec
INVARIANTS TypeOK Conserved OneInstant SeiJoined OnlyUnannouncedRefused
PROPERTY AnalysisEnds
CHECK_DEADLOCK FALSE
