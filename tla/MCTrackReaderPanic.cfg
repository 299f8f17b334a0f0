\* An H265 track and a config of another codec.
CONSTANTS
  TrackIDs = {0}
  AnalyzePeriod = 1
  MaxRecordedSize = 4
  MaxUnits = 2
  MaxReceived = 4
  Messages <- SwitchPeer
  Peers <- MCSwitchPeers
SPECIFICATION MCSpec
INVARIANT ParametersPresent
CHECK_DEADLOCK FALSE
