\* Every message type, written, cut anywhere or altered in a byte, read,
\* republished.
CONSTANTS
  MarshalAmf0 <- Marshal
  UnmarshalAmf0 <- Unmarshal
  Amf0Data <- MCAmf0Data
  AVCConfigs <- MCAVCConfigs
  HEVCConfigs <- MCHEVCConfigs
  Configs = {1, 7}
  Messages <- MCMessages
  Marks <- MCMarks
  Others = {0, 1, 2, 3, 5, 8, 9, 10, 31}
  Types = {0, 1, 4, 6, 8, 9, 15, 18, 20}
SPECIFICATION Spec
INVARIANTS RoundTrip Republished CutShort ConfigsComplete
