\* A Writer and a Reader: every codec, streams that start late, connections that
\* are closed or lost.
CONSTANTS
  TrackIDs = {0, 1}
  AnalyzePeriod = 2
  MaxRecordedSize = 6
  MaxUnits = 2
  MaxReceived = 8
  Messages <- MCMessages
  TrackLists <- MCTrackLists
  Times <- MCTimes
  Starts <- MCStarts
  Steps = {0, 2}
  Deltas = {0, 1}
  MaxFrames = 3
SPECIFICATION PublishSpec
INVARIANT Played
PROPERTIES RefusedForCause BothLearn
CHECK_DEADLOCK FALSE
