---------------------------- MODULE MCTrackReader ----------------------------
(* Small instances of TrackReader.                                         *)
EXTENDS TrackReader

LOCAL M(kind, multi, id, codec, packet, dts, pts) ==
  [kind |-> kind, multi |-> multi, id |-> id, codec |-> codec, packet |-> packet,
   dts |-> dts, pts |-> pts]
LOCAL Video(codec, packet, t) == M("video", FALSE, 0, codec, packet, t, t)
LOCAL Audio(codec, packet, t) == M("audio", FALSE, 0, codec, packet, t, t)
LOCAL Ex(kind, id, codec, t) == M(kind, id # 0, id, codec, "au", t, t)

\* An H264 and an AAC track, with SEI of several instants and of several pts.
CameraPeer ==
  { Video("h264", "config", 0), Video("h264", "bare", 1), Video("h264", "sei", 0),
    Video("h264", "sei", 1), Video("h264", "au", 1), Video("h264", "eos", 1),
    Video("h264", "empty", 1), M("video", FALSE, 0, "h264", "au", 1, 2),
    Audio("aac", "bare", 0), Audio("aac", "config", 0), Audio("aac", "au", 1),
    M("unpublish", FALSE, 0, "h264", "eos", 0, 0) }

\* Two tracks of each kind, of extended messages but for one.
MultitrackPeer ==
  { Ex("videoStart", 0, "av1", 0), Ex("videoFrames", 0, "av1", 1),
    Ex("videoStart", 1, "h265", 0), Ex("videoFrames", 1, "h265", 1), Ex("videoEnd", 1, "h265", 0),
    Ex("audioStart", 1, "opus", 0), Ex("audioFrames", 1, "opus", 0), Ex("audioFrames", 1, "opus", 1), Ex("audioEnd", 1, "opus", 0),
    Audio("mp3", "au", 0), Audio("mp3", "au", 1) }

\* Codecs found in the data, payloads that do not decode, codecs that change.
OddPeer ==
  { Video("h265", "config", 0), Video("h265", "empty", 0), Video("h265", "bad", 1),
    M("videoFrames", TRUE, 1, "vp9", "au", 1, 1), M("videoStart", TRUE, 1, "av1", "bad", 0, 0),
    Ex("videoStart", 1, "vp9", 0), Audio("g711", "au", 0), Audio("aac", "config", 1),
    Ex("audioStart", 1, "ac3", 0), Ex("audioFrames", 1, "ac3", 1),
    M("audioFrames", TRUE, 1, "ac3", "bad", 1, 1) }

\* An H265 track, and an H264 config on the same stream.
SwitchPeer ==
  { Video("h265", "config", 0), Video("h265", "au", 1), Video("h264", "config", 1) }

MCMessages == CameraPeer \cup MultitrackPeer \cup OddPeer
MCPeers == {CameraPeer, MultitrackPeer, OddPeer}
MCSwitchPeers == {SwitchPeer}

CONSTANT Peers  \* what each peer may send

VARIABLE peer   \* the one that sends

MCReceive == \E m \in peer : Analyze(m) \/ ReadNew(m)

MCInit == Init /\ peer \in Peers
MCNext == (MCReceive \/ ReadRecorded \/ ConnEnds) /\ UNCHANGED peer
MCSpec == MCInit /\ [][MCNext]_<<vars, peer>> /\ WF_vars(MCReceive \/ ReadRecorded)
=============================================================================
