----------------------------- MODULE TrackWriter -----------------------------
(***************************************************************************)
(* The Writer of the root package (writer.go), as operators: the ids of    *)
(* its tracks, the messages by which Initialize announces them, and the    *)
(* message of each Write call.  Messages are those of TrackReader: the     *)
(* kind, the track id and what a reader looks at; contents are left out.   *)
(*                                                                         *)
(* A track is its codec and whether its description is bad: parameter sets *)
(* that do not parse (H264, H265), a sample rate that RTMP does not have   *)
(* (LPCM), no configuration at all (AAC, Opus, FLAC).  A frame is what is  *)
(* given to Write: the track, its time, what sort of payload.              *)
(***************************************************************************)
EXTENDS Integers, Sequences, FiniteSets

IsVideo(track) == track.codec \in {"av1", "vp9", "h265", "h264"}
KindOf(track) == IF IsVideo(track) THEN "video" ELSE "audio"

\* Codecs that cannot be secondary tracks.
OnlyFirst == {"g711", "lpcm"}

OutMessage(kind, id, codec, packet, dts, pts) ==
  [kind |-> kind, multi |-> id # 0, id |-> id, codec |-> codec, packet |-> packet,
   dts |-> dts, pts |-> pts]

-----------------------------------------------------------------------------
(* writeTracks.                                                            *)

\* videoTrackToID and audioTrackToID: tracks of a kind are numbered apart.
TrackID(list, i) ==
  Cardinality({j \in 1..(i - 1) : KindOf(list[j]) = KindOf(list[i])}) % 256

\* Which of two turns of writeTracks comes first: 0 is the metadata, then there
\* are the video tracks, then the audio tracks.
Precedes(list, i, j) ==
  i # 0 =>
    /\ j # 0
    /\ \/ KindOf(list[i]) = KindOf(list[j]) /\ i < j
       \/ IsVideo(list[i]) /\ ~IsVideo(list[j])

\* The first AAC track may be without a configuration: it is sent as it is.
Unconfigured(list, i) == list[i].codec = "aac" /\ TrackID(list, i) = 0 /\ list[i].bad

\* Why writeTracks cannot announce a track.  It returns an error, or panics on
\* the nil configuration of an Opus, a FLAC or a secondary AAC track.
Indescribable(list, i) ==
  \/ list[i].codec \in OnlyFirst /\ TrackID(list, i) # 0
  \/ /\ list[i].codec \in {"h264", "h265", "lpcm", "opus", "flac", "aac"} /\ list[i].bad
     /\ ~Unconfigured(list, i)

Start(kind, list, i) == << OutMessage(kind, TrackID(list, i), list[i].codec, "config", 0, 0) >>

\* What announces a video track: a legacy config if it is the first and H264, a
\* sequence start otherwise.  No announcement has a time: its timestamp is zero.
VideoAnnouncement(list, i) ==
  IF list[i].codec = "h264" /\ TrackID(list, i) = 0
  THEN Start("video", list, i)
  ELSE Start("videoStart", list, i)

\* Mutant: MPEG-4 audio is announced as if it were found in the data.
AnnouncementWithoutAAC(list, i) ==
  IF list[i].codec \in {"opus", "flac", "ac3"} THEN Start("audioStart", list, i) ELSE <<>>

\* What announces an audio track: a legacy config if it is the first and MPEG-4,
\* without parameters if it has none, nothing if its codec is found in the data,
\* a sequence start otherwise.
AudioAnnouncement(list, i) ==
  CASE Unconfigured(list, i) -> << OutMessage("audio", 0, "aac", "bare", 0, 0) >>
    [] list[i].codec = "aac" /\ TrackID(list, i) = 0 /\ ~list[i].bad -> Start("audio", list, i)
    [] list[i].codec = "aac" /\ TrackID(list, i) # 0 -> Start("audioStart", list, i)
    [] list[i].codec \in {"opus", "flac", "ac3"} -> Start("audioStart", list, i)
    [] list[i].codec \in {"mp3", "g711", "lpcm"} -> <<>>

Announcement(list, i) ==
  IF IsVideo(list[i]) THEN VideoAnnouncement(list, i) ELSE AudioAnnouncement(list, i)

\* The onMetaData message, which readers skip.
Metadata == OutMessage("skipped", 0, "h264", "config", 0, 0)

-----------------------------------------------------------------------------
(* The Write calls.  What is not the first of its kind is wrapped in a      *)
(* multitrack message, by OutMessage.                                      *)

\* WriteAV1 and WriteVP9 have a pts only, which is sent as the dts.
WriteFramesX(list, frame) ==
  OutMessage("videoFrames", TrackID(list, frame.track), list[frame.track].codec, "au",
             frame.dts, frame.dts)

\* Mutant: always FramesX, which has no pts.
WriteH265FramesX(list, frame) == WriteFramesX(list, frame)

\* CodedFrames, or FramesX if the pts is the dts.
WriteH265(list, frame) ==
  OutMessage("videoFrames", TrackID(list, frame.track), "h265", frame.payload, frame.dts, frame.pts)

WriteH264(list, frame) ==
  LET id == TrackID(list, frame.track)
  IN OutMessage(IF id = 0 THEN "video" ELSE "videoFrames", id, "h264", frame.payload,
                frame.dts, frame.pts)

\* WriteOpus, WriteFLAC and WriteAC3.
WriteCodedFrames(list, frame) ==
  OutMessage("audioFrames", TrackID(list, frame.track), list[frame.track].codec, "au",
             frame.dts, frame.dts)

\* WriteMPEG4Audio and WriteMPEG1Audio.
WriteMPEGAudio(list, frame) ==
  LET id == TrackID(list, frame.track)
  IN OutMessage(IF id = 0 THEN "audio" ELSE "audioFrames", id, list[frame.track].codec, "au",
                frame.dts, frame.dts)

\* WriteMPEG1Audio takes layer 3 of MPEG-1 only, and on the first track only the
\* sample rates of RTMP.
RefusedFrame(list, frame) ==
  /\ list[frame.track].codec = "mp3"
  /\ \/ frame.payload = "layer2"
     \/ frame.payload = "odd rate" /\ TrackID(list, frame.track) = 0

\* WriteG711 and WriteLPCM, never on a secondary track.
WriteSamples(list, frame) ==
  OutMessage("audio", 0, list[frame.track].codec, "au", frame.dts, frame.dts)

\* The message of a frame.
FrameMessage(list, frame) ==
  LET codec == list[frame.track].codec
  IN CASE codec \in {"av1", "vp9"} -> WriteFramesX(list, frame)
       [] codec = "h265" -> WriteH265(list, frame)
       [] codec = "h264" -> WriteH264(list, frame)
       [] codec \in {"opus", "flac", "ac3"} -> WriteCodedFrames(list, frame)
       [] codec \in {"aac", "mp3"} -> WriteMPEGAudio(list, frame)
       [] codec \in OnlyFirst -> WriteSamples(list, frame)
=============================================================================
