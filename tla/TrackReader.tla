----------------------------- MODULE TrackReader -----------------------------
(***************************************************************************)
(* The Reader of the root package (reader.go) over a rewindableConn        *)
(* (rewindable_conn.go).  Initialize reads messages until it has seen two  *)
(* seconds of media, remembers them all and finds the tracks; Read then    *)
(* starts again from the first message and hands each to the callback of   *)
(* its track.  The callback of an H264 track holds access units that are   *)
(* only SEI until the access unit they belong to.                          *)
(*                                                                         *)
(* A message is its kind and what the two loops look at; the payload is    *)
(* the number of the message in the order of arrival.  FramesX messages    *)
(* are frames whose pts is their dts.  The application registers a         *)
(* callback for every track before it reads.                               *)
(***************************************************************************)
EXTENDS Integers, Sequences, SequencesExt

CONSTANTS
  TrackIDs,         \* ids of tracks, 0 among them
  Messages,         \* messages the peer may send
  AnalyzePeriod,    \* analyzePeriod
  MaxRecordedSize,  \* maxRecordedSize, 5000 in the code
  MaxUnits,         \* access units merged in one: the limit on NALUs and bytes
  MaxReceived       \* bound: messages of a behaviour

VideoCodecs == {"h264", "h265", "av1", "vp9"}
AudioCodecs == {"aac", "mp3", "opus", "flac", "ac3", "g711", "lpcm"}
Codecs == VideoCodecs \cup AudioCodecs
LegacyKinds == {"video", "audio"}
FrameKinds == {"videoFrames", "audioFrames"}
VideoKinds == {"video", "videoStart", "videoFrames", "videoEnd"}
AudioKinds == {"audio", "audioStart", "audioFrames", "audioEnd"}
Kinds == VideoKinds \cup AudioKinds \cup {"skipped", "unpublish"}

\* "bare" is a config message without parameters, "sei" an access unit that is
\* only a SEI, "empty" one without NALUs, "bad" a payload or a configuration that
\* does not decode, "eos" the end of a sequence.  The packet of frames is what
\* they are as access units; a config of H265 always has its parameters.
Packets == {"config", "bare", "au", "sei", "empty", "bad", "eos"}

ASSUME TrackReaderAssumption ==
  /\ 0 \in TrackIDs
  /\ \A m \in Messages :
       /\ m.kind \in Kinds /\ m.id \in TrackIDs /\ m.codec \in Codecs
       /\ m.packet \in Packets /\ m.multi \in BOOLEAN
       /\ m.dts \in Int /\ m.pts \in Int
       /\ ~m.multi => m.id = 0
       /\ m.kind \in LegacyKinds => ~m.multi
       /\ m.kind \in VideoKinds => m.codec \in VideoCodecs
       /\ m.kind \in AudioKinds => m.codec \in AudioCodecs
       /\ m.kind = "videoFrames" => m.packet \in {"au", "sei", "empty", "bad"}
       /\ m.packet = "bare" => m.codec \in {"h264", "aac"}
  /\ AnalyzePeriod \in Nat \ {0} /\ MaxRecordedSize \in Nat /\ MaxUnits \in Nat
  /\ MaxReceived \in Nat

VARIABLES
  phase,     \* "analyzing", "ready", or how it ended
  received,  \* history: messages that came from the connection
  entries,   \* rewindableConn.entries
  recorded,  \* history: how many messages were recorded
  found,     \* what readTracks knows
  tracks,    \* the state of the callbacks: delivered and held access units
  taken      \* history: messages that Read took

vars == <<phase, received, entries, recorded, found, tracks, taken>>

Streams == {"video", "audio"} \X TrackIDs
NoUnit == [time |-> <<0, 0>>, of |-> <<>>]
NewTrack == [out |-> <<>>, held |-> NoUnit]

Init ==
  /\ phase = "analyzing"
  /\ received = <<>>
  /\ entries = <<>>
  /\ recorded = 0
  /\ found = [video |-> [i \in TrackIDs |-> "absent"], audio |-> [i \in TrackIDs |-> "absent"],
              starts |-> [i \in TrackIDs |-> "none"], first |-> FALSE, start |-> 0, cur |-> 0,
              failed |-> FALSE]
  /\ tracks = [s \in Streams |-> NewTrack]
  /\ taken = <<>>

-----------------------------------------------------------------------------
(* readTracks, one message at a time.                                      *)

\* A nil entry of the map reads as an absent one.
IsUp(map, id) == map[id] \in Codecs

\* The first media message sets the start time, every one the current time.
Clock(f, m) ==
  [f EXCEPT !.first = TRUE, !.start = IF f.first THEN @ ELSE m.dts, !.cur = m.dts]

\* A multitrack message makes a nil entry, to be filled by a sequence start.
Noticed(map, m) ==
  IF m.multi /\ map[m.id] = "absent" THEN [map EXCEPT ![m.id] = "nil"] ELSE map

OnVideo(f, m) ==
  IF m.packet = "config" /\ ~IsUp(f.video, 0)
  THEN [Clock(f, m) EXCEPT !.video[0] = m.codec]
  ELSE Clock(f, m)

\* Mutant: every video track is track 0.
StartOfTrack0(f, m) ==
  IF IsUp(f.video, 0) THEN [f EXCEPT !.failed = TRUE] ELSE [f EXCEPT !.video[0] = m.codec]

OnVideoStart(f, m) ==
  IF IsUp(f.video, m.id) \/ (m.codec = "av1" /\ m.packet = "bad")
  THEN [f EXCEPT !.failed = TRUE]
  ELSE [f EXCEPT !.video[m.id] = m.codec]

OnVideoFrames(f, m) == [Clock(f, m) EXCEPT !.video = Noticed(f.video, m)]

\* MPEG-4 audio needs its config, the other codecs are found in the data.
OnAudio(f, m) ==
  IF ~IsUp(f.audio, 0) /\ (m.codec = "aac" => m.packet = "config")
  THEN [Clock(f, m) EXCEPT !.audio[0] = m.codec]
  ELSE Clock(f, m)

OnAudioStart(f, m) ==
  LET g == [f EXCEPT !.audio = Noticed(f.audio, m)]
  IN IF f.starts[m.id] # "none" THEN [g EXCEPT !.failed = TRUE]
                                ELSE [g EXCEPT !.starts[m.id] = m.codec]

\* audioTrackFromExtendedMessages: all but MP3 need the sequence start, AC-3 has
\* its parameters in the frame.
OnAudioFrames(f, m) ==
  LET g == [Clock(f, m) EXCEPT !.audio = Noticed(f.audio, m)]
  IN CASE IsUp(f.audio, m.id) -> g
       [] /\ ~IsUp(f.audio, m.id)
          /\ \/ m.codec # "mp3" /\ f.starts[m.id] # m.codec
             \/ m.codec = "ac3" /\ m.packet = "bad" -> [g EXCEPT !.failed = TRUE]
       [] OTHER -> [g EXCEPT !.audio[m.id] = m.codec]

Analyzed(f, m) ==
  CASE m.kind = "video" -> OnVideo(f, m)
    [] m.kind = "videoStart" -> OnVideoStart(f, m)
    [] m.kind = "videoFrames" -> OnVideoFrames(f, m)
    [] m.kind = "videoEnd" -> [f EXCEPT !.video = Noticed(f.video, m)]
    [] m.kind = "audio" -> OnAudio(f, m)
    [] m.kind = "audioStart" -> OnAudioStart(f, m)
    [] m.kind = "audioFrames" -> OnAudioFrames(f, m)
    [] m.kind = "audioEnd" -> [f EXCEPT !.audio = Noticed(f.audio, m)]
    [] OTHER -> f

\* The checks after the loop: some track, and every one configured.
TracksFound(f) ==
  /\ \E i \in TrackIDs : IsUp(f.video, i) \/ IsUp(f.audio, i)
  /\ \A i \in TrackIDs : f.video[i] # "nil" /\ f.audio[i] # "nil"

-----------------------------------------------------------------------------
(* rewindableConn.                                                         *)

\* A message read before Rewind is recorded, until there are too many.
Recorded(log, n) == Append(log, n)

\* Mutant: no limit.
RecordNeverFull(log) == FALSE

RecordFull(log) == Len(log) >= MaxRecordedSize

\* Mutant: the last recorded message is not given back.
AllButLast == Len(entries) > 1

\* After Rewind, the recorded messages come first.
FromRecord == entries # <<>>

-----------------------------------------------------------------------------
(* The callbacks.  A unit is the timestamps given to the application and   *)
(* the messages whose NALUs it is made of.                                 *)

Time(m) == <<m.pts, m.dts>>
Unit(time, of) == [time |-> time, of |-> of]
Give(tr, unit) == [tr EXCEPT !.out = Append(@, unit)]

FlushPending(tr) ==
  IF tr.held.of # <<>> THEN [Give(tr, tr.held) EXCEPT !.held = NoUnit] ELSE tr

Done(tr) == [tr |-> tr, err |-> "none"]
Refused(tr) == [tr |-> tr, err |-> "limit"]
Undecodable(tr) == [tr |-> tr, err |-> "undecodable"]

\* Mutant: no limit on what is held.
HoldUnlimited(tr, m, n) ==
  LET t == IF tr.held.of # <<>> /\ tr.held.time # Time(m) THEN FlushPending(tr) ELSE tr
  IN Done([t EXCEPT !.held = Unit(Time(m), Append(@.of, n))])

\* processAU on an access unit that is only a SEI: held.
Hold(tr, m, n) ==
  LET t == IF tr.held.of # <<>> /\ tr.held.time # Time(m) THEN FlushPending(tr) ELSE tr
  IN IF Len(t.held.of) + 1 > MaxUnits
     THEN Refused(t)
     ELSE Done([t EXCEPT !.held = Unit(Time(m), Append(@.of, n))])

\* Mutants: a SEI of another instant joins; a SEI joins nothing.
JoinAnyTime(tr, m, n) ==
  CASE tr.held.of # <<>> /\ Len(tr.held.of) + 1 > MaxUnits -> Refused(tr)
    [] tr.held.of # <<>> /\ Len(tr.held.of) + 1 <= MaxUnits ->
         Done([Give(tr, Unit(Time(m), Append(tr.held.of, n))) EXCEPT !.held = NoUnit])
    [] OTHER -> Done(Give(tr, Unit(Time(m), <<n>>)))
JoinNever(tr, m, n) == Done(Give(FlushPending(tr), Unit(Time(m), <<n>>)))

\* processAU on any other: given with what is held for the same instant.
Join(tr, m, n) ==
  IF tr.held.of # <<>> /\ tr.held.time = Time(m)
  THEN IF Len(tr.held.of) + 1 > MaxUnits
       THEN Refused(tr)
       ELSE Done([Give(tr, Unit(Time(m), Append(tr.held.of, n))) EXCEPT !.held = NoUnit])
  ELSE Done(Give(FlushPending(tr), Unit(Time(m), <<n>>)))

OnDataH264(tr, m, n) ==
  CASE m.packet = "sei" -> Hold(tr, m, n)
    [] m.packet = "au" -> Join(tr, m, n)
    [] m.packet = "empty" -> Done(tr)
    [] m.packet = "bad" -> Undecodable(tr)
    [] m.packet = "config" /\ m.codec = "h264" ->
         Done(Give(FlushPending(tr), Unit(Time(m), <<n>>)))
    [] OTHER -> Done(FlushPending(tr))

\* h265FindParams(msg.HEVCConfig), which only an H265 config has.
OnDataH265(tr, m, n) ==
  CASE m.packet \in {"config", "bare"} /\ m.codec # "h265" -> [tr |-> tr, err |-> "panic"]
    [] m.packet \in {"empty", "eos"} -> Done(tr)
    [] m.packet = "bad" -> Undecodable(tr)
    [] OTHER -> Done(Give(tr, Unit(Time(m), <<n>>)))

\* VP9, Opus, FLAC and AC-3 take extended messages only.
OnDataFrames(tr, m, n) ==
  IF m.kind \in FrameKinds THEN Done(Give(tr, Unit(Time(m), <<n>>))) ELSE Done(tr)

OnDataAV1(tr, m, n) ==
  IF m.kind \in FrameKinds /\ m.packet = "bad" THEN Undecodable(tr) ELSE OnDataFrames(tr, m, n)

\* G711 and LPCM take legacy messages only.
OnDataSamples(tr, m, n) ==
  IF m.kind = "audio" THEN Done(Give(tr, Unit(Time(m), <<n>>))) ELSE Done(tr)

OnDataMPEG4Audio(tr, m, n) ==
  IF m.kind = "audio" /\ (m.codec # "aac" \/ m.packet # "au")
  THEN Done(tr)
  ELSE Done(Give(tr, Unit(Time(m), <<n>>)))

OnDataMPEG1Audio(tr, m, n) == Done(Give(tr, Unit(Time(m), <<n>>)))

Callback(codec, tr, m, n) ==
  CASE codec = "h264" -> OnDataH264(tr, m, n)
    [] codec = "h265" -> OnDataH265(tr, m, n)
    [] codec = "av1" -> OnDataAV1(tr, m, n)
    [] codec \in {"g711", "lpcm"} -> OnDataSamples(tr, m, n)
    [] codec = "aac" -> OnDataMPEG4Audio(tr, m, n)
    [] codec = "mp3" -> OnDataMPEG1Audio(tr, m, n)
    [] OTHER -> OnDataFrames(tr, m, n)

-----------------------------------------------------------------------------
(* Actions.                                                                *)

N == Len(received) + 1

Analyze(m) ==
  LET f == Analyzed(found, m)
      over == f.cur - f.start >= AnalyzePeriod
  IN /\ phase = "analyzing"
     /\ N <= MaxReceived
     /\ received' = Append(received, m)
     /\ IF RecordFull(entries)
        THEN phase' = "failed" /\ UNCHANGED <<entries, recorded, found>>
        ELSE /\ entries' = Recorded(entries, N)
             /\ recorded' = N
             /\ found' = f
             /\ phase' = CASE f.failed -> "failed"
                           [] ~f.failed /\ over ->
                                IF TracksFound(f) THEN "ready" ELSE "failed"
                           [] OTHER -> "analyzing"
     /\ UNCHANGED <<tracks, taken>>

\* Reader.Read on message n; m is that message.
Dispatch(n, m) ==
  LET s == <<IF m.kind \in {"video", "videoFrames"} THEN "video" ELSE "audio", m.id>>
      map == IF s[1] = "video" THEN found.video ELSE found.audio
      res == Callback(map[m.id], tracks[s], m, n)
  IN /\ taken' = Append(taken, n)
     /\ CASE m.kind = "unpublish" -> phase' = "unpublished" /\ UNCHANGED tracks
          [] m.kind \in LegacyKinds \cup FrameKinds /\ ~IsUp(map, m.id) ->
               phase' = "notSetUp" /\ UNCHANGED tracks
          [] m.kind \in LegacyKinds \cup FrameKinds /\ IsUp(map, m.id) ->
               /\ tracks' = [tracks EXCEPT ![s] = res.tr]
               /\ phase' = IF res.err = "none" THEN phase ELSE res.err
          [] OTHER -> UNCHANGED <<phase, tracks>>

ReadRecorded ==
  /\ phase = "ready"
  /\ FromRecord
  /\ entries' = Tail(entries)
  /\ Dispatch(Head(entries), received[Head(entries)])
  /\ UNCHANGED <<received, recorded, found>>

ReadNew(m) ==
  /\ phase = "ready"
  /\ ~FromRecord
  /\ N <= MaxReceived
  /\ received' = Append(received, m)
  /\ Dispatch(N, m)
  /\ UNCHANGED <<entries, recorded, found>>

\* Conn.Read returns an error: Initialize returns it, Read runs the finalizers.
ConnEnds ==
  /\ \/ phase = "analyzing" /\ phase' = "failed" /\ UNCHANGED tracks
     \/ /\ phase = "ready" /\ ~FromRecord
        /\ phase' = "ended"
        /\ tracks' = [s \in Streams |-> IF found[s[1]][s[2]] = "h264"
                                        THEN FlushPending(tracks[s]) ELSE tracks[s]]
  /\ UNCHANGED <<received, entries, recorded, found, taken>>

Receive == \E m \in Messages : Analyze(m) \/ ReadNew(m)

Next == Receive \/ ReadRecorded \/ ConnEnds

\* The peer goes on sending, the application goes on reading; the connection may
\* end or not.
Spec == Init /\ [][Next]_vars /\ WF_vars(Receive \/ ReadRecorded)

-----------------------------------------------------------------------------
(* Properties.                                                             *)

TypeOK ==
  /\ phase \in {"analyzing", "ready", "ended", "unpublished", "failed", "notSetUp",
                "limit", "undecodable", "panic"}
  /\ received \in Seq(Messages)
  /\ entries \in Seq(1..Len(received)) /\ Len(entries) <= MaxRecordedSize
  /\ \A i \in TrackIDs : /\ found.video[i] \in VideoCodecs \cup {"absent", "nil"}
                         /\ found.audio[i] \in AudioCodecs \cup {"absent", "nil"}
  /\ \A s \in Streams : Len(tracks[s].held.of) <= MaxUnits

\* Messages with something for the application, on a track of a codec.
VideoFor(codec, m) ==
  \/ /\ codec \in {"h264", "h265"} /\ m.kind \in {"video", "videoFrames"}
     /\ m.packet \notin {"bare", "eos", "empty"}
     /\ m.packet = "config" => m.codec = codec
  \/ codec \in {"av1", "vp9"} /\ m.kind = "videoFrames"
\* An AAC config in a legacy message, with parameters or not: no payload.
AACConfig(m) == m.kind = "audio" /\ m.codec = "aac" /\ m.packet \in {"config", "bare"}
WholeAudio == {"mp3", "g711", "lpcm"}   \* codecs whose legacy messages are all payload
AudioFor(codec, m) ==
  \/ m.kind = "audioFrames" /\ codec \notin {"g711", "lpcm"}
  \/ m.kind = "audio" /\ codec \in WholeAudio /\ ~AACConfig(m)
  \/ m.kind = "audio" /\ codec = "aac" /\ m.codec = "aac" /\ m.packet = "au"
Carries(s, m) ==
  /\ m.id = s[2]
  /\ IF s[1] = "video" THEN VideoFor(found.video[s[2]], m) ELSE AudioFor(found.audio[s[2]], m)

\* The units of stream s, the one that is held last; the messages that units are
\* made of, and whether they are in order.
UnitsOf(s) == Append(tracks[s].out, tracks[s].held)
NumbersIn(us) == UNION {Range(us[i].of) : i \in DOMAIN us}
InOrder(us) ==
  \A i, j \in DOMAIN us : \A k \in DOMAIN us[i].of, l \in DOMAIN us[j].of :
    i < j \/ (i = j /\ k < l) => us[i].of[k] < us[j].of[l]

Carried(s) == {n \in 1..Len(taken) : Carries(s, received[n])}

\* An AAC config on a track of another legacy codec carries nothing, yet the
\* callback is given an empty frame (reader.go:849-916), against "guaranteed to
\* contain at least 1 byte" (reader.go:48-62).
EmptyFrame(s, m) ==
  s[1] = "audio" /\ m.id = s[2] /\ AACConfig(m) /\ found.audio[s[2]] \in WholeAudio
EmptyFrames(s) == {n \in 1..Len(taken) : EmptyFrame(s, received[n])}

\* Every message that carries something for a track reaches the callback of
\* that track once and in the order of arrival, the ones that were read to find
\* the tracks included, or is held for the next access unit, and nothing else does,
\* empty frames apart (rewindable_conn.go:24-53, reader.go:319-556, 919-978).
Conserved ==
  phase \in {"ready", "ended", "unpublished"} =>
    \A s \in Streams :
      /\ Carried(s) \subseteq NumbersIn(UnitsOf(s))
      /\ NumbersIn(UnitsOf(s)) \subseteq Carried(s) \cup EmptyFrames(s)
      /\ InOrder(UnitsOf(s))

\* The NALUs of an access unit were sent with the timestamps it is given with
\* (reader.go:708-757).
OneInstant ==
  \A s \in Streams : \A i \in DOMAIN tracks[s].out :
    LET u == tracks[s].out[i]
    IN \A j \in DOMAIN u.of : Time(received[u.of[j]]) = u.time

\* "which should be part of the same access unit of following NALUs": a SEI is
\* given on its own only if what follows on its track is not an access unit of
\* the same instant (reader.go:709-711).
Media(id) ==
  {n \in 1..Len(taken) : received[n].id = id /\ received[n].kind \in {"video", "videoFrames"}}
NextOf(k, l, ns) == k \in ns /\ l \in ns /\ k < l /\ \A n \in ns : ~(k < n /\ n < l)
SeiJoined ==
  \A id \in TrackIDs : found.video[id] = "h264" =>
    \A i \in DOMAIN tracks[<<"video", id>>].out : \A k, l \in Media(id) :
      /\ NextOf(k, l, Media(id))
      /\ Last(tracks[<<"video", id>>].out[i].of) = k /\ received[k].packet = "sei"
      => received[l].packet \notin {"au", "sei"} \/ Time(received[l]) # Time(received[k])

\* Read refuses a message for want of its track only if nothing that Initialize
\* read announces that track: a config or a sequence start for video, for audio
\* a frame as well (reader.go:319-556 against 945-976).
Announces(k, m) ==
  /\ k.id = m.id
  /\ IF m.kind \in {"video", "videoFrames"}
     THEN k.kind = "videoStart" \/ (k.kind = "video" /\ k.packet = "config")
     ELSE \/ k.kind = "audioFrames"
          \/ k.kind = "audio" /\ (k.codec = "aac" => k.packet = "config")
OnlyUnannouncedRefused ==
  phase = "notSetUp" =>
    ~\E i \in 1..recorded : Announces(received[i], received[Last(taken)])

\* Initialize ends as long as the peer sends: it has a limit on what it records
\* even if the time in the messages stands still (rewindable_conn.go:28-31).
AnalysisEnds == <>(phase # "analyzing")

\* "VPS, SPS, PPS are guaranteed to be present by message.Video" (reader.go:640):
\* a config given to the callback of an H265 track has its parameters.
ParametersPresent == phase # "panic"
=============================================================================
