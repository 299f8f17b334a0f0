---------------------------- MODULE MessageCodec ----------------------------
(***************************************************************************)
(* The messages of pkg/message and their encoding: marshal turns a message *)
(* into a raw message, allocateMessage and unmarshal turn a raw message    *)
(* into a message or refuse it.                                            *)
(*                                                                         *)
(* A raw message is where it travels (chunk stream, message stream), a     *)
(* type, a timestamp in milliseconds and a body, a sequence of bytes.  A   *)
(* message is a record named after its Go type, with the fields of that    *)
(* type; a field that its other fields leave unused has its zero value.    *)
(* An unsigned 32-bit field and a FourCC are their four bytes.             *)
(*                                                                         *)
(* The codec configurations belong to other libraries: a configuration is  *)
(* one byte that names it, and the constants say what it holds.            *)
(***************************************************************************)
EXTENDS Amf0Values

CONSTANTS
  MarshalAmf0(_),    \* AMF0 values -> a body
  UnmarshalAmf0(_),  \* a body -> Got(AMF0 values, <<>>), or Bad
  Amf0Data,     \* the AMF0 values
  AVCConfigs,   \* byte -> sizes of the SPSs and of the PPSs of an avcC box
  HEVCConfigs,  \* byte -> the NALU arrays of an hvcC box: type, sizes
  Configs       \* bytes of the other configurations

Refused == [kind |-> "refused"]
Provided(guard, message) == IF guard THEN message ELSE Refused

\* Type.
TypeSetChunkSize == 1
TypeAbortMessage == 2
TypeAcknowledge == 3
TypeUserControl == 4
TypeSetWindowAckSize == 5
TypeSetPeerBandwidth == 6
TypeAudio == 8
TypeVideo == 9
TypeDataAMF0 == 18
TypeCommandAMF0 == 20

FourCCAV1 == <<97, 118, 48, 49>>
FourCCVP9 == <<118, 112, 48, 57>>
FourCCHEVC == <<104, 118, 99, 49>>
FourCCAVC == <<97, 118, 99, 49>>
FourCCOpus == <<79, 112, 117, 115>>
FourCCAC3 == <<97, 99, 45, 51>>
FourCCMP4A == <<109, 112, 52, 97>>
FourCCMP3 == <<46, 109, 112, 51>>
FourCCFLAC == <<102, 76, 97, 67>>
VideoFourCCs == {FourCCAV1, FourCCVP9, FourCCHEVC, FourCCAVC}
AudioFourCCs == {FourCCOpus, FourCCAC3, FourCCMP4A, FourCCMP3, FourCCFLAC}
Reordering == {FourCCAVC, FourCCHEVC}  \* codecs whose coded frames carry a PTSDelta

Raw(from, type, dts, body) == [from |-> from, type |-> type, dts |-> dts, body |-> body]
ControlChunkStream == <<2, 0>>

-----------------------------------------------------------------------------
(* Control messages: a fixed number of bytes, exactly.                     *)

Uint32Types ==
  [type \in {TypeSetChunkSize, TypeAbortMessage, TypeAcknowledge, TypeSetWindowAckSize} |->
     CASE type = TypeSetChunkSize -> "SetChunkSize"
       [] type = TypeAbortMessage -> "AbortMessage"
       [] type = TypeAcknowledge -> "Acknowledge"
       [] type = TypeSetWindowAckSize -> "SetWindowAckSize"]
UserControlTypes ==
  [type \in {0, 1, 2, 4, 6, 7} |->
     CASE type = 0 -> "UserControlStreamBegin"
       [] type = 1 -> "UserControlStreamEOF"
       [] type = 2 -> "UserControlStreamDry"
       [] type = 4 -> "UserControlStreamIsRecorded"
       [] type = 6 -> "UserControlPingRequest"
       [] type = 7 -> "UserControlPingResponse"]
UserControlSetBufferLength == 3
UserControlUndocumented == {31, 32}

\* The first two bytes, big endian.
Uint16(bytes) == bytes[1] * 256 + bytes[2]
Uint16Bytes(n) == <<n \div 256, n % 256>>

KeyOf(kinds, kind) == CHOOSE key \in DOMAIN kinds : kinds[key] = kind

UnmarshalUint32(raw) ==
  Provided(Len(raw.body) = 4, [kind |-> Uint32Types[raw.type], value |-> raw.body])
MarshalUint32(m) == Raw(ControlChunkStream, KeyOf(Uint32Types, m.kind), 0, m.value)

UnmarshalSetPeerBandwidth(raw) ==
  Provided(Len(raw.body) = 5,
           [kind |-> "SetPeerBandwidth", value |-> SubSeq(raw.body, 1, 4), limit |-> raw.body[5]])
MarshalSetPeerBandwidth(m) ==
  Raw(ControlChunkStream, TypeSetPeerBandwidth, 0, Append(m.value, m.limit))

\* One stream id, or the time of a ping.
UnmarshalUserControl(raw, type) ==
  Provided(Len(raw.body) = 6, [kind |-> UserControlTypes[type], value |-> Drop(raw.body, 2)])
MarshalUserControl(m) ==
  Raw(ControlChunkStream, TypeUserControl, 0, Uint16Bytes(KeyOf(UserControlTypes, m.kind)) \o m.value)

\* Mutant: a body without the length of the buffer is accepted.
BufferLengthLeftOut(raw) ==
  Provided(Len(raw.body) \in {6, 10},
           [kind |-> "UserControlSetBufferLength", streamID |-> SubSeq(raw.body, 3, 6),
            bufferLength |-> IF Len(raw.body) = 10 THEN SubSeq(raw.body, 7, 10) ELSE <<0, 0, 0, 0>>])

UnmarshalSetBufferLength(raw) ==
  Provided(Len(raw.body) = 10,
           [kind |-> "UserControlSetBufferLength",
            streamID |-> SubSeq(raw.body, 3, 6), bufferLength |-> SubSeq(raw.body, 7, 10)])
MarshalSetBufferLength(m) ==
  Raw(ControlChunkStream, TypeUserControl, 0,
      Uint16Bytes(UserControlSetBufferLength) \o m.streamID \o m.bufferLength)

-----------------------------------------------------------------------------
(* Commands and data.  Of the bytes of a number the first stands for its   *)
(* integer part and the others for its fraction.                           *)

IntOf(bits) == bits[1]
FloatOf(n) == [i \in 1..8 |-> IF i = 1 THEN n ELSE 0]

UnmarshalCommandAMF0(raw) ==
  LET payload == UnmarshalAmf0(raw.body)
  IN Provided(/\ payload.ok
              /\ Len(payload.item) >= 3
              /\ payload.item[1].marker = String
              /\ payload.item[2].marker = Number,
              [kind |-> "CommandAMF0", from |-> raw.from,
               name |-> payload.item[1].text, commandID |-> IntOf(payload.item[2].bits),
               data |-> Drop(payload.item, 2)])
MarshalCommandAMF0(m) ==
  Raw(m.from, TypeCommandAMF0, 0,
      MarshalAmf0(<<StringOf(m.name), NumberOf(FloatOf(m.commandID))>> \o m.data))

UnmarshalDataAMF0(raw) ==
  LET payload == UnmarshalAmf0(raw.body)
  IN Provided(payload.ok, [kind |-> "DataAMF0", from |-> raw.from, data |-> payload.item])
MarshalDataAMF0(m) == Raw(m.from, TypeDataAMF0, 0, MarshalAmf0(m.data))

-----------------------------------------------------------------------------
(* Configurations.                                                         *)

ParsesAs(config, known) == Len(config) = 1 /\ config[1] \in known

\* h264FindParams: one non-empty SPS and one non-empty PPS.
H264FindParams(avcc) ==
  \A sizes \in {avcc.sps, avcc.pps} : Len(sizes) = 1 /\ sizes[1] > 0

VPS == 32
SPS == 33
PPS == 34

ArraysOf(hvcc, type) == {i \in DOMAIN hvcc : hvcc[i].type = type}

\* Mutant: the units may be empty.
EmptyUnitsToo(hvcc) ==
  \A type \in {VPS, SPS, PPS} : \E i \in DOMAIN hvcc : ArraysOf(hvcc, type) = {i}

\* h265FindParams: one array of each type, with one non-empty unit.
H265FindParams(hvcc) ==
  \A type \in {VPS, SPS, PPS} :
    \E i \in DOMAIN hvcc :
      /\ ArraysOf(hvcc, type) = {i}
      /\ Len(hvcc[i].sizes) = 1 /\ hvcc[i].sizes[1] > 0

AVCConfigFound(config) ==
  ParsesAs(config, DOMAIN AVCConfigs) /\ H264FindParams(AVCConfigs[config[1]])
HEVCConfigFound(config) ==
  ParsesAs(config, DOMAIN HEVCConfigs) /\ H265FindParams(HEVCConfigs[config[1]])

-----------------------------------------------------------------------------
(* Legacy audio.                                                           *)

CodecMPEG1Audio == 2
CodecLPCM == 3
CodecPCMA == 7
CodecPCMU == 8
CodecMPEG4Audio == 10
AudioAACTypeConfig == 0
AudioAACTypeAU == 1

\* A message of a first byte of codec, rate, depth and channels.
AudioOf(from, dts, head, aacType, config, au) ==
  [kind |-> "Audio", from |-> from, dts |-> dts, codec |-> head \div 16, rate |-> (head \div 4) % 4,
   depth |-> (head \div 2) % 2, stereo |-> head % 2 # 0,
   aacType |-> aacType, config |-> config, au |-> au]
EmptyAudio(from, dts) == AudioOf(from, dts, 0, 0, <<>>, <<>>)

\* Audio.unmarshal.
UnmarshalAudio(raw) ==
  LET head == raw.body[1]
      rest == Drop(raw.body, 2)
      Of(aacType, config, au) == AudioOf(raw.from, raw.dts, head, aacType, config, au)
  IN CASE raw.body = <<>> -> EmptyAudio(raw.from, raw.dts)
       [] Len(raw.body) = 1 -> Refused
       [] Len(raw.body) > 1 /\ head \div 16 \in {CodecMPEG1Audio, CodecPCMA, CodecPCMU, CodecLPCM} ->
            Of(0, <<>>, Tail(raw.body))
       [] Len(raw.body) > 1 /\ head \div 16 = CodecMPEG4Audio /\ raw.body[2] = AudioAACTypeConfig ->
            Provided(rest = <<>> \/ ParsesAs(rest, Configs), Of(AudioAACTypeConfig, rest, <<>>))
       [] Len(raw.body) > 1 /\ head \div 16 = CodecMPEG4Audio /\ raw.body[2] = AudioAACTypeAU ->
            Provided(rest # <<>>, Of(AudioAACTypeAU, <<>>, rest))
       [] OTHER -> Refused

MarshalAudio(m) ==
  LET head == m.codec * 16 + m.rate * 4 + m.depth * 2 + (IF m.stereo THEN 1 ELSE 0)
      aac == IF m.aacType = AudioAACTypeConfig THEN m.config ELSE m.au
  IN Raw(m.from, TypeAudio, m.dts,
         CASE m.codec = 0 -> <<>>
           [] m.codec = CodecMPEG4Audio -> <<head, m.aacType>> \o aac
           [] OTHER -> <<head>> \o m.au)

-----------------------------------------------------------------------------
(* Legacy video.                                                           *)

CodecH264 == 7
CodecH265 == 12
KeyFrame == 1
InterFrame == 2
Command == 5
PacketTypeConfig == 0
PacketTypeAU == 1
PacketTypeEOS == 2

\* Milliseconds in 24 bits, signed when they are read.
SignBit == 8388608
\* Mutant: the sign is not extended.
DeltaUnsigned(bytes) == bytes[1] * 65536 + bytes[2] * 256 + bytes[3]

DeltaOf(bytes) ==
  LET n == bytes[1] * 65536 + bytes[2] * 256 + bytes[3]
  IN IF n >= SignBit THEN n - 2 * SignBit ELSE n
DeltaBytes(delta) ==
  LET n == delta % (2 * SignBit) IN <<n \div 65536, (n \div 256) % 256, n % 256>>

\* The deprecated fields follow the others.
VideoOf(from, dts, frameType, command, codec, packetType, delta, config, au) ==
  [kind |-> "Video", from |-> from, dts |-> dts, frameType |-> frameType,
   isKeyFrame |-> frameType = KeyFrame, command |-> command, codec |-> codec,
   packetType |-> packetType, type |-> packetType, delta |-> delta, config |-> config, au |-> au]

\* Video.unmarshal.
UnmarshalVideo(raw) ==
  LET b == raw.body
      frameType == IF b[1] \div 16 \in {KeyFrame, Command} THEN b[1] \div 16 ELSE InterFrame
      codec == b[1] % 16
      rest == Drop(b, 5)
      Packet(config, au) ==
        VideoOf(raw.from, raw.dts, frameType, 0, codec, b[2], DeltaOf(SubSeq(b, 3, 5)), config, au)
  IN CASE Len(b) < 2 -> Refused
       [] Len(b) >= 2 /\ frameType = Command ->
            Provided(b[2] \in {0, 1}, VideoOf(raw.from, raw.dts, Command, b[2], 0, 0, 0, <<>>, <<>>))
       [] Len(b) >= 5 /\ frameType # Command /\ codec \in {CodecH264, CodecH265} ->
            CASE b[2] = PacketTypeConfig ->
                   Provided(IF codec = CodecH264 THEN rest = <<>> \/ AVCConfigFound(rest)
                                                 ELSE HEVCConfigFound(rest),
                            Packet(rest, <<>>))
              [] b[2] = PacketTypeAU -> Provided(rest # <<>>, Packet(<<>>, rest))
              [] b[2] = PacketTypeEOS -> Packet(<<>>, <<>>)
              [] OTHER -> Refused
       [] OTHER -> Refused

\* Video.marshal: the deprecated fields stand in for the frame type and prevail
\* over the packet type.
FrameTypeOf(m) ==
  CASE m.frameType # 0 -> m.frameType
    [] m.frameType = 0 /\ m.isKeyFrame -> KeyFrame
    [] m.frameType = 0 /\ ~m.isKeyFrame -> InterFrame
PacketTypeOf(m) == IF m.type # 0 THEN m.type ELSE m.packetType

MarshalVideo(m) ==
  Raw(m.from, TypeVideo, m.dts,
      IF FrameTypeOf(m) = Command THEN <<Command * 16, m.command>>
      ELSE <<FrameTypeOf(m) * 16 + m.codec, PacketTypeOf(m)>> \o DeltaBytes(m.delta) \o
           CASE PacketTypeOf(m) = PacketTypeConfig -> m.config
             [] PacketTypeOf(m) = PacketTypeAU -> m.au
             [] OTHER -> <<>>)

-----------------------------------------------------------------------------
(* Extended messages: marker and extended type, FourCC, the rest.          *)

AudioExTypes ==
  [type \in {0, 1, 2, 4, 5} |->
     CASE type = 0 -> "AudioExSequenceStart"
       [] type = 1 -> "AudioExCodedFrames"
       [] type = 2 -> "AudioExSequenceEnd"
       [] type = 4 -> "AudioExMultichannelConfig"
       [] type = 5 -> "AudioExMultitrack"]
VideoExTypes ==
  [type \in {0, 1, 2, 3, 4, 6} |->
     CASE type = 0 -> "VideoExSequenceStart"
       [] type = 1 -> "VideoExCodedFrames"
       [] type = 2 -> "VideoExSequenceEnd"
       [] type = 3 -> "VideoExFramesX"
       [] type = 4 -> "VideoExMetadata"
       [] type = 6 -> "VideoExMultitrack"]
AudioExMark == 9 * 16
VideoExMark == 128

FourCCIn(raw) == SubSeq(raw.body, 2, 5)
RestOf(raw) == Drop(raw.body, 5)
AudioExBody(m, rest) == <<AudioExMark + KeyOf(AudioExTypes, m.kind)>> \o m.fourCC \o rest
VideoExBody(m, rest) == <<VideoExMark + KeyOf(VideoExTypes, m.kind)>> \o m.fourCC \o rest

UnmarshalAudioExSequenceStart(raw) ==
  Provided(/\ Len(raw.body) >= 5
           /\ \/ FourCCIn(raw) \in {FourCCAC3, FourCCMP3} /\ RestOf(raw) = <<>>
              \/ FourCCIn(raw) \in {FourCCOpus, FourCCFLAC, FourCCMP4A} /\ ParsesAs(RestOf(raw), Configs),
           [kind |-> "AudioExSequenceStart", from |-> raw.from, fourCC |-> FourCCIn(raw),
            config |-> RestOf(raw)])
MarshalAudioExSequenceStart(m) == Raw(m.from, TypeAudio, 0, AudioExBody(m, m.config))

UnmarshalAudioExCodedFrames(raw) ==
  Provided(Len(raw.body) >= 6 /\ FourCCIn(raw) \in AudioFourCCs,
           [kind |-> "AudioExCodedFrames", from |-> raw.from, dts |-> raw.dts,
            fourCC |-> FourCCIn(raw), payload |-> RestOf(raw)])
MarshalAudioExCodedFrames(m) == Raw(m.from, TypeAudio, m.dts, AudioExBody(m, m.payload))

UnmarshalAudioExSequenceEnd(raw) ==
  Provided(Len(raw.body) = 5 /\ FourCCIn(raw) \in AudioFourCCs,
           [kind |-> "AudioExSequenceEnd", from |-> raw.from, fourCC |-> FourCCIn(raw)])
MarshalAudioExSequenceEnd(m) == Raw(m.from, TypeAudio, 0, AudioExBody(m, <<>>))

OrderUnspecified == 0
OrderNative == 1
OrderCustom == 2

UnmarshalAudioExMultichannelConfig(raw) ==
  LET config == [kind |-> "AudioExMultichannelConfig", from |-> raw.from, fourCC |-> FourCCIn(raw),
                 order |-> raw.body[6], count |-> raw.body[7], mapping |-> 0, flags |-> <<0, 0, 0, 0>>]
      more == Drop(raw.body, 7)
  IN IF Len(raw.body) < 7 \/ FourCCIn(raw) \notin AudioFourCCs THEN Refused
     ELSE CASE raw.body[6] = OrderCustom -> Provided(Len(more) = 1, [config EXCEPT !.mapping = more[1]])
            [] raw.body[6] = OrderNative -> Provided(Len(more) = 4, [config EXCEPT !.flags = more])
            [] raw.body[6] = OrderUnspecified -> Provided(more = <<>>, config)
            [] OTHER -> Refused
MarshalAudioExMultichannelConfig(m) ==
  Raw(m.from, TypeAudio, 0,
      AudioExBody(m, <<m.order, m.count>> \o
                     CASE m.order = OrderCustom -> <<m.mapping>>
                       [] m.order = OrderNative -> m.flags
                       [] OTHER -> <<>>))

UnmarshalVideoExSequenceStart(raw) ==
  Provided(/\ Len(raw.body) >= 5
           /\ \/ FourCCIn(raw) \in {FourCCAV1, FourCCVP9} /\ ParsesAs(RestOf(raw), Configs)
              \/ FourCCIn(raw) = FourCCHEVC /\ HEVCConfigFound(RestOf(raw))
              \/ FourCCIn(raw) = FourCCAVC /\ AVCConfigFound(RestOf(raw)),
           [kind |-> "VideoExSequenceStart", from |-> raw.from, fourCC |-> FourCCIn(raw),
            config |-> RestOf(raw)])
MarshalVideoExSequenceStart(m) == Raw(m.from, TypeVideo, 0, VideoExBody(m, m.config))

UnmarshalVideoExCodedFrames(raw) ==
  LET frames == [kind |-> "VideoExCodedFrames", from |-> raw.from, dts |-> raw.dts,
                 fourCC |-> FourCCIn(raw), delta |-> 0, payload |-> RestOf(raw)]
  IN CASE Len(raw.body) >= 6 /\ FourCCIn(raw) \in VideoFourCCs \ Reordering -> frames
       [] Len(raw.body) >= 9 /\ FourCCIn(raw) \in Reordering ->
            [frames EXCEPT !.delta = DeltaOf(SubSeq(raw.body, 6, 8)), !.payload = Drop(raw.body, 8)]
       [] OTHER -> Refused
MarshalVideoExCodedFrames(m) ==
  Raw(m.from, TypeVideo, m.dts,
      VideoExBody(m, (IF m.fourCC \in Reordering THEN DeltaBytes(m.delta) ELSE <<>>) \o m.payload))

UnmarshalVideoExFramesX(raw) ==
  Provided(Len(raw.body) >= 6 /\ FourCCIn(raw) \in VideoFourCCs,
           [kind |-> "VideoExFramesX", from |-> raw.from, dts |-> raw.dts,
            fourCC |-> FourCCIn(raw), payload |-> RestOf(raw)])
MarshalVideoExFramesX(m) == Raw(m.from, TypeVideo, m.dts, VideoExBody(m, m.payload))

UnmarshalVideoExSequenceEnd(raw) ==
  Provided(Len(raw.body) = 5 /\ FourCCIn(raw) \in VideoFourCCs,
           [kind |-> "VideoExSequenceEnd", from |-> raw.from, fourCC |-> FourCCIn(raw)])
MarshalVideoExSequenceEnd(m) == Raw(m.from, TypeVideo, 0, VideoExBody(m, <<>>))

UnmarshalVideoExMetadata(raw) ==
  LET payload == UnmarshalAmf0(RestOf(raw))
  IN Provided(/\ Len(raw.body) >= 6
              /\ FourCCIn(raw) \in {FourCCAV1, FourCCVP9, FourCCHEVC}
              /\ payload.ok,
              [kind |-> "VideoExMetadata", from |-> raw.from, dts |-> raw.dts,
               fourCC |-> FourCCIn(raw), data |-> payload.item])
MarshalVideoExMetadata(m) == Raw(m.from, TypeVideo, m.dts, VideoExBody(m, MarshalAmf0(m.data)))

-----------------------------------------------------------------------------
(* Multitrack messages: one track, and a message without its first byte.   *)

\* The body of the wrapped message: its FourCC, and what follows the track id.
WrappedRaw(raw) == [raw EXCEPT !.body = <<0>> \o SubSeq(raw.body, 3, 6) \o Drop(raw.body, 7)]

Multitrack(kind, raw, wrapped) ==
  Provided(wrapped # Refused, [kind |-> kind, trackID |-> raw.body[7], wrapped |-> wrapped])
OneTrack(raw) == Len(raw.body) >= 7 /\ raw.body[2] \div 16 = 0

UnmarshalAudioExMultitrack(raw) ==
  IF ~OneTrack(raw) THEN Refused
  ELSE Multitrack("AudioExMultitrack", raw,
         CASE raw.body[2] = 0 -> UnmarshalAudioExSequenceStart(WrappedRaw(raw))
           [] raw.body[2] = 1 -> UnmarshalAudioExCodedFrames(WrappedRaw(raw))
           [] raw.body[2] = 2 -> UnmarshalAudioExSequenceEnd(WrappedRaw(raw))
           [] raw.body[2] = 4 -> UnmarshalAudioExMultichannelConfig(WrappedRaw(raw))
           [] OTHER -> Refused)

UnmarshalVideoExMultitrack(raw) ==
  IF ~OneTrack(raw) THEN Refused
  ELSE Multitrack("VideoExMultitrack", raw,
         CASE raw.body[2] = 0 -> UnmarshalVideoExSequenceStart(WrappedRaw(raw))
           [] raw.body[2] = 1 -> UnmarshalVideoExCodedFrames(WrappedRaw(raw))
           [] raw.body[2] = 2 -> UnmarshalVideoExSequenceEnd(WrappedRaw(raw))
           [] raw.body[2] = 3 -> UnmarshalVideoExFramesX(WrappedRaw(raw))
           [] OTHER -> Refused)

\* A message inside a multitrack message.
MarshalWrapped(m) ==
  CASE m.kind = "AudioExSequenceStart" -> MarshalAudioExSequenceStart(m)
    [] m.kind = "AudioExCodedFrames" -> MarshalAudioExCodedFrames(m)
    [] m.kind = "AudioExSequenceEnd" -> MarshalAudioExSequenceEnd(m)
    [] m.kind = "AudioExMultichannelConfig" -> MarshalAudioExMultichannelConfig(m)
    [] m.kind = "VideoExSequenceStart" -> MarshalVideoExSequenceStart(m)
    [] m.kind = "VideoExCodedFrames" -> MarshalVideoExCodedFrames(m)
    [] m.kind = "VideoExSequenceEnd" -> MarshalVideoExSequenceEnd(m)
    [] m.kind = "VideoExFramesX" -> MarshalVideoExFramesX(m)

MultitrackBody(mark, m, body) ==
  <<mark, body[1] % 16>> \o SubSeq(body, 2, 5) \o <<m.trackID>> \o Drop(body, 5)

\* Mutant: the track id is left zero.
WithoutTrackID(m) ==
  LET raw == MarshalWrapped(m.wrapped)
  IN [raw EXCEPT !.body = MultitrackBody(VideoExMark + 6, [m EXCEPT !.trackID = 0], @)]

MarshalAudioExMultitrack(m) ==
  LET raw == MarshalWrapped(m.wrapped)
  IN [raw EXCEPT !.body = MultitrackBody(AudioExMark + 5, m, @)]
MarshalVideoExMultitrack(m) ==
  LET raw == MarshalWrapped(m.wrapped)
  IN [raw EXCEPT !.body = MultitrackBody(VideoExMark + 6, m, @)]

-----------------------------------------------------------------------------
(* Message.marshal and Message.unmarshal by type.                          *)

MarshalMessage(m) ==
  CASE m.kind \in {Uint32Types[t] : t \in DOMAIN Uint32Types} -> MarshalUint32(m)
    [] m.kind \in {UserControlTypes[t] : t \in DOMAIN UserControlTypes} -> MarshalUserControl(m)
    [] m.kind = "SetPeerBandwidth" -> MarshalSetPeerBandwidth(m)
    [] m.kind = "UserControlSetBufferLength" -> MarshalSetBufferLength(m)
    [] m.kind = "CommandAMF0" -> MarshalCommandAMF0(m)
    [] m.kind = "DataAMF0" -> MarshalDataAMF0(m)
    [] m.kind = "Audio" -> MarshalAudio(m)
    [] m.kind = "Video" -> MarshalVideo(m)
    [] m.kind = "VideoExMetadata" -> MarshalVideoExMetadata(m)
    [] m.kind = "AudioExMultitrack" -> MarshalAudioExMultitrack(m)
    [] m.kind = "VideoExMultitrack" -> MarshalVideoExMultitrack(m)
    [] OTHER -> MarshalWrapped(m)

AllocateUserControl(raw) ==
  LET type == Uint16(raw.body)
  IN CASE Len(raw.body) < 2 -> Refused
       [] Len(raw.body) >= 2 /\ type \in DOMAIN UserControlTypes -> UnmarshalUserControl(raw, type)
       [] Len(raw.body) >= 2 /\ type = UserControlSetBufferLength -> UnmarshalSetBufferLength(raw)
       [] Len(raw.body) >= 2 /\ type \in UserControlUndocumented -> [kind |-> "UserControlUndocumented"]
       [] OTHER -> Refused

AllocateAudio(raw) ==
  LET mark == raw.body[1]
  IN IF raw.body = <<>> \/ mark \div 16 # 9 THEN UnmarshalAudio(raw)
     ELSE CASE mark % 16 = 0 -> UnmarshalAudioExSequenceStart(raw)
            [] mark % 16 = 1 -> UnmarshalAudioExCodedFrames(raw)
            [] mark % 16 = 2 -> UnmarshalAudioExSequenceEnd(raw)
            [] mark % 16 = 4 -> UnmarshalAudioExMultichannelConfig(raw)
            [] mark % 16 = 5 -> UnmarshalAudioExMultitrack(raw)
            [] OTHER -> Refused

AllocateVideo(raw) ==
  LET mark == raw.body[1]
  IN CASE raw.body = <<>> -> Refused
       [] raw.body # <<>> /\ mark < VideoExMark -> UnmarshalVideo(raw)
       [] raw.body # <<>> /\ mark >= VideoExMark ->
            CASE mark % 16 = 0 -> UnmarshalVideoExSequenceStart(raw)
              [] mark % 16 = 1 -> UnmarshalVideoExCodedFrames(raw)
              [] mark % 16 = 2 -> UnmarshalVideoExSequenceEnd(raw)
              [] mark % 16 = 3 -> UnmarshalVideoExFramesX(raw)
              [] mark % 16 = 4 -> UnmarshalVideoExMetadata(raw)
              [] mark % 16 = 6 -> UnmarshalVideoExMultitrack(raw)
              [] OTHER -> Refused

UnmarshalMessage(raw) ==
  CASE raw.type \in DOMAIN Uint32Types -> UnmarshalUint32(raw)
    [] raw.type = TypeSetPeerBandwidth -> UnmarshalSetPeerBandwidth(raw)
    [] raw.type = TypeUserControl -> AllocateUserControl(raw)
    [] raw.type = TypeCommandAMF0 -> UnmarshalCommandAMF0(raw)
    [] raw.type = TypeDataAMF0 -> UnmarshalDataAMF0(raw)
    [] raw.type = TypeAudio -> AllocateAudio(raw)
    [] raw.type = TypeVideo -> AllocateVideo(raw)
    [] OTHER -> Refused

-----------------------------------------------------------------------------
(* The messages of each type: the fields that their types document, with   *)
(* what marshal does not lose and unmarshal does not refuse.               *)

Address == Nat \X Nat  \* chunk stream and message stream
Time == Nat
Word == {bytes \in Seq(Byte) : Len(bytes) = 4}
Payload == Seq(Byte) \ {<<>>}
Shift == (-SignBit)..(SignBit - 1)

Uint32Messages == [kind : {Uint32Types[t] : t \in DOMAIN Uint32Types}, value : Word]
UserControls == [kind : {UserControlTypes[t] : t \in DOMAIN UserControlTypes}, value : Word]
SetPeerBandwidths == [kind : {"SetPeerBandwidth"}, value : Word, limit : Byte]
SetBufferLengths == [kind : {"UserControlSetBufferLength"}, streamID : Word, bufferLength : Word]

\* A command has an argument at least.
CommandMessages ==
  [kind : {"CommandAMF0"}, from : Address, name : Text, commandID : Byte,
   data : Seq(Amf0Data) \ {<<>>}]
DataMessages == [kind : {"DataAMF0"}, from : Address, data : Seq(Amf0Data)]

Audios ==
  {m \in [kind : {"Audio"}, from : Address, dts : Time, codec : Byte, rate : 0..3, depth : 0..1,
          stereo : BOOLEAN, aacType : Byte, config : Seq(Byte), au : Seq(Byte)] :
     \/ m = EmptyAudio(m.from, m.dts)
     \/ /\ m.codec \in {CodecMPEG1Audio, CodecPCMA, CodecPCMU, CodecLPCM}
        /\ m.aacType = 0 /\ m.config = <<>> /\ m.au # <<>>
     \/ /\ m.codec = CodecMPEG4Audio /\ m.aacType = AudioAACTypeConfig
        /\ m.config = <<>> \/ ParsesAs(m.config, Configs)
        /\ m.au = <<>>
     \/ m.codec = CodecMPEG4Audio /\ m.aacType = AudioAACTypeAU /\ m.config = <<>> /\ m.au # <<>>}

\* What a packet of each type holds.
VideoHolds(codec, packetType, config, au) ==
  \/ /\ packetType = PacketTypeConfig /\ au = <<>>
     /\ \/ codec = CodecH264 /\ (config = <<>> \/ AVCConfigFound(config))
        \/ codec = CodecH265 /\ HEVCConfigFound(config)
  \/ packetType = PacketTypeAU /\ config = <<>> /\ au # <<>>
  \/ packetType = PacketTypeEOS /\ config = <<>> /\ au = <<>>

Videos ==
  {m \in [kind : {"Video"}, from : Address, dts : Time, frameType : {0, KeyFrame, InterFrame, Command},
          isKeyFrame : BOOLEAN, command : {0, 1}, codec : {0, CodecH264, CodecH265},
          packetType : 0..2, type : 0..2, delta : Shift, config : Seq(Byte), au : Seq(Byte)] :
     IF m.frameType = Command
     THEN /\ ~m.isKeyFrame /\ m.codec = 0 /\ m.packetType = 0 /\ m.type = 0
          /\ m.delta = 0 /\ m.config = <<>> /\ m.au = <<>>
     ELSE m.command = 0 /\ m.codec # 0 /\ VideoHolds(m.codec, PacketTypeOf(m), m.config, m.au)}

AudioExSequenceStarts ==
  {m \in [kind : {"AudioExSequenceStart"}, from : Address, fourCC : AudioFourCCs, config : Seq(Byte)] :
     IF m.fourCC \in {FourCCAC3, FourCCMP3} THEN m.config = <<>> ELSE ParsesAs(m.config, Configs)}
AudioExCodedFrames ==
  [kind : {"AudioExCodedFrames"}, from : Address, dts : Time, fourCC : AudioFourCCs, payload : Payload]
AudioExSequenceEnds == [kind : {"AudioExSequenceEnd"}, from : Address, fourCC : AudioFourCCs]
AudioExMultichannelConfigs ==
  {m \in [kind : {"AudioExMultichannelConfig"}, from : Address, fourCC : AudioFourCCs,
          order : {OrderUnspecified, OrderNative, OrderCustom}, count : Byte, mapping : Byte, flags : Word] :
     /\ m.order # OrderCustom => m.mapping = 0
     /\ m.order # OrderNative => m.flags = <<0, 0, 0, 0>>}

VideoExSequenceStarts ==
  {m \in [kind : {"VideoExSequenceStart"}, from : Address, fourCC : VideoFourCCs, config : Seq(Byte)] :
     \/ m.fourCC \in {FourCCAV1, FourCCVP9} /\ ParsesAs(m.config, Configs)
     \/ m.fourCC = FourCCHEVC /\ HEVCConfigFound(m.config)
     \/ m.fourCC = FourCCAVC /\ AVCConfigFound(m.config)}
VideoExCodedFrames ==
  {m \in [kind : {"VideoExCodedFrames"}, from : Address, dts : Time, fourCC : VideoFourCCs,
          delta : Shift, payload : Payload] :
     m.fourCC \notin Reordering => m.delta = 0}
VideoExFramesX ==
  [kind : {"VideoExFramesX"}, from : Address, dts : Time, fourCC : VideoFourCCs, payload : Payload]
VideoExSequenceEnds == [kind : {"VideoExSequenceEnd"}, from : Address, fourCC : VideoFourCCs]
VideoExMetadatas ==
  [kind : {"VideoExMetadata"}, from : Address, dts : Time,
   fourCC : {FourCCAV1, FourCCVP9, FourCCHEVC}, data : Seq(Amf0Data) \ {<<>>}]

\* What a multitrack message may wrap.
AudioExs ==
  AudioExSequenceStarts \cup AudioExCodedFrames \cup AudioExSequenceEnds \cup AudioExMultichannelConfigs
VideoExs ==
  VideoExSequenceStarts \cup VideoExCodedFrames \cup VideoExFramesX \cup VideoExSequenceEnds
AudioExMultitracks == [kind : {"AudioExMultitrack"}, trackID : Byte, wrapped : AudioExs]
VideoExMultitracks == [kind : {"VideoExMultitrack"}, trackID : Byte, wrapped : VideoExs]

Writable ==
  Uint32Messages \cup UserControls \cup SetPeerBandwidths \cup SetBufferLengths
  \cup CommandMessages \cup DataMessages \cup Audios \cup Videos
  \cup AudioExs \cup VideoExs \cup VideoExMetadatas \cup AudioExMultitracks \cup VideoExMultitracks
===============================================================================
