--------------------------- MODULE MCMessagePath ---------------------------
(***************************************************************************)
(* Messages of every type, with values at the limits of their fields.      *)
(***************************************************************************)
EXTENDS MessagePath, Amf0, TLC

\* One good configuration of each codec; parameter sets that are missing, empty
\* or more than one.
MCAVCConfigs ==
  1 :> [sps |-> <<9>>, pps |-> <<4>>] @@ 2 :> [sps |-> <<9, 9>>, pps |-> <<4>>]
  @@ 3 :> [sps |-> <<9>>, pps |-> <<>>] @@ 5 :> [sps |-> <<0>>, pps |-> <<4>>]
Arr(type, sizes) == [type |-> type, sizes |-> sizes]
MCHEVCConfigs ==
  1 :> <<Arr(VPS, <<7>>), Arr(SPS, <<9>>), Arr(PPS, <<4>>), Arr(39, <<>>)>>
  @@ 2 :> <<Arr(VPS, <<7>>), Arr(SPS, <<9, 9>>), Arr(PPS, <<4>>)>>
  @@ 3 :> <<Arr(VPS, <<7>>), Arr(SPS, <<9>>)>>
  @@ 5 :> <<Arr(VPS, <<7>>), Arr(SPS, <<>>), Arr(PPS, <<4>>)>>
  @@ 8 :> <<Arr(VPS, <<7>>), Arr(SPS, <<9>>), Arr(PPS, <<0>>)>>

Wide == <<255, 0, 1, 128>>
Tag == <<116, 2>>
Items == <<StringOf(Tag), Plain(Null), NumberOf(<<1, 2, 3, 4, 5, 6, 7, 8>>)>>
Composite ==
  <<ECMAArrayOf(<<Entry(Tag, BooleanOf(TRUE)), Entry(<<9>>, StrictArrayOf(Items))>>),
    Plain(UndefinedMarker), ObjectOf(<<Entry(Tag, ObjectOf(<<>>))>>), StringOf(<<>>)>>

AudioMessages ==
  { [EmptyAudio(<<4, 1>>, 40) EXCEPT !.codec = codec, !.rate = 3, !.depth = 1, !.au = <<1, 2, 3>>]
      : codec \in {CodecMPEG1Audio, CodecLPCM, CodecPCMU} }
  \cup { EmptyAudio(<<4, 1>>, 40),
         [EmptyAudio(<<4, 1>>, 40) EXCEPT !.codec = 10, !.rate = 2, !.aacType = 1, !.stereo = TRUE, !.au = <<7, 0>>] }
  \cup { [EmptyAudio(<<4, 1>>, 0) EXCEPT !.codec = 10, !.rate = 3, !.config = c] : c \in {<<>>, <<1>>} }

VideoFrame ==
  [kind |-> "Video", from |-> <<6, 1>>, dts |-> 40, frameType |-> KeyFrame, isKeyFrame |-> FALSE,
   command |-> 0, codec |-> CodecH264, packetType |-> PacketTypeAU, type |-> 0, delta |-> 0,
   config |-> <<>>, au |-> <<>>]
Deltas == {-2^23, -40, 0, 40, 2^23 - 1}
VideoMessages ==
  { [VideoFrame EXCEPT !.delta = d, !.codec = c, !.au = <<1, 2, 0>>] : d \in Deltas, c \in {CodecH264, CodecH265} }
  \cup { [VideoFrame EXCEPT !.packetType = PacketTypeConfig, !.codec = c, !.config = <<1>>]
           : c \in {CodecH264, CodecH265} }
  \cup { [VideoFrame EXCEPT !.packetType = PacketTypeConfig],
         [VideoFrame EXCEPT !.packetType = PacketTypeEOS, !.frameType = InterFrame],
         [VideoFrame EXCEPT !.packetType = PacketTypeConfig, !.type = PacketTypeAU, !.frameType = 0, !.au = <<1>>],
         [VideoFrame EXCEPT !.frameType = 0, !.isKeyFrame = TRUE, !.au = <<1>>],
         [VideoFrame EXCEPT !.frameType = Command, !.command = 1, !.codec = 0, !.packetType = 0] }

AudioExMessages ==
  { [kind |-> "AudioExSequenceStart", from |-> <<4, 1>>, fourCC |-> f,
     config |-> IF f \in {FourCCAC3, FourCCMP3} THEN <<>> ELSE <<1>>] : f \in AudioFourCCs }
  \cup { [kind |-> "AudioExSequenceEnd", from |-> <<4, 1>>, fourCC |-> FourCCMP3],
         [kind |-> "AudioExCodedFrames", from |-> <<4, 1>>, dts |-> 40, fourCC |-> FourCCOpus, payload |-> <<5, 6>>] }
  \cup { [kind |-> "AudioExMultichannelConfig", from |-> <<4, 1>>, fourCC |-> FourCCFLAC, order |-> o, count |-> 6,
          mapping |-> IF o = OrderCustom THEN 3 ELSE 0,
          flags |-> IF o = OrderNative THEN Wide ELSE <<0, 0, 0, 0>>]
           : o \in {OrderUnspecified, OrderNative, OrderCustom} }
VideoExWrapped ==
  { [kind |-> "VideoExSequenceStart", from |-> <<6, 1>>, fourCC |-> f, config |-> <<1>>] : f \in VideoFourCCs }
  \cup { [kind |-> "VideoExCodedFrames", from |-> <<6, 1>>, dts |-> 40, fourCC |-> f,
          delta |-> IF f = FourCCHEVC THEN -40 ELSE 0, payload |-> <<5, 6>>] : f \in {FourCCAV1, FourCCHEVC} }
  \cup { [kind |-> "VideoExFramesX", from |-> <<6, 1>>, dts |-> 40, fourCC |-> FourCCAVC, payload |-> <<5, 6>>],
         [kind |-> "VideoExSequenceEnd", from |-> <<6, 1>>, fourCC |-> FourCCVP9] }
ExMessages ==
  AudioExMessages \cup VideoExWrapped
  \cup { [kind |-> "AudioExMultitrack", trackID |-> 2, wrapped |-> m] : m \in AudioExMessages }
  \cup { [kind |-> "VideoExMultitrack", trackID |-> 2, wrapped |-> m] : m \in VideoExWrapped }
  \cup { [kind |-> "VideoExMetadata", from |-> <<6, 1>>, dts |-> 40, fourCC |-> FourCCHEVC, data |-> Items] }

ControlMessages ==
  { [kind |-> Uint32Types[t], value |-> Wide] : t \in DOMAIN Uint32Types }
  \cup { [kind |-> UserControlTypes[t], value |-> Wide] : t \in DOMAIN UserControlTypes }
  \cup { [kind |-> "SetPeerBandwidth", value |-> Wide, limit |-> 2],
         [kind |-> "UserControlSetBufferLength", streamID |-> Wide, bufferLength |-> <<0, 0, 1, 0>>] }

AMF0Messages ==
  { [kind |-> "DataAMF0", from |-> <<4, 1>>, data |-> d] : d \in {<<>>, Items, Composite} }
  \cup { [kind |-> "CommandAMF0", from |-> <<3, 0>>, name |-> Tag, commandID |-> 4, data |-> d]
           : d \in {<<Plain(Null)>>, Items, Composite} }

MCMessages == AudioMessages \cup VideoMessages \cup ExMessages \cup ControlMessages \cup AMF0Messages

\* First bytes: extended messages of each type, legacy frames, AMF0 markers.
MCMarks == {2, 3, 10} \cup {16 + 12, 32 + 7, 48 + 7, 80, 160, 175} \cup {128 + t : t \in 0..6} \cup {144 + t : t \in 0..5}

\* Values as deep as those of the messages, and of what becomes of them.
MCAmf0Data == ValuesOf[3]

\* The codec of Amf0 keeps the values of the messages, and what becomes of them when
\* a byte is changed: a sample of AmfFaithful, which the theorems suppose.
Sampled == {<<>>, Items, Composite} \cup {SubSeq(Composite, i, j) : i, j \in DOMAIN Composite}
Altered(body) == {body} \cup {[body EXCEPT ![i] = b] : i \in DOMAIN body, b \in {0, 1, 2, 3, 5, 8, 9, 10, 31, 127}}
ASSUME Amf0Sampled == AmfKeeps(Sampled, UNION {Altered(Marshal(data)) : data \in Sampled})
=============================================================================
