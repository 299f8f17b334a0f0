---------------------------- MODULE MessagePath ----------------------------
(***************************************************************************)
(* A message on its way from peer to peer through a program that passes    *)
(* on what it receives: written by a message.Writer of this library or by  *)
(* another program, read by a message.Reader, given to another Writer and  *)
(* read again.  What another program sends differs from what               *)
(* this Writer sends in a byte, in its length or in its message type; a    *)
(* Reader that refuses a message ends the connection, and the next message *)
(* comes over another.  The transport of the body, in chunks, is the       *)
(* subject of ChunkStream.                                                 *)
(***************************************************************************)
EXTENDS MessageCodec, SequencesExt

CONSTANTS
  Messages,  \* messages that the first program writes
  Marks,     \* bytes that another program may have put first in a body
  Others,    \* bytes that it may have put elsewhere
  Types      \* message types that it may have given a body

ASSUME MessagePathAssumption ==
  /\ Messages \subseteq Writable
  /\ Marks \subseteq 0..255 /\ Others \subseteq 0..255
  /\ Types \subseteq 0..255

VARIABLES
  stage,   \* "start", "written", "read" or "republished": where the message is
  way,     \* how the first body was made: "ours", "cut", "altered"
  sent,    \* the message of the first program
  raw,     \* the raw message under way
  got,     \* what the first Reader made of it
  reread   \* what the second Reader made of it

vars == <<stage, way, sent, raw, got, reread>>

None == [kind |-> "none"]
Empty == Raw(ControlChunkStream, 0, 0, <<>>)

Init ==
  /\ stage = "start" /\ way = "ours" /\ sent = None
  /\ raw = Empty /\ got = None /\ reread = None

\* Writer.Write.
Write ==
  /\ \/ stage \in {"start", "republished"}
     \/ stage = "read" /\ (got = Refused \/ got.kind = "UserControlUndocumented")
  /\ \E m \in Messages : sent' = m /\ raw' = MarshalMessage(m)
  /\ stage' = "written" /\ way' = "ours"
  /\ got' = None /\ reread' = None

\* The body is another program's.
Foreign(body, type) ==
  /\ stage = "written" /\ way = "ours"
  /\ raw' = [raw EXCEPT !.body = body, !.type = type]
  /\ UNCHANGED <<stage, sent, got, reread>>

Cut ==
  /\ \E n \in 0..(Len(raw.body) - 1) : Foreign(SubSeq(raw.body, 1, n), raw.type)
  /\ way' = "cut"

Alter ==
  /\ \/ \E i \in DOMAIN raw.body : \E b \in IF i = 1 THEN Marks ELSE Others :
          Foreign([raw.body EXCEPT ![i] = b], raw.type)
     \/ \E type \in Types : Foreign(raw.body, type)
  /\ way' = "altered"

\* Reader.Read.
Read ==
  /\ stage = "written"
  /\ got' = UnmarshalMessage(raw)
  /\ stage' = "read"
  /\ UNCHANGED <<way, sent, raw, reread>>

\* The message that was read goes to another peer.  There is no marshal for an
\* undocumented user control message: it panics.
Republish ==
  /\ stage = "read" /\ got # Refused /\ got.kind # "UserControlUndocumented"
  /\ raw' = MarshalMessage(got)
  /\ reread' = UnmarshalMessage(raw')
  /\ stage' = "republished"
  /\ UNCHANGED <<way, sent, got>>

Next == Write \/ Cut \/ Alter \/ Read \/ Republish

Spec == Init /\ [][Next]_vars

-----------------------------------------------------------------------------
(* What is asked of the codec of AMF0.                                     *)

\* Of these values, Marshal gives bytes, of which Unmarshal makes the same values;
\* of a part of those bytes it makes the first values or none.  What it accepts of
\* these bodies are values, one at least if there are any bytes.
AmfKeeps(values, bodies) ==
  /\ \A data \in values :
       /\ MarshalAmf0(data) \in Seq(Byte)
       /\ UnmarshalAmf0(MarshalAmf0(data)) = Got(data, <<>>)
       /\ \A n \in 0..Len(MarshalAmf0(data)) :
            LET part == UnmarshalAmf0(SubSeq(MarshalAmf0(data), 1, n))
            IN part = Bad \/ \E k \in 0..Len(data) : part = Got(SubSeq(data, 1, k), <<>>)
  /\ \A body \in bodies :
       LET read == UnmarshalAmf0(body)
       IN \/ read = Bad
          \/ /\ read.item \in Seq(Amf0Data) /\ read = Got(read.item, <<>>)
             /\ body # <<>> => read.item # <<>>

\* It keeps all values and bodies; strings and numbers are among the values.
AmfFaithful ==
  /\ AmfKeeps(Seq(Amf0Data), Seq(Byte))
  /\ \A text \in Text : StringOf(text) \in Amf0Data
  /\ \A bits \in Bits : NumberOf(bits) \in Amf0Data
  /\ \A value \in Amf0Data : value.marker = String => \E text \in Text : value = StringOf(text)
  /\ \A value \in Amf0Data : value.marker = Number => \E bits \in Bits : value = NumberOf(bits)

-----------------------------------------------------------------------------
(* Properties.                                                             *)

\* What a Reader returns for a message: the deprecated fields of Video follow
\* the fields that replace them.
AsRead(m) ==
  IF m.kind # "Video" \/ m.frameType = Command THEN m
  ELSE [m EXCEPT !.frameType = FrameTypeOf(m), !.isKeyFrame = (FrameTypeOf(m) = KeyFrame),
                 !.packetType = PacketTypeOf(m), !.type = PacketTypeOf(m)]

\* A message written by a Writer is read by a Reader as it was: sizes computed
\* before a body is filled match what fills it, signed and multi-byte fields
\* come back, wrapped messages come out whole.
RoundTrip == stage = "read" /\ way = "ours" => got = AsRead(sent)

\* Whoever encoded a message, the Reader of the next peer makes the same of it
\* once it has been read and written again.
Republished == stage = "republished" => reread = got

Tails == {"payload", "au", "config", "data"}

\* Equal but for the end of what comes last.
Shortened(short, long) ==
  /\ DOMAIN short = DOMAIN long
  /\ \A field \in DOMAIN short \ {"wrapped"} :
       IF field \in Tails THEN IsPrefix(short[field], long[field]) ELSE short[field] = long[field]

\* A body that lacks its end is refused, or what is missing is missing from the
\* end of the message: no field is made of bytes of another, no string or array
\* loses a part of itself.
CutShort ==
  stage = "read" /\ way = "cut" =>
    \/ got = Refused
    \/ got = EmptyAudio(raw.from, raw.dts) /\ raw.body = <<>>
    \/ /\ Shortened(got, AsRead(sent))
       /\ "wrapped" \in DOMAIN got => Shortened(got.wrapped, sent.wrapped)

\* The first parameter set of each kind is there: what track discovery takes from a
\* configuration without looking (reader.go).
HasFirst(sizes) == sizes # <<>> /\ sizes[1] > 0
HasH264Parameters(config) ==
  HasFirst(AVCConfigs[config[1]].sps) /\ HasFirst(AVCConfigs[config[1]].pps)
HasH265Parameters(config) ==
  \A type \in {VPS, SPS, PPS} :
    \E i \in DOMAIN HEVCConfigs[config[1]] :
      LET arr == HEVCConfigs[config[1]][i] IN arr.type = type /\ HasFirst(arr.sizes)

\* Every H264 or H265 configuration that reaches the application has non-empty
\* parameter sets, as the comments of Video and VideoExSequenceStart promise,
\* in legacy, extended and multitrack messages, whoever encoded them.
ConfigsComplete ==
  stage \in {"read", "republished"} =>
    \A m \in {got} \cup (IF "wrapped" \in DOMAIN got THEN {got.wrapped} ELSE {}) :
      /\ m.kind = "Video" /\ m.config # <<>> =>
           IF m.codec = CodecH264 THEN HasH264Parameters(m.config) ELSE HasH265Parameters(m.config)
      /\ m.kind = "VideoExSequenceStart" =>
           /\ m.fourCC = FourCCAVC => HasH264Parameters(m.config)
           /\ m.fourCC = FourCCHEVC => HasH265Parameters(m.config)
=============================================================================
