------------------------- MODULE MessagePath_proofs -------------------------
(***************************************************************************)
(* Proofs about MessageCodec and MessagePath, for any messages of any      *)
(* length and any bytes in their place: what is written is read, what is   *)
(* passed on is read the same, what lacks its end is refused or lacks it,  *)
(* and configurations are complete.                                        *)
(*                                                                         *)
(* The codec of AMF0 is a constant: AmfFaithful says what is asked of it.  *)
(***************************************************************************)
EXTENDS MessagePath, SequenceTheorems, TLAPS

-----------------------------------------------------------------------------
(* Sequences: the parts of what is put together.                           *)

LEMMA DropProperties ==
  ASSUME NEW S, NEW s \in Seq(S), NEW n \in 0..Len(s)
  PROVE  /\ Drop(s, n) \in Seq(S) /\ Len(Drop(s, n)) = Len(s) - n
         /\ \A i \in 1..(Len(s) - n) : Drop(s, n)[i] = s[n + i]
<1>1. CASE n = Len(s)
  <2>1. Drop(s, n) = <<>>
    BY <1>1, SubSeqEmpty, LenProperties DEF Drop
  <2> QED
    BY <1>1, <2>1, LenProperties
<1>2. CASE n # Len(s)
  BY <1>2, SubSeqProperties, LenProperties DEF Drop
<1> QED
  BY <1>1, <1>2

LEMMA Take ==
  ASSUME NEW S, NEW s \in Seq(S), NEW n \in 0..Len(s)
  PROVE  /\ SubSeq(s, 1, n) \in Seq(S) /\ Len(SubSeq(s, 1, n)) = n
         /\ \A i \in 1..n : SubSeq(s, 1, n)[i] = s[i]
         /\ IsPrefix(SubSeq(s, 1, n), s)
<1>1. /\ SubSeq(s, 1, n) \in Seq(S) /\ Len(SubSeq(s, 1, n)) = n
      /\ \A i \in 1..n : SubSeq(s, 1, n)[i] = s[i]
  <2>1. CASE n = 0
    <3>1. SubSeq(s, 1, n) = <<>>
      BY <2>1, SubSeqEmpty, LenProperties
    <3> QED
      BY <2>1, <3>1, LenProperties
  <2>2. CASE n # 0
    BY <2>2, SubSeqProperties, LenProperties
  <2> QED
    BY <2>1, <2>2
<1>2. SubSeq(SubSeq(s, 1, n), 1, n) = SubSeq(s, 1, n)
  BY <1>1, SubSeqFull
<1> QED
  BY <1>1, <1>2, LenProperties DEF IsPrefix

\* A whole, of a front and a rest.
LEMMA Joined ==
  ASSUME NEW S, NEW p \in Seq(S), NEW r \in Seq(S)
  PROVE  /\ p \o r \in Seq(S) /\ Len(p \o r) = Len(p) + Len(r)
         /\ \A i \in 1..Len(p) : (p \o r)[i] = p[i]
         /\ \A i \in (Len(p) + 1)..(Len(p) + Len(r)) : (p \o r)[i] = r[i - Len(p)]
         /\ Drop(p \o r, Len(p)) = r
<1>1. /\ p \o r \in Seq(S) /\ Len(p \o r) = Len(p) + Len(r)
      /\ \A i \in 1..Len(p) : (p \o r)[i] = p[i]
      /\ \A i \in (Len(p) + 1)..(Len(p) + Len(r)) : (p \o r)[i] = r[i - Len(p)]
  BY ConcatProperties, LenProperties
<1>2. Len(p) \in Nat /\ Len(r) \in Nat
  BY LenProperties
<1>3. Len(p) \in 0..Len(p \o r) /\ Len(p \o r) - Len(p) = Len(r)
  BY <1>1, <1>2
<1>4. Drop(p \o r, Len(p)) \in Seq(S) /\ Len(Drop(p \o r, Len(p))) = Len(r)
  BY <1>1, <1>3, DropProperties
<1>5. ASSUME NEW i \in 1..Len(r) PROVE Drop(p \o r, Len(p))[i] = r[i]
  <2>1. Drop(p \o r, Len(p))[i] = (p \o r)[Len(p) + i]
    BY <1>1, <1>3, DropProperties
  <2>2. Len(p) + i \in (Len(p) + 1)..(Len(p) + Len(r)) /\ (Len(p) + i) - Len(p) = i
    BY <1>2
  <2> QED
    BY <1>1, <2>1, <2>2
<1>6. Drop(p \o r, Len(p)) = r
  BY <1>4, <1>5, SeqEqual
<1> QED
  BY <1>1, <1>6

\* Cut behind the front, a whole is the front and a part of the rest.
LEMMA CutBehind ==
  ASSUME NEW S, NEW p \in Seq(S), NEW r \in Seq(S), NEW n \in Nat,
         Len(p) <= n, n <= Len(p) + Len(r)
  PROVE  SubSeq(p \o r, 1, n) = p \o SubSeq(r, 1, n - Len(p))
<1>1. Len(p) \in Nat /\ Len(r) \in Nat
  BY LenProperties
<1> DEFINE part == SubSeq(r, 1, n - Len(p))
<1>2. /\ part \in Seq(S) /\ Len(part) = n - Len(p)
      /\ \A i \in 1..(n - Len(p)) : part[i] = r[i]
  BY <1>1, Take
<1>3. /\ p \o part \in Seq(S) /\ Len(p \o part) = n
      /\ \A i \in 1..Len(p) : (p \o part)[i] = p[i]
      /\ \A i \in (Len(p) + 1)..n : (p \o part)[i] = r[i - Len(p)]
  <2>1. Len(p) + (n - Len(p)) = n
    BY <1>1
  <2>2. /\ p \o part \in Seq(S) /\ Len(p \o part) = Len(p) + Len(part)
        /\ \A i \in 1..Len(p) : (p \o part)[i] = p[i]
        /\ \A i \in (Len(p) + 1)..(Len(p) + Len(part)) : (p \o part)[i] = part[i - Len(p)]
    BY <1>2, Joined
  <2>3. ASSUME NEW i \in (Len(p) + 1)..n PROVE (p \o part)[i] = r[i - Len(p)]
    BY <1>1, <1>2, <2>1, <2>2
  <2> QED
    BY <1>2, <2>1, <2>2, <2>3
<1>4. /\ SubSeq(p \o r, 1, n) \in Seq(S) /\ Len(SubSeq(p \o r, 1, n)) = n
      /\ \A i \in 1..n : SubSeq(p \o r, 1, n)[i] = (p \o r)[i]
  BY <1>1, Joined, Take
<1>5. /\ \A i \in 1..Len(p) : (p \o r)[i] = p[i]
      /\ \A i \in (Len(p) + 1)..(Len(p) + Len(r)) : (p \o r)[i] = r[i - Len(p)]
  BY Joined
<1>6. ASSUME NEW i \in 1..n
      PROVE  SubSeq(p \o r, 1, n)[i] = (p \o part)[i]
  <2>1. CASE i <= Len(p)
    BY <1>1, <1>3, <1>4, <1>5, <2>1
  <2>2. CASE i > Len(p)
    BY <1>1, <1>3, <1>4, <1>5, <2>2
  <2> QED
    BY <1>1, <2>1, <2>2
<1> QED
  BY <1>3, <1>4, <1>6, SeqEqual

-----------------------------------------------------------------------------
(* The extended messages: what a body of mark, FourCC and rest shows.      *)

LEMMA Words ==
  ASSUME NEW w \in Word
  PROVE  /\ w = <<w[1], w[2], w[3], w[4]>>
         /\ w[1] \in Byte /\ w[2] \in Byte /\ w[3] \in Byte /\ w[4] \in Byte
<1>1. w \in Seq(Byte) /\ Len(w) = 4
  BY DEF Word
<1>2. w[1] \in Byte /\ w[2] \in Byte /\ w[3] \in Byte /\ w[4] \in Byte
  <2>1. \A i \in 1..Len(w) : w[i] \in Byte
    BY <1>1, ElementOfSeq
  <2> QED
    BY <1>1, <2>1
<1>3. <<w[1], w[2], w[3], w[4]>> \in Seq(Byte) /\ Len(<<w[1], w[2], w[3], w[4]>>) = 4
  BY <1>2
<1>4. \A i \in 1..4 : w[i] = <<w[1], w[2], w[3], w[4]>>[i]
  OBVIOUS
<1>5. w = <<w[1], w[2], w[3], w[4]>>
  BY <1>1, <1>3, <1>4, SeqEqual
<1> QED
  BY <1>2, <1>5

LEMMA FourCCs ==
  /\ AudioFourCCs \subseteq Word /\ VideoFourCCs \subseteq Word
  /\ Reordering \subseteq VideoFourCCs
BY DEF Word, Byte, Reordering, AudioFourCCs, VideoFourCCs, FourCCAV1, FourCCVP9, FourCCHEVC, FourCCAVC, FourCCOpus,
       FourCCAC3, FourCCMP4A, FourCCMP3, FourCCFLAC

\* A body of an extended message.
Ex(mark, fourCC, rest) == <<mark>> \o fourCC \o rest

LEMMA ExParts ==
  ASSUME NEW mark \in Byte, NEW fourCC \in Word, NEW rest \in Seq(Byte)
  PROVE  LET body == Ex(mark, fourCC, rest)
         IN /\ body \in Seq(Byte) /\ Len(body) = 5 + Len(rest)
            /\ body[1] = mark /\ body # <<>>
            /\ SubSeq(body, 2, 5) = fourCC
            /\ Drop(body, 5) = rest
            /\ \A i \in 6..(5 + Len(rest)) : body[i] = rest[i - 5]
<1> DEFINE front == <<mark>> \o fourCC
           body == front \o rest
<1>1. /\ front \in Seq(Byte) /\ Len(front) = 5 /\ front[1] = mark
      /\ \A i \in 2..5 : front[i] = fourCC[i - 1]
  <2>1. fourCC \in Seq(Byte) /\ Len(fourCC) = 4 /\ <<mark>> \in Seq(Byte) /\ Len(<<mark>>) = 1
    BY DEF Word
  <2>2. /\ front \in Seq(Byte) /\ Len(front) = Len(<<mark>>) + Len(fourCC)
        /\ \A i \in 1..Len(<<mark>>) : front[i] = <<mark>>[i]
        /\ \A i \in (Len(<<mark>>) + 1)..(Len(<<mark>>) + Len(fourCC)) :
             front[i] = fourCC[i - Len(<<mark>>)]
    BY <2>1, Joined
  <2> QED
    BY <2>1, <2>2
<1> HIDE DEF front
<1>2. /\ body \in Seq(Byte) /\ Len(body) = 5 + Len(rest) /\ Drop(body, 5) = rest
      /\ \A i \in 1..5 : body[i] = front[i]
      /\ \A i \in (5 + 1)..(5 + Len(rest)) : body[i] = rest[i - 5]
  <2>1. front \in Seq(Byte)
    BY <1>1
  <2>2. body \in Seq(Byte) /\ Len(body) = Len(front) + Len(rest)
    BY <2>1, Joined
  <2>3. Drop(body, Len(front)) = rest
    BY <2>1, Joined
  <2>4. \A i \in 1..Len(front) : body[i] = front[i]
    BY <2>1, Joined
  <2>5. \A i \in (Len(front) + 1)..(Len(front) + Len(rest)) : body[i] = rest[i - Len(front)]
    BY <2>1, Joined
  <2> QED
    BY <1>1, <2>2, <2>3, <2>4, <2>5
<1> HIDE DEF body
<1>3. Len(rest) \in Nat
  BY LenProperties
<1>4. SubSeq(body, 2, 5) = fourCC
  <2>1. SubSeq(body, 2, 5) \in Seq(Byte) /\ Len(SubSeq(body, 2, 5)) = 4
    BY <1>2, <1>3, SubSeqProperties
  <2>2. \A i \in 1..4 : SubSeq(body, 2, 5)[i] = body[i + 1]
    BY <1>2, <1>3, SubSeqProperties
  <2>3. \A i \in 1..4 : body[i + 1] = fourCC[i]
    BY <1>1, <1>2
  <2>4. fourCC \in Seq(Byte) /\ Len(fourCC) = 4
    BY DEF Word
  <2>5. \A i \in 1..4 : SubSeq(body, 2, 5)[i] = fourCC[i]
    BY <2>2, <2>3
  <2> QED
    BY <2>1, <2>4, <2>5, SeqEqual
<1>5. body[1] = mark /\ body # <<>>
  BY <1>1, <1>2, <1>3, LenProperties
<1> QED
  BY <1>2, <1>4, <1>5 DEF Ex, front, body

-----------------------------------------------------------------------------
(* The tables of types, and who marshals and unmarshals what.              *)

LEMMA Kinds ==
  /\ {Uint32Types[t] : t \in DOMAIN Uint32Types}
       = {"SetChunkSize", "AbortMessage", "Acknowledge", "SetWindowAckSize"}
  /\ {UserControlTypes[t] : t \in DOMAIN UserControlTypes}
       = {"UserControlStreamBegin", "UserControlStreamEOF", "UserControlStreamDry",
          "UserControlStreamIsRecorded", "UserControlPingRequest", "UserControlPingResponse"}
  /\ DOMAIN Uint32Types = {1, 2, 3, 5} /\ DOMAIN UserControlTypes = {0, 1, 2, 4, 6, 7}
<1>1. {Uint32Types[t] : t \in DOMAIN Uint32Types}
        = {"SetChunkSize", "AbortMessage", "Acknowledge", "SetWindowAckSize"}
  BY DEF Uint32Types, TypeSetChunkSize, TypeAbortMessage, TypeAcknowledge, TypeSetWindowAckSize
<1>2. {UserControlTypes[t] : t \in DOMAIN UserControlTypes}
        = {"UserControlStreamBegin", "UserControlStreamEOF", "UserControlStreamDry",
           "UserControlStreamIsRecorded", "UserControlPingRequest", "UserControlPingResponse"}
  BY DEF UserControlTypes
<1> QED
  BY <1>1, <1>2 DEF Uint32Types, UserControlTypes, TypeSetChunkSize, TypeAbortMessage, TypeAcknowledge, TypeSetWindowAckSize

LEMMA Keys ==
  /\ \A t \in {1, 2, 3, 5} : KeyOf(Uint32Types, Uint32Types[t]) = t
  /\ \A t \in {0, 1, 2, 4, 6, 7} : KeyOf(UserControlTypes, UserControlTypes[t]) = t
  /\ KeyOf(AudioExTypes, "AudioExSequenceStart") = 0
  /\ KeyOf(AudioExTypes, "AudioExCodedFrames") = 1
  /\ KeyOf(AudioExTypes, "AudioExSequenceEnd") = 2
  /\ KeyOf(AudioExTypes, "AudioExMultichannelConfig") = 4
  /\ KeyOf(VideoExTypes, "VideoExSequenceStart") = 0
  /\ KeyOf(VideoExTypes, "VideoExCodedFrames") = 1
  /\ KeyOf(VideoExTypes, "VideoExSequenceEnd") = 2
  /\ KeyOf(VideoExTypes, "VideoExFramesX") = 3
  /\ KeyOf(VideoExTypes, "VideoExMetadata") = 4
<1>1. \A t \in {1, 2, 3, 5} : KeyOf(Uint32Types, Uint32Types[t]) = t
  BY DEF KeyOf, Uint32Types, TypeSetChunkSize, TypeAbortMessage, TypeAcknowledge, TypeSetWindowAckSize
<1>2. \A t \in {0, 1, 2, 4, 6, 7} : KeyOf(UserControlTypes, UserControlTypes[t]) = t
  BY DEF KeyOf, UserControlTypes
<1>3. /\ KeyOf(AudioExTypes, "AudioExSequenceStart") = 0
      /\ KeyOf(AudioExTypes, "AudioExCodedFrames") = 1
      /\ KeyOf(AudioExTypes, "AudioExSequenceEnd") = 2
      /\ KeyOf(AudioExTypes, "AudioExMultichannelConfig") = 4
  BY DEF KeyOf, AudioExTypes
<1>4. /\ KeyOf(VideoExTypes, "VideoExSequenceStart") = 0
      /\ KeyOf(VideoExTypes, "VideoExCodedFrames") = 1
      /\ KeyOf(VideoExTypes, "VideoExSequenceEnd") = 2
      /\ KeyOf(VideoExTypes, "VideoExFramesX") = 3
      /\ KeyOf(VideoExTypes, "VideoExMetadata") = 4
  BY DEF KeyOf, VideoExTypes
<1> QED
  BY <1>1, <1>2, <1>3, <1>4

LEMMA MarshalledBy ==
  ASSUME NEW m
  PROVE  /\ m.kind \in {Uint32Types[t] : t \in DOMAIN Uint32Types} => MarshalMessage(m) = MarshalUint32(m)
         /\ m.kind \in {UserControlTypes[t] : t \in DOMAIN UserControlTypes} =>
              MarshalMessage(m) = MarshalUserControl(m)
         /\ m.kind = "SetPeerBandwidth" => MarshalMessage(m) = MarshalSetPeerBandwidth(m)
         /\ m.kind = "UserControlSetBufferLength" => MarshalMessage(m) = MarshalSetBufferLength(m)
         /\ m.kind = "CommandAMF0" => MarshalMessage(m) = MarshalCommandAMF0(m)
         /\ m.kind = "DataAMF0" => MarshalMessage(m) = MarshalDataAMF0(m)
         /\ m.kind = "Audio" => MarshalMessage(m) = MarshalAudio(m)
         /\ m.kind = "Video" => MarshalMessage(m) = MarshalVideo(m)
         /\ m.kind = "VideoExMetadata" => MarshalMessage(m) = MarshalVideoExMetadata(m)
         /\ m.kind = "AudioExMultitrack" => MarshalMessage(m) = MarshalAudioExMultitrack(m)
         /\ m.kind = "VideoExMultitrack" => MarshalMessage(m) = MarshalVideoExMultitrack(m)
         /\ m.kind \in {"AudioExSequenceStart", "AudioExCodedFrames", "AudioExSequenceEnd",
                        "AudioExMultichannelConfig", "VideoExSequenceStart", "VideoExCodedFrames",
                        "VideoExFramesX", "VideoExSequenceEnd"} =>
              MarshalMessage(m) = MarshalWrapped(m)
BY Kinds DEF MarshalMessage

LEMMA UnmarshalledBy ==
  ASSUME NEW r
  PROVE  /\ r.type \in {1, 2, 3, 5} => UnmarshalMessage(r) = UnmarshalUint32(r)
         /\ r.type = TypeSetPeerBandwidth => UnmarshalMessage(r) = UnmarshalSetPeerBandwidth(r)
         /\ r.type = TypeUserControl => UnmarshalMessage(r) = AllocateUserControl(r)
         /\ r.type = TypeCommandAMF0 => UnmarshalMessage(r) = UnmarshalCommandAMF0(r)
         /\ r.type = TypeDataAMF0 => UnmarshalMessage(r) = UnmarshalDataAMF0(r)
         /\ r.type = TypeAudio => UnmarshalMessage(r) = AllocateAudio(r)
         /\ r.type = TypeVideo => UnmarshalMessage(r) = AllocateVideo(r)
         /\ r.type \notin {1, 2, 3, 5, TypeSetPeerBandwidth, TypeUserControl, TypeCommandAMF0, TypeDataAMF0,
                           TypeAudio, TypeVideo} => UnmarshalMessage(r) = Refused
<1> USE Kinds DEF TypeSetPeerBandwidth, TypeUserControl, TypeCommandAMF0, TypeDataAMF0, TypeAudio, TypeVideo
<1>1. r.type \in {1, 2, 3, 5} => UnmarshalMessage(r) = UnmarshalUint32(r)
  BY DEF UnmarshalMessage
<1>2. r.type = TypeSetPeerBandwidth => UnmarshalMessage(r) = UnmarshalSetPeerBandwidth(r)
  BY DEF UnmarshalMessage
<1>3. r.type = TypeUserControl => UnmarshalMessage(r) = AllocateUserControl(r)
  BY DEF UnmarshalMessage
<1>4. r.type = TypeCommandAMF0 => UnmarshalMessage(r) = UnmarshalCommandAMF0(r)
  BY DEF UnmarshalMessage
<1>5. r.type = TypeDataAMF0 => UnmarshalMessage(r) = UnmarshalDataAMF0(r)
  BY DEF UnmarshalMessage
<1>6. r.type = TypeAudio => UnmarshalMessage(r) = AllocateAudio(r)
  BY DEF UnmarshalMessage
<1>7. r.type = TypeVideo => UnmarshalMessage(r) = AllocateVideo(r)
  BY DEF UnmarshalMessage
<1>8. r.type \notin {1, 2, 3, 5, TypeSetPeerBandwidth, TypeUserControl, TypeCommandAMF0, TypeDataAMF0,
                     TypeAudio, TypeVideo} => UnmarshalMessage(r) = Refused
  BY DEF UnmarshalMessage
<1> QED
  BY <1>1, <1>2, <1>3, <1>4, <1>5, <1>6, <1>7, <1>8

-----------------------------------------------------------------------------
(* What a Reader makes of any raw message is a message that may be written,*)
(* or it is refused.                                                       *)

RawMessages == [from : Address, type : Byte, dts : Time, body : Seq(Byte)]

LEMMA RawFields ==
  ASSUME NEW r \in RawMessages
  PROVE  r.from \in Address /\ r.type \in Byte /\ r.dts \in Time /\ r.body \in Seq(Byte) /\ Len(r.body) \in Nat
BY LenProperties DEF RawMessages

LEMMA WhenEmpty ==
  ASSUME NEW S, NEW s \in Seq(S), NEW n, n = Len(s)
  PROVE  n \in Nat /\ (n = 0 => s = <<>>) /\ (n # 0 => s # <<>>)
BY LenProperties, EmptySeq

LEMMA ByteAt ==
  ASSUME NEW b \in Seq(Byte), NEW i \in Nat, 1 <= i, i <= Len(b)
  PROVE  b[i] \in Byte
<1>1. i \in 1..Len(b)
  BY LenProperties
<1> QED
  BY <1>1, ElementOfSeq

LEMMA WordAt ==
  ASSUME NEW b \in Seq(Byte), NEW i \in Nat, NEW j \in Nat, 1 <= i, j = i + 3, j <= Len(b)
  PROVE  SubSeq(b, i, j) \in Word
<1>1. \A k \in i..j : b[k] \in Byte
  BY ByteAt, LenProperties
<1>2. SubSeq(b, i, j) \in Seq(Byte) /\ Len(SubSeq(b, i, j)) = IF i <= j THEN j - i + 1 ELSE 0
  BY <1>1, SubSeqProperties
<1> QED
  BY <1>2 DEF Word

LEMMA ReadUint32 ==
  ASSUME NEW r \in RawMessages, r.type \in {1, 2, 3, 5}
  PROVE  UnmarshalUint32(r) \in Uint32Messages \cup {Refused}
<1>1. r.body \in Seq(Byte) /\ Uint32Types[r.type] \in {Uint32Types[t] : t \in DOMAIN Uint32Types}
  BY RawFields, Kinds
<1> QED
  BY <1>1 DEF UnmarshalUint32, Provided, Uint32Messages, Word

LEMMA ReadSetPeerBandwidth ==
  ASSUME NEW r \in RawMessages
  PROVE  UnmarshalSetPeerBandwidth(r) \in SetPeerBandwidths \cup {Refused}
<1>1. r.body \in Seq(Byte)
  BY RawFields
<1>2. ASSUME Len(r.body) = 5
      PROVE  SubSeq(r.body, 1, 4) \in Word /\ r.body[5] \in Byte
  <2>1. Len(r.body) >= 4 /\ Len(r.body) >= 5
    BY <1>2
  <2>2. SubSeq(r.body, 1, 4) \in Word
    BY <1>1, <2>1, WordAt
  <2>3. r.body[5] \in Byte
    BY <1>1, <2>1, ByteAt
  <2> QED
    BY <2>2, <2>3
<1> QED
  BY <1>2 DEF UnmarshalSetPeerBandwidth, Provided, SetPeerBandwidths

LEMMA ReadUserControl ==
  ASSUME NEW r \in RawMessages
  PROVE  AllocateUserControl(r)
           \in UserControls \cup SetBufferLengths \cup {Refused, [kind |-> "UserControlUndocumented"]}
<1> DEFINE type == Uint16(r.body)
<1>1. r.body \in Seq(Byte)
  BY RawFields
<1>2. type \in DOMAIN UserControlTypes => UnmarshalUserControl(r, type) \in UserControls \cup {Refused}
  <2>1. ASSUME Len(r.body) = 6
        PROVE  Drop(r.body, 2) \in Word
    <3>1. 2 \in 0..Len(r.body) /\ Len(r.body) - 2 = 4
      BY <2>1
    <3>2. Drop(r.body, 2) \in Seq(Byte) /\ Len(Drop(r.body, 2)) = Len(r.body) - 2
      BY <1>1, <3>1, DropProperties
    <3> QED
      BY <3>1, <3>2 DEF Word
  <2>2. type \in DOMAIN UserControlTypes =>
          UserControlTypes[type] \in {UserControlTypes[t] : t \in DOMAIN UserControlTypes}
    OBVIOUS
  <2> QED
    BY <2>1, <2>2 DEF UnmarshalUserControl, Provided, UserControls
<1>3. UnmarshalSetBufferLength(r) \in SetBufferLengths \cup {Refused}
  <2>1. ASSUME Len(r.body) = 10
        PROVE  SubSeq(r.body, 3, 6) \in Word /\ SubSeq(r.body, 7, 10) \in Word
    <3>1. Len(r.body) >= 6 /\ Len(r.body) >= 10
      BY <2>1
    <3> QED
      BY <1>1, <3>1, WordAt
  <2> QED
    BY <2>1 DEF UnmarshalSetBufferLength, Provided, SetBufferLengths
<1> HIDE DEF type
<1>4. \/ AllocateUserControl(r) = UnmarshalUserControl(r, type) /\ type \in DOMAIN UserControlTypes
      \/ AllocateUserControl(r) = UnmarshalSetBufferLength(r)
      \/ AllocateUserControl(r) \in {Refused, [kind |-> "UserControlUndocumented"]}
  BY <1>1, LenProperties DEF AllocateUserControl, type
<1> QED
  BY <1>2, <1>3, <1>4

\* What AmfFaithful says, one promise at a time.
LEMMA AmfBody ==
  ASSUME AmfFaithful, NEW body \in Seq(Byte)
  PROVE  \/ UnmarshalAmf0(body) = Bad
         \/ \E data \in Seq(Amf0Data) :
              UnmarshalAmf0(body) = Got(data, <<>>) /\ (body # <<>> => data # <<>>)
BY Zenon DEF AmfFaithful, AmfKeeps

LEMMA AmfValues ==
  ASSUME AmfFaithful, NEW data \in Seq(Amf0Data)
  PROVE  MarshalAmf0(data) \in Seq(Byte) /\ UnmarshalAmf0(MarshalAmf0(data)) = Got(data, <<>>)
BY Zenon DEF AmfFaithful, AmfKeeps

LEMMA AmfCut ==
  ASSUME AmfFaithful, NEW data \in Seq(Amf0Data), NEW n \in 0..Len(MarshalAmf0(data))
  PROVE  LET part == UnmarshalAmf0(SubSeq(MarshalAmf0(data), 1, n))
         IN part = Bad \/ \E front \in Seq(Amf0Data) : part = Got(front, <<>>) /\ IsPrefix(front, data)
<1> DEFINE part == UnmarshalAmf0(SubSeq(MarshalAmf0(data), 1, n))
<1>1. part = Bad \/ \E k \in 0..Len(data) : part = Got(SubSeq(data, 1, k), <<>>)
  BY Zenon DEF AmfFaithful, AmfKeeps
<1>2. \A k \in 0..Len(data) : SubSeq(data, 1, k) \in Seq(Amf0Data) /\ IsPrefix(SubSeq(data, 1, k), data)
  BY Take
<1> HIDE DEF part
<1>3. part = Bad \/ \E front \in Seq(Amf0Data) : part = Got(front, <<>>) /\ IsPrefix(front, data)
  BY <1>1, <1>2, Zenon
<1> QED
  BY <1>3 DEF part

LEMMA ReadCommandAMF0 ==
  ASSUME AmfFaithful, NEW r \in RawMessages
  PROVE  UnmarshalCommandAMF0(r) \in CommandMessages \cup {Refused}
<1> DEFINE payload == UnmarshalAmf0(r.body)
<1>1. r.body \in Seq(Byte) /\ r.from \in Address
  BY RawFields
<1>2. payload = Bad \/ \E data \in Seq(Amf0Data) : payload = Got(data, <<>>)
  BY <1>1, AmfBody, Zenon
<1> HIDE DEF payload
<1>3. CASE payload = Bad
  <2>1. ~payload.ok
    BY <1>3 DEF Bad
  <2> QED
    BY <2>1 DEF UnmarshalCommandAMF0, Provided, payload
<1>4. ASSUME NEW data \in Seq(Amf0Data), payload = Got(data, <<>>),
             Len(data) >= 3, data[1].marker = String, data[2].marker = Number
      PROVE  UnmarshalCommandAMF0(r) \in CommandMessages
  <2>1. payload.ok /\ payload.item = data
    BY <1>4 DEF Got
  <2>2. Len(data) \in Nat
    BY LenProperties
  <2>3. data[1] \in Amf0Data /\ data[2] \in Amf0Data
    <3>1. 1 \in 1..Len(data) /\ 2 \in 1..Len(data)
      BY <1>4, <2>2
    <3> QED
      BY <3>1, ElementOfSeq
  <2>4. PICK text \in Text : data[1] = StringOf(text)
    BY <1>4, <2>3 DEF AmfFaithful
  <2>5. PICK bits \in Bits : data[2] = NumberOf(bits)
    BY <1>4, <2>3 DEF AmfFaithful
  <2>6. data[1].text \in Text /\ IntOf(data[2].bits) \in Byte
    BY <2>4, <2>5 DEF StringOf, NumberOf, IntOf, Bits
  <2>7. Drop(data, 2) \in Seq(Amf0Data) /\ Drop(data, 2) # <<>>
    <3>1. 2 \in 0..Len(data)
      BY <1>4, <2>2
    <3>2. Drop(data, 2) \in Seq(Amf0Data) /\ Len(Drop(data, 2)) = Len(data) - 2
      BY <3>1, DropProperties
    <3>3. Len(Drop(data, 2)) # 0
      BY <1>4, <2>2, <3>2
    <3> QED
      BY <3>2, <3>3, EmptySeq
  <2>8. UnmarshalCommandAMF0(r) =
          [kind |-> "CommandAMF0", from |-> r.from,
           name |-> data[1].text, commandID |-> IntOf(data[2].bits), data |-> Drop(data, 2)]
    BY <1>4, <2>1 DEF UnmarshalCommandAMF0, Provided, payload
  <2> QED
    BY <1>1, <2>6, <2>7, <2>8 DEF CommandMessages
<1>5. ASSUME NEW data \in Seq(Amf0Data), payload = Got(data, <<>>),
             ~(Len(data) >= 3 /\ data[1].marker = String /\ data[2].marker = Number)
      PROVE  UnmarshalCommandAMF0(r) = Refused
  <2>1. payload.item = data
    BY <1>5 DEF Got
  <2> QED
    BY <1>5, <2>1 DEF UnmarshalCommandAMF0, Provided, payload
<1> QED
  BY <1>2, <1>3, <1>4, <1>5

LEMMA ReadDataAMF0 ==
  ASSUME AmfFaithful, NEW r \in RawMessages
  PROVE  UnmarshalDataAMF0(r) \in DataMessages \cup {Refused}
<1>1. r.body \in Seq(Byte) /\ r.from \in Address
  BY RawFields
<1>2. CASE UnmarshalAmf0(r.body) = Bad
  BY <1>2 DEF UnmarshalDataAMF0, Provided, Bad
<1>3. ASSUME NEW data \in Seq(Amf0Data), UnmarshalAmf0(r.body) = Got(data, <<>>)
      PROVE  UnmarshalDataAMF0(r) \in DataMessages
  <2>1. UnmarshalDataAMF0(r) = [kind |-> "DataAMF0", from |-> r.from, data |-> data]
    BY <1>3 DEF UnmarshalDataAMF0, Provided, Got
  <2> QED
    BY <1>1, <2>1 DEF DataMessages
<1> QED
  BY <1>1, <1>2, <1>3, AmfBody, Zenon

LEMMA AudioIn ==
  ASSUME NEW from \in Address, NEW dts \in Time, NEW head \in Byte, NEW aacType \in Byte,
         NEW config \in Seq(Byte), NEW au \in Seq(Byte),
         \/ head = 0 /\ aacType = 0 /\ config = <<>> /\ au = <<>>
         \/ /\ head \div 16 \in {CodecMPEG1Audio, CodecPCMA, CodecPCMU, CodecLPCM}
            /\ aacType = 0 /\ config = <<>> /\ au # <<>>
         \/ /\ head \div 16 = CodecMPEG4Audio /\ aacType = AudioAACTypeConfig
            /\ config = <<>> \/ ParsesAs(config, Configs)
            /\ au = <<>>
         \/ head \div 16 = CodecMPEG4Audio /\ aacType = AudioAACTypeAU /\ config = <<>> /\ au # <<>>
  PROVE  AudioOf(from, dts, head, aacType, config, au) \in Audios
<1>1. PICK stereo \in BOOLEAN : stereo = (head % 2 # 0)
  OBVIOUS
<1>2. head \div 16 \in Byte /\ (head \div 4) % 4 \in 0..3 /\ (head \div 2) % 2 \in 0..1
  BY DEF Byte
<1> DEFINE codec == head \div 16
           rate == (head \div 4) % 4
           depth == (head \div 2) % 2
           m == [kind |-> "Audio", from |-> from, dts |-> dts, codec |-> codec, rate |-> rate, depth |-> depth,
                 stereo |-> stereo, aacType |-> aacType, config |-> config, au |-> au]
<1>3. AudioOf(from, dts, head, aacType, config, au) = m
  BY <1>1, Zenon DEF AudioOf
<1>4. head = 0 => m = EmptyAudio(from, dts) \/ ~(aacType = 0 /\ config = <<>> /\ au = <<>>)
  BY <1>3, Zenon DEF EmptyAudio
<1> HIDE DEF codec, rate, depth
<1>5. m \in [kind : {"Audio"}, from : Address, dts : Time, codec : Byte, rate : 0..3, depth : 0..1,
             stereo : BOOLEAN, aacType : Byte, config : Seq(Byte), au : Seq(Byte)]
  BY <1>1, <1>2 DEF codec, rate, depth
<1>6. m.codec = head \div 16 /\ m.aacType = aacType /\ m.config = config /\ m.au = au
      /\ m.from = from /\ m.dts = dts
  BY DEF codec
<1> HIDE DEF m
<1>7. m \in Audios
  BY <1>4, <1>5, <1>6, Zenon DEF Audios
<1> QED
  BY <1>3, <1>7

LEMMA ReadAudio ==
  ASSUME NEW r \in RawMessages
  PROVE  UnmarshalAudio(r) \in Audios \cup {Refused}
<1> DEFINE len == Len(r.body)
           head == r.body[1]
           rest == Drop(r.body, 2)
           Of(aacType, config, au) == AudioOf(r.from, r.dts, head, aacType, config, au)
<1>1. r.body \in Seq(Byte) /\ r.from \in Address /\ r.dts \in Time 
  BY RawFields
<1>0. len \in Nat /\ (len = 0 => r.body = <<>>) /\ (len # 0 => r.body # <<>>)
  BY <1>1, WhenEmpty
<1> HIDE DEF len
<1> USE DEF CodecMPEG4Audio, CodecMPEG1Audio, CodecPCMA, CodecPCMU, CodecLPCM, AudioAACTypeConfig, AudioAACTypeAU
<1>2. CASE r.body = <<>>
  <2>1. 0 \in Byte /\ <<>> \in Seq(Byte)
    BY DEF Byte
  <2>2. EmptyAudio(r.from, r.dts) \in Audios
    BY <1>1, <2>1, AudioIn DEF EmptyAudio
  <2> QED
    BY <1>2, <2>2 DEF UnmarshalAudio
<1>3. CASE len = 1
  <2>1. r.body # <<>>
    BY <1>0, <1>3
  <2>2. Len(r.body) = 1
    BY <1>3 DEF len
  <2> QED
    BY <2>1, <2>2 DEF UnmarshalAudio
<1>4. CASE len > 1
  <2>1. r.body # <<>> /\ Len(r.body) # 1 /\ Len(r.body) > 1
    <3>1. r.body # <<>> /\ len # 1
      BY <1>0, <1>4
    <3> QED
      BY <1>4, <3>1 DEF len
  <2>2. head \in Byte /\ r.body[2] \in Byte
    BY <1>1, <2>1, ByteAt
  <2>3. /\ Tail(r.body) \in Seq(Byte) /\ Tail(r.body) # <<>>
        /\ rest \in Seq(Byte)
    <3>1. Tail(r.body) \in Seq(Byte) /\ Len(Tail(r.body)) = len - 1
      BY <1>1, <2>1, HeadTailProperties DEF len
    <3>2. len - 1 # 0
      BY <1>0, <1>4
    <3>3. Tail(r.body) # <<>>
      BY <3>1, <3>2, WhenEmpty
    <3>4. 2 \in 0..Len(r.body)
      BY <1>0, <1>4 DEF len
    <3>5. rest \in Seq(Byte)
      BY <1>1, <3>4, DropProperties
    <3> QED
      BY <3>1, <3>3, <3>5
  <2>4. 0 \in Byte /\ 1 \in Byte /\ <<>> \in Seq(Byte)
    BY DEF Byte
  <2> HIDE DEF head, rest
  <2>6. CASE head \div 16 \in {CodecMPEG1Audio, CodecPCMA, CodecPCMU, CodecLPCM}
    <3>1. UnmarshalAudio(r) = Of(0, <<>>, Tail(r.body))
      BY <2>1, <2>6 DEF UnmarshalAudio, head
    <3>2. Of(0, <<>>, Tail(r.body)) \in Audios
      BY <1>1, <2>2, <2>3, <2>4, <2>6, AudioIn
    <3> QED
      BY <3>1, <3>2
  <2>7. CASE head \div 16 = CodecMPEG4Audio /\ r.body[2] = AudioAACTypeConfig
    <3>1. UnmarshalAudio(r) =
            Provided(rest = <<>> \/ ParsesAs(rest, Configs), Of(AudioAACTypeConfig, rest, <<>>))
      BY <2>1, <2>7 DEF UnmarshalAudio, head, rest
    <3>2. rest = <<>> \/ ParsesAs(rest, Configs) => Of(AudioAACTypeConfig, rest, <<>>) \in Audios
      BY <1>1, <2>2, <2>3, <2>4, <2>7, AudioIn
    <3> QED
      BY <3>1, <3>2 DEF Provided
  <2>8. CASE head \div 16 = CodecMPEG4Audio /\ r.body[2] = AudioAACTypeAU
    <3>1. UnmarshalAudio(r) = Provided(rest # <<>>, Of(AudioAACTypeAU, <<>>, rest))
      BY <2>1, <2>8 DEF UnmarshalAudio, head, rest
    <3>2. rest # <<>> => Of(AudioAACTypeAU, <<>>, rest) \in Audios
      BY <1>1, <2>2, <2>3, <2>4, <2>8, AudioIn
    <3> QED
      BY <3>1, <3>2 DEF Provided
  <2>9. CASE /\ head \div 16 \notin {CodecMPEG1Audio, CodecPCMA, CodecPCMU, CodecLPCM}
             /\ ~(head \div 16 = CodecMPEG4Audio /\ r.body[2] \in {AudioAACTypeConfig, AudioAACTypeAU})
    BY <2>1, <2>9 DEF UnmarshalAudio, head
  <2> QED
    BY <2>6, <2>7, <2>8, <2>9
<1> QED
  BY <1>0, <1>2, <1>3, <1>4

LEMMA DeltaRead ==
  ASSUME NEW b \in Seq(Byte), NEW i \in Nat, NEW j \in Nat, 1 <= i, j = i + 2, j <= Len(b)
  PROVE  DeltaOf(SubSeq(b, i, j)) \in Shift
<1>1. \A k \in i..j : b[k] \in Byte
  BY ByteAt, LenProperties
<1>2. \A k \in 1..(j - i + 1) : SubSeq(b, i, j)[k] = b[i + k - 1]
  BY <1>1, SubSeqProperties
<1> DEFINE s == SubSeq(b, i, j)
<1>3. s[1] \in Byte /\ s[2] \in Byte /\ s[3] \in Byte
  BY <1>1, <1>2
<1> HIDE DEF s
<1>4. DeltaOf(s) \in Shift
  <2>1. PICK x \in 0..255, y \in 0..255, z \in 0..255 : x = s[1] /\ y = s[2] /\ z = s[3]
    BY <1>3, Zenon DEF Byte
  <2> DEFINE n == x * 65536 + y * 256 + z
  <2>2. n \in Int /\ 0 <= n /\ n <= 2 * SignBit - 1 /\ SignBit \in Int
    BY SMT DEF SignBit
  <2>3. DeltaOf(s) = IF n >= SignBit THEN n - 2 * SignBit ELSE n
    BY <2>1, SMT DEF DeltaOf
  <2> HIDE DEF n
  <2> QED
    BY <2>2, <2>3, SMT DEF Shift
<1> QED
  BY <1>4 DEF s

LEMMA NoShift == 0 \in Shift
<1>1. SignBit \in Nat /\ SignBit > 0
  BY SMT DEF SignBit
<1> QED
  BY <1>1, SMT DEF Shift

\* The fields of a video message that is read.
VideoFields(from, dts, frameType, command, codec, packetType, delta, config, au) ==
  /\ from \in Address /\ dts \in Time /\ frameType \in {KeyFrame, InterFrame, Command}
  /\ command \in {0, 1} /\ codec \in {0, CodecH264, CodecH265} /\ packetType \in 0..2
  /\ delta \in Shift /\ config \in Seq(Byte) /\ au \in Seq(Byte)
  /\ IF frameType = Command
     THEN codec = 0 /\ packetType = 0 /\ delta = 0 /\ config = <<>> /\ au = <<>>
     ELSE command = 0 /\ codec # 0 /\ VideoHolds(codec, packetType, config, au)

LEMMA VideoIn ==
  ASSUME NEW from, NEW dts, NEW frameType, NEW command, NEW codec, NEW packetType, NEW delta, NEW config, NEW au,
         VideoFields(from, dts, frameType, command, codec, packetType, delta, config, au)
  PROVE  LET m == VideoOf(from, dts, frameType, command, codec, packetType, delta, config, au)
         IN m \in Videos /\ AsRead(m) = m
<1>0. /\ from \in Address /\ dts \in Time /\ frameType \in {KeyFrame, InterFrame, Command}
      /\ command \in {0, 1} /\ codec \in {0, CodecH264, CodecH265} /\ packetType \in 0..2
      /\ delta \in Shift /\ config \in Seq(Byte) /\ au \in Seq(Byte)
      /\ IF frameType = Command
         THEN codec = 0 /\ packetType = 0 /\ delta = 0 /\ config = <<>> /\ au = <<>>
         ELSE command = 0 /\ codec # 0 /\ VideoHolds(codec, packetType, config, au)
  BY Zenon DEF VideoFields
<1> USE DEF KeyFrame, InterFrame, Command
<1>1. PICK key \in BOOLEAN : key = (frameType = KeyFrame)
  OBVIOUS
<1> DEFINE m == [kind |-> "Video", from |-> from, dts |-> dts, frameType |-> frameType,
                 isKeyFrame |-> key, command |-> command, codec |-> codec,
                 packetType |-> packetType, type |-> packetType, delta |-> delta,
                 config |-> config, au |-> au]
<1>2. VideoOf(from, dts, frameType, command, codec, packetType, delta, config, au) = m
  BY <1>1, Zenon DEF VideoOf
<1>3. m \in [kind : {"Video"}, from : Address, dts : Time, frameType : {0, KeyFrame, InterFrame, Command},
             isKeyFrame : BOOLEAN, command : {0, 1}, codec : {0, CodecH264, CodecH265},
             packetType : 0..2, type : 0..2, delta : Shift, config : Seq(Byte), au : Seq(Byte)]
  BY <1>0, <1>1
<1>4. /\ m.kind = "Video" /\ m.frameType = frameType /\ m.isKeyFrame = key /\ m.command = command
      /\ m.codec = codec /\ m.packetType = packetType /\ m.type = packetType /\ m.delta = delta
      /\ m.config = config /\ m.au = au
  OBVIOUS
<1> HIDE DEF m
<1>5. PacketTypeOf(m) = packetType
  BY <1>4 DEF PacketTypeOf
<1>6. frameType # 0 /\ (frameType = Command => ~key)
  <2>1. frameType # 0 /\ (frameType = Command => frameType # KeyFrame)
    BY <1>0
  <2> QED
    BY <1>1, <2>1, Zenon
<1>7. m \in Videos
  BY <1>0, <1>3, <1>4, <1>5, <1>6, Zenon DEF Videos
<1>8. AsRead(m) = m
  <2>1. CASE frameType = Command
    BY <1>4, <2>1 DEF AsRead
  <2>2. CASE frameType # Command
    <3>1. FrameTypeOf(m) = frameType
      BY <1>4, <1>6 DEF FrameTypeOf
    <3>2. AsRead(m) = [m EXCEPT !.frameType = frameType, !.isKeyFrame = key,
                                !.packetType = packetType, !.type = packetType]
      BY <1>1, <1>4, <1>5, <2>2, <3>1, Zenon DEF AsRead
    <3>3. [m EXCEPT !.frameType = m.frameType, !.isKeyFrame = m.isKeyFrame,
                    !.packetType = m.packetType, !.type = m.type] = m
      BY <1>3
    <3> QED
      BY <1>4, <3>2, <3>3, Zenon
  <2> QED
    BY <2>1, <2>2
<1> QED
  BY <1>2, <1>7, <1>8

\* What is read has no use for its deprecated fields.
Readable(S) == {m \in S : AsRead(m) = m}

LEMMA ReadVideo ==
  ASSUME NEW r \in RawMessages
  PROVE  UnmarshalVideo(r) \in Readable(Videos) \cup {Refused}
<1> DEFINE b == r.body
           len == Len(b)
           frameType == IF b[1] \div 16 \in {KeyFrame, Command} THEN b[1] \div 16 ELSE InterFrame
           codec == b[1] % 16
           rest == Drop(b, 5)
           delta == DeltaOf(SubSeq(b, 3, 5))
           Packet(config, au) ==
             VideoOf(r.from, r.dts, frameType, 0, codec, b[2], delta, config, au)
<1>1. b \in Seq(Byte) /\ r.from \in Address /\ r.dts \in Time
  BY RawFields
<1>2. len \in Nat
  BY <1>1, LenProperties
<1>3. frameType \in {KeyFrame, InterFrame, Command} /\ KeyFrame # Command /\ InterFrame # Command
  BY DEF KeyFrame, InterFrame, Command
<1>4. 0 \in Shift /\ <<>> \in Seq(Byte)
  BY NoShift, EmptySeq
<1> HIDE DEF len
<1>5. CASE len < 2
  BY <1>5 DEF UnmarshalVideo, len
<1>6. CASE len >= 2 /\ frameType = Command
  <2>1. UnmarshalVideo(r) = Provided(b[2] \in {0, 1}, VideoOf(r.from, r.dts, Command, b[2], 0, 0, 0, <<>>, <<>>))
    BY <1>2, <1>6 DEF UnmarshalVideo, len
  <2>2. ASSUME b[2] \in {0, 1}
        PROVE  VideoOf(r.from, r.dts, Command, b[2], 0, 0, 0, <<>>, <<>>) \in Readable(Videos)
    <3>1. 0 \in 0..2
      OBVIOUS
    <3>2. 0 \in {0, CodecH264, CodecH265} /\ Command \in {KeyFrame, InterFrame, Command}
      OBVIOUS
    <3>3. VideoFields(r.from, r.dts, Command, b[2], 0, 0, 0, <<>>, <<>>)
      BY <1>1, <1>4, <2>2, <3>1, <3>2, Zenon DEF VideoFields
    <3> QED
      BY <3>3, VideoIn, Zenon DEF Readable
  <2> QED
    BY <2>1, <2>2 DEF Provided
<1>7. CASE ~(len >= 5 /\ codec \in {CodecH264, CodecH265}) /\ frameType # Command
  BY <1>2, <1>5, <1>7 DEF UnmarshalVideo, len
<1>8. CASE len >= 5 /\ frameType # Command /\ codec \in {CodecH264, CodecH265}
  <2>1. rest \in Seq(Byte) /\ delta \in Shift
    <3>1. 5 \in 0..Len(b) /\ Len(b) >= 5
      BY <1>2, <1>8 DEF len
    <3> QED
      BY <1>1, <3>1, DropProperties, DeltaRead
  <2>2. codec # 0 /\ codec \in {0, CodecH264, CodecH265}
    BY <1>8 DEF CodecH264, CodecH265
  <2> DEFINE held == IF codec = CodecH264 THEN rest = <<>> \/ AVCConfigFound(rest) ELSE HEVCConfigFound(rest)
             filled == rest # <<>>
  <2>3. UnmarshalVideo(r) =
          CASE b[2] = PacketTypeConfig -> Provided(held, Packet(rest, <<>>))
            [] b[2] = PacketTypeAU -> Provided(filled, Packet(<<>>, rest))
            [] b[2] = PacketTypeEOS -> Packet(<<>>, <<>>)
            [] OTHER -> Refused
    <3>1. ~(Len(b) < 2)
      BY <1>2, <1>8 DEF len
    <3> QED
      BY <1>8, <3>1 DEF UnmarshalVideo, len
  <2> HIDE DEF b, rest, delta, codec, frameType, held, filled
  <2>4. ASSUME NEW config \in Seq(Byte), NEW au \in Seq(Byte), b[2] \in 0..2,
               VideoHolds(codec, b[2], config, au)
        PROVE  Packet(config, au) \in Readable(Videos)
    <3>1. VideoFields(r.from, r.dts, frameType, 0, codec, b[2], delta, config, au)
      BY <1>1, <1>3, <1>8, <2>1, <2>2, <2>4, Zenon DEF VideoFields
    <3> QED
      BY <3>1, VideoIn, Zenon DEF Readable
  <2> HIDE DEF Packet
  <2>5. CASE b[2] = PacketTypeConfig
    <3>1. UnmarshalVideo(r) = Provided(held, Packet(rest, <<>>)) /\ b[2] \in 0..2
      BY <2>3, <2>5, SMT DEF PacketTypeConfig, PacketTypeAU, PacketTypeEOS
    <3>2. held => VideoHolds(codec, b[2], rest, <<>>)
      BY <1>8, <2>5, Zenon DEF VideoHolds, held
    <3>3. held => Packet(rest, <<>>) \in Readable(Videos)
      BY <1>4, <2>1, <2>4, <3>1, <3>2, Zenon
    <3> QED
      BY <3>1, <3>3, Zenon DEF Provided
  <2>6. CASE b[2] = PacketTypeAU
    <3>1. b[2] # PacketTypeConfig /\ b[2] # PacketTypeEOS /\ b[2] \in 0..2
      BY <2>6 DEF PacketTypeConfig, PacketTypeAU, PacketTypeEOS
    <3>4. UnmarshalVideo(r) = Provided(filled, Packet(<<>>, rest))
      BY <2>3, <2>6, <3>1, Zenon
    <3>2. filled => VideoHolds(codec, b[2], <<>>, rest)
      BY <1>8, <2>6, Zenon DEF VideoHolds, filled
    <3>3. filled => Packet(<<>>, rest) \in Readable(Videos)
      BY <1>4, <2>1, <2>4, <3>1, <3>2, Zenon
    <3> QED
      BY <3>3, <3>4, Zenon DEF Provided
  <2>7. CASE b[2] = PacketTypeEOS
    <3>1. UnmarshalVideo(r) = Packet(<<>>, <<>>) /\ b[2] \in 0..2
      BY <2>3, <2>7 DEF PacketTypeConfig, PacketTypeAU, PacketTypeEOS
    <3>2. VideoHolds(codec, b[2], <<>>, <<>>)
      BY <1>8, <2>7, Zenon DEF VideoHolds
    <3> QED
      BY <1>4, <2>4, <3>1, <3>2, Zenon
  <2> QED
    BY <2>3, <2>5, <2>6, <2>7
<1> QED
  BY <1>5, <1>6, <1>7, <1>8, <1>2

LEMMA ExRead ==
  ASSUME NEW r \in RawMessages, Len(r.body) >= 5
  PROVE  /\ FourCCIn(r) \in Word /\ RestOf(r) \in Seq(Byte)
         /\ Len(r.body) >= 6 => RestOf(r) \in Payload
         /\ Len(r.body) = 5 => RestOf(r) = <<>>
<1> DEFINE len == Len(r.body)
<1>1. r.body \in Seq(Byte) /\ len \in Nat
  BY RawFields
<1>2. FourCCIn(r) \in Word
  BY <1>1, WordAt DEF FourCCIn
<1>3. RestOf(r) \in Seq(Byte) /\ Len(RestOf(r)) = len - 5
  <2>1. 5 \in 0..Len(r.body)
    BY <1>1
  <2> QED
    BY <1>1, <2>1, DropProperties DEF RestOf
<1> HIDE DEF len
<1>4. len >= 6 => len - 5 # 0
  BY <1>1
<1>5. len = 5 => len - 5 = 0
  BY <1>1
<1>6. (len >= 6 => RestOf(r) # <<>>) /\ (len = 5 => RestOf(r) = <<>>)
  BY <1>3, <1>4, <1>5, WhenEmpty
<1> QED
  BY <1>2, <1>3, <1>6 DEF Payload, len

LEMMA FourCCsDiffer ==
  /\ {FourCCOpus, FourCCFLAC, FourCCMP4A} \cap {FourCCAC3, FourCCMP3} = {}
  /\ FourCCHEVC # FourCCAVC /\ {FourCCAV1, FourCCVP9} \cap Reordering = {}
BY DEF Reordering, FourCCAV1, FourCCVP9, FourCCHEVC, FourCCAVC, FourCCOpus, FourCCAC3, FourCCMP4A, FourCCMP3, FourCCFLAC

LEMMA ReadAudioExSequenceStart ==
  ASSUME NEW r \in RawMessages
  PROVE  UnmarshalAudioExSequenceStart(r) \in AudioExSequenceStarts \cup {Refused}
<1> DEFINE fourCC == FourCCIn(r)
           rest == RestOf(r)
           m == [kind |-> "AudioExSequenceStart", from |-> r.from, fourCC |-> fourCC, config |-> rest]
           good == \/ fourCC \in {FourCCAC3, FourCCMP3} /\ rest = <<>>
                   \/ fourCC \in {FourCCOpus, FourCCFLAC, FourCCMP4A} /\ ParsesAs(rest, Configs)
<1>1. Len(r.body) >= 5 => rest \in Seq(Byte) /\ r.from \in Address
  BY RawFields, ExRead
<1> HIDE DEF fourCC, rest
<1>2. ASSUME good, Len(r.body) >= 5
      PROVE  m \in AudioExSequenceStarts
  <2>1. fourCC \in AudioFourCCs
    BY <1>2, Zenon DEF AudioFourCCs
  <2>2. IF fourCC \in {FourCCAC3, FourCCMP3} THEN rest = <<>> ELSE ParsesAs(rest, Configs)
    BY <1>2, FourCCsDiffer, Zenon
  <2>3. m \in [kind : {"AudioExSequenceStart"}, from : Address, fourCC : AudioFourCCs, config : Seq(Byte)]
    BY <1>1, <1>2, <2>1
  <2>4. m.fourCC = fourCC /\ m.config = rest
    OBVIOUS
  <2> HIDE DEF m
  <2> QED
    BY <2>2, <2>3, <2>4, Zenon DEF AudioExSequenceStarts
<1>3. UnmarshalAudioExSequenceStart(r) = IF Len(r.body) >= 5 /\ good THEN m ELSE Refused
  BY Zenon DEF UnmarshalAudioExSequenceStart, Provided, fourCC, rest
<1> QED
  BY <1>2, <1>3, Zenon

LEMMA ReadAudioExCodedFrames ==
  ASSUME NEW r \in RawMessages
  PROVE  UnmarshalAudioExCodedFrames(r) \in AudioExCodedFrames \cup {Refused}
<1>1. Len(r.body) >= 6 => Len(r.body) >= 5
  BY RawFields
<1> QED
  BY <1>1, RawFields, ExRead DEF UnmarshalAudioExCodedFrames, AudioExCodedFrames, Provided

LEMMA ReadAudioExSequenceEnd ==
  ASSUME NEW r \in RawMessages
  PROVE  UnmarshalAudioExSequenceEnd(r) \in AudioExSequenceEnds \cup {Refused}
BY RawFields DEF UnmarshalAudioExSequenceEnd, AudioExSequenceEnds, Provided

LEMMA ReadVideoExSequenceStart ==
  ASSUME NEW r \in RawMessages
  PROVE  UnmarshalVideoExSequenceStart(r) \in VideoExSequenceStarts \cup {Refused}
<1> DEFINE fourCC == FourCCIn(r)
           rest == RestOf(r)
           m == [kind |-> "VideoExSequenceStart", from |-> r.from, fourCC |-> fourCC, config |-> rest]
           good == \/ fourCC \in {FourCCAV1, FourCCVP9} /\ ParsesAs(rest, Configs)
                   \/ fourCC = FourCCHEVC /\ HEVCConfigFound(rest)
                   \/ fourCC = FourCCAVC /\ AVCConfigFound(rest)
<1>1. Len(r.body) >= 5 => rest \in Seq(Byte) /\ r.from \in Address
  BY RawFields, ExRead
<1> HIDE DEF fourCC, rest
<1>2. ASSUME good, Len(r.body) >= 5
      PROVE  m \in VideoExSequenceStarts
  <2>1. fourCC \in VideoFourCCs
    BY <1>2, Zenon DEF VideoFourCCs
  <2>3. m \in [kind : {"VideoExSequenceStart"}, from : Address, fourCC : VideoFourCCs, config : Seq(Byte)]
    BY <1>1, <1>2, <2>1
  <2>4. m.fourCC = fourCC /\ m.config = rest
    OBVIOUS
  <2> HIDE DEF m
  <2> QED
    BY <1>2, <2>3, <2>4, Zenon DEF VideoExSequenceStarts
<1>3. UnmarshalVideoExSequenceStart(r) = IF Len(r.body) >= 5 /\ good THEN m ELSE Refused
  BY Zenon DEF UnmarshalVideoExSequenceStart, Provided, fourCC, rest
<1> QED
  BY <1>2, <1>3, Zenon

LEMMA ReadVideoExFramesX ==
  ASSUME NEW r \in RawMessages
  PROVE  UnmarshalVideoExFramesX(r) \in VideoExFramesX \cup {Refused}
<1>1. Len(r.body) >= 6 => Len(r.body) >= 5
  BY RawFields
<1> QED
  BY <1>1, RawFields, ExRead DEF UnmarshalVideoExFramesX, VideoExFramesX, Provided

LEMMA ReadVideoExSequenceEnd ==
  ASSUME NEW r \in RawMessages
  PROVE  UnmarshalVideoExSequenceEnd(r) \in VideoExSequenceEnds \cup {Refused}
BY RawFields DEF UnmarshalVideoExSequenceEnd, VideoExSequenceEnds, Provided

LEMMA ReadVideoExMetadata ==
  ASSUME AmfFaithful, NEW r \in RawMessages
  PROVE  UnmarshalVideoExMetadata(r) \in VideoExMetadatas \cup {Refused}
<1> DEFINE payload == UnmarshalAmf0(RestOf(r))
           fourCC == FourCCIn(r)
           good == Len(r.body) >= 6 /\ fourCC \in {FourCCAV1, FourCCVP9, FourCCHEVC}
<1>1. r.from \in Address /\ r.dts \in Time /\ (Len(r.body) >= 6 => Len(r.body) >= 5)
  BY RawFields
<1> HIDE DEF fourCC
<1>2. CASE ~good
  BY <1>2, Zenon DEF UnmarshalVideoExMetadata, Provided, fourCC
<1>3. CASE good
  <2>1. RestOf(r) \in Seq(Byte) /\ RestOf(r) # <<>>
    BY <1>1, <1>3, ExRead, Zenon DEF Payload
  <2>2. payload = Bad \/ \E data \in Seq(Amf0Data) : payload = Got(data, <<>>) /\ data # <<>>
    BY <2>1, AmfBody, Zenon
  <2> HIDE DEF payload
  <2>3. CASE payload = Bad
    <3>1. ~payload.ok
      BY <2>3 DEF Bad
    <3> QED
      BY <3>1, Zenon DEF UnmarshalVideoExMetadata, Provided, payload
  <2>4. ASSUME NEW data \in Seq(Amf0Data), payload = Got(data, <<>>), data # <<>>
        PROVE  UnmarshalVideoExMetadata(r) \in VideoExMetadatas
    <3>1. payload.ok /\ payload.item = data
      BY <2>4 DEF Got
    <3>2. UnmarshalVideoExMetadata(r) =
            [kind |-> "VideoExMetadata", from |-> r.from, dts |-> r.dts, fourCC |-> fourCC, data |-> data]
      BY <1>3, <3>1, Zenon DEF UnmarshalVideoExMetadata, Provided, payload, fourCC
    <3> QED
      BY <1>1, <1>3, <2>4, <3>2 DEF VideoExMetadatas
  <2> QED
    BY <2>2, <2>3, <2>4, Zenon
<1> QED
  BY <1>2, <1>3

LEMMA ReadVideoExCodedFrames ==
  ASSUME NEW r \in RawMessages
  PROVE  UnmarshalVideoExCodedFrames(r) \in VideoExCodedFrames \cup {Refused}
<1> DEFINE len == Len(r.body)
           fourCC == FourCCIn(r)
           Frames(delta, payload) ==
             [kind |-> "VideoExCodedFrames", from |-> r.from, dts |-> r.dts, fourCC |-> fourCC,
              delta |-> delta, payload |-> payload]
<1>1. r.body \in Seq(Byte) /\ r.from \in Address /\ r.dts \in Time /\ len \in Nat
  BY RawFields
<1>2. ASSUME NEW delta \in Shift, NEW payload \in Payload, fourCC \in VideoFourCCs,
             fourCC \notin Reordering => delta = 0
      PROVE  Frames(delta, payload) \in VideoExCodedFrames
  BY <1>1, <1>2 DEF VideoExCodedFrames
<1> HIDE DEF len
<1>3. CASE len >= 6 /\ fourCC \in VideoFourCCs \ Reordering
  <2>1. UnmarshalVideoExCodedFrames(r) = Frames(0, RestOf(r))
    BY <1>3, Zenon DEF UnmarshalVideoExCodedFrames, len
  <2>2. RestOf(r) \in Payload
    <3>1. Len(r.body) >= 5 /\ Len(r.body) >= 6
      BY <1>1, <1>3 DEF len
    <3> QED
      BY <3>1, ExRead
  <2> QED
    BY <1>2, <1>3, <2>1, <2>2, NoShift, Zenon
<1>4. CASE len >= 9 /\ fourCC \in Reordering
  <2> DEFINE delta == DeltaOf(SubSeq(r.body, 6, 8))
             frames == Frames(0, RestOf(r))
  <2>1. UnmarshalVideoExCodedFrames(r) = [frames EXCEPT !.delta = delta, !.payload = Drop(r.body, 8)]
    <3>1. ~(len >= 6 /\ fourCC \in VideoFourCCs \ Reordering)
      BY <1>4
    <3> QED
      BY <1>4, <3>1, Zenon DEF UnmarshalVideoExCodedFrames, len
  <2>2. delta \in Shift /\ Drop(r.body, 8) \in Payload
    <3>1. Len(r.body) >= 8 /\ 8 \in 0..Len(r.body)
      BY <1>1, <1>4 DEF len
    <3>2. Drop(r.body, 8) \in Seq(Byte) /\ Len(Drop(r.body, 8)) = len - 8
      BY <1>1, <3>1, DropProperties DEF len
    <3>3. len - 8 # 0
      BY <1>1, <1>4
    <3>4. Drop(r.body, 8) # <<>>
      BY <3>2, <3>3, WhenEmpty
    <3> QED
      BY <1>1, <3>1, <3>2, <3>4, DeltaRead DEF Payload
  <2> HIDE DEF delta
  <2>3. [frames EXCEPT !.delta = delta, !.payload = Drop(r.body, 8)] = Frames(delta, Drop(r.body, 8))
    <3>1. [frames EXCEPT !.delta = delta, !.payload = Drop(r.body, 8)]
            = [[frames EXCEPT !.delta = delta] EXCEPT !.payload = Drop(r.body, 8)]
      BY Zenon
    <3>2. [frames EXCEPT !.delta = delta] = Frames(delta, RestOf(r))
      OBVIOUS
    <3>3. [Frames(delta, RestOf(r)) EXCEPT !.payload = Drop(r.body, 8)] = Frames(delta, Drop(r.body, 8))
      OBVIOUS
    <3> QED
      BY <3>1, <3>2, <3>3, Zenon
  <2>4. fourCC \in VideoFourCCs
    BY <1>4, FourCCs
  <2> HIDE DEF Frames
  <2>5. Frames(delta, Drop(r.body, 8)) \in VideoExCodedFrames
    BY <1>2, <1>4, <2>2, <2>4, Zenon
  <2> QED
    BY <2>1, <2>3, <2>5, Zenon
<1>5. CASE ~(len >= 6 /\ fourCC \in VideoFourCCs \ Reordering) /\ ~(len >= 9 /\ fourCC \in Reordering)
  BY <1>5, Zenon DEF UnmarshalVideoExCodedFrames, len
<1> QED
  BY <1>3, <1>4, <1>5

LEMMA ReadAudioExMultichannelConfig ==
  ASSUME NEW r \in RawMessages
  PROVE  UnmarshalAudioExMultichannelConfig(r) \in AudioExMultichannelConfigs \cup {Refused}
<1> DEFINE len == Len(r.body)
           fourCC == FourCCIn(r)
           order == r.body[6]
           count == r.body[7]
           more == Drop(r.body, 7)
           none == <<0, 0, 0, 0>>
           Config(mapping, flags) ==
             [kind |-> "AudioExMultichannelConfig", from |-> r.from, fourCC |-> fourCC,
              order |-> order, count |-> count, mapping |-> mapping, flags |-> flags]
<1>1. r.body \in Seq(Byte) /\ r.from \in Address /\ len \in Nat
  BY RawFields
<1>2. CASE len < 7 \/ fourCC \notin AudioFourCCs
  BY <1>2, Zenon DEF UnmarshalAudioExMultichannelConfig
<1>3. CASE len >= 7 /\ fourCC \in AudioFourCCs
  <2>1. count \in Byte /\ more \in Seq(Byte)
    <3>1. Len(r.body) >= 7 /\ 7 \in 0..Len(r.body)
      BY <1>1, <1>3
    <3> QED
      BY <1>1, <3>1, ByteAt, DropProperties
  <2>2. ~(len < 7 \/ fourCC \notin AudioFourCCs)
    BY <1>1, <1>3
  <2>3. UnmarshalAudioExMultichannelConfig(r) =
          CASE order = OrderCustom -> Provided(Len(more) = 1, [Config(0, none) EXCEPT !.mapping = more[1]])
            [] order = OrderNative -> Provided(Len(more) = 4, [Config(0, none) EXCEPT !.flags = more])
            [] order = OrderUnspecified -> Provided(more = <<>>, Config(0, none))
            [] OTHER -> Refused
    BY <2>2, Zenon DEF UnmarshalAudioExMultichannelConfig
  <2> HIDE DEF fourCC, order, count, more, none, len
  <2>4. none \in Word /\ 0 \in Byte
    BY DEF none, Word, Byte
  <2>5. ASSUME NEW mapping \in Byte, NEW flags \in Word, order \in {OrderUnspecified, OrderNative, OrderCustom},
               order # OrderCustom => mapping = 0, order # OrderNative => flags = none
        PROVE  Config(mapping, flags) \in AudioExMultichannelConfigs
    <3> DEFINE m == Config(mapping, flags)
    <3>1. m \in [kind : {"AudioExMultichannelConfig"}, from : Address, fourCC : AudioFourCCs,
                 order : {OrderUnspecified, OrderNative, OrderCustom}, count : Byte, mapping : Byte, flags : Word]
      BY <1>1, <1>3, <2>1, <2>5
    <3>2. m.order = order /\ m.mapping = mapping /\ m.flags = flags
      OBVIOUS
    <3> HIDE DEF m
    <3>3. m \in AudioExMultichannelConfigs
      BY <2>5, <3>1, <3>2, Zenon DEF AudioExMultichannelConfigs, none
    <3> QED
      BY <3>3 DEF m
  <2>6. OrderUnspecified # OrderNative /\ OrderUnspecified # OrderCustom /\ OrderNative # OrderCustom
    BY DEF OrderUnspecified, OrderNative, OrderCustom
  <2>7. CASE order = OrderCustom
    <3>1. UnmarshalAudioExMultichannelConfig(r) = Provided(Len(more) = 1, [Config(0, none) EXCEPT !.mapping = more[1]])
      BY <2>3, <2>6, <2>7, Zenon
    <3>2. [Config(0, none) EXCEPT !.mapping = more[1]] = Config(more[1], none)
      OBVIOUS
    <3>3. ASSUME Len(more) = 1
          PROVE  more[1] \in Byte
      <4>1. Len(more) >= 1
        BY <3>3
      <4> QED
        BY <2>1, <4>1, ByteAt
    <3>4. Len(more) = 1 => Config(more[1], none) \in AudioExMultichannelConfigs
      BY <2>4, <2>5, <2>6, <2>7, <3>3, Zenon
    <3> QED
      BY <3>1, <3>2, <3>4, Zenon DEF Provided
  <2>8. CASE order = OrderNative
    <3>1. UnmarshalAudioExMultichannelConfig(r) = Provided(Len(more) = 4, [Config(0, none) EXCEPT !.flags = more])
      BY <2>3, <2>6, <2>8, Zenon
    <3>2. [Config(0, none) EXCEPT !.flags = more] = Config(0, more)
      OBVIOUS
    <3>3. Len(more) = 4 => more \in Word
      BY <2>1 DEF Word
    <3>4. Len(more) = 4 => Config(0, more) \in AudioExMultichannelConfigs
      BY <2>4, <2>5, <2>6, <2>8, <3>3, Zenon
    <3> QED
      BY <3>1, <3>2, <3>4, Zenon DEF Provided
  <2>9. CASE order = OrderUnspecified
    <3>1. UnmarshalAudioExMultichannelConfig(r) = IF more = <<>> THEN Config(0, none) ELSE Refused
      BY <2>3, <2>6, <2>9, Zenon DEF Provided
    <3>2. Config(0, none) \in AudioExMultichannelConfigs
      BY <2>4, <2>5, <2>6, <2>9, Zenon
    <3> QED
      BY <3>1, <3>2, Zenon
  <2> QED
    BY <2>3, <2>7, <2>8, <2>9, Zenon
<1>4. ~(len < 7) => len >= 7
  BY <1>1
<1> QED
  BY <1>2, <1>3, <1>4

LEMMA WrappedRead ==
  ASSUME NEW r \in RawMessages, OneTrack(r)
  PROVE  WrappedRaw(r) \in RawMessages /\ r.body[7] \in Byte
<1>1. r.body \in Seq(Byte) /\ Len(r.body) >= 7 /\ Len(r.body) >= 6 /\ 7 \in 0..Len(r.body)
  BY RawFields DEF OneTrack
<1>2. SubSeq(r.body, 3, 6) \in Word /\ Drop(r.body, 7) \in Seq(Byte) /\ r.body[7] \in Byte
  <2>1. SubSeq(r.body, 3, 6) \in Word
    BY <1>1, WordAt
  <2>2. Drop(r.body, 7) \in Seq(Byte)
    BY <1>1, DropProperties
  <2>3. r.body[7] \in Byte
    BY <1>1, ByteAt
  <2> QED
    BY <2>1, <2>2, <2>3
<1>3. Ex(0, SubSeq(r.body, 3, 6), Drop(r.body, 7)) \in Seq(Byte)
  <2>1. 0 \in Byte
    BY DEF Byte
  <2> QED
    BY <1>2, <2>1, ExParts, Zenon
<1>4. WrappedRaw(r) = [r EXCEPT !.body = Ex(0, SubSeq(r.body, 3, 6), Drop(r.body, 7))]
  BY DEF WrappedRaw, Ex
<1> QED
  BY <1>2, <1>3, <1>4 DEF RawMessages

LEMMA ReadMultitrack ==
  ASSUME NEW r \in RawMessages, NEW S, NEW wrapped \in S \cup {Refused}, NEW kind, OneTrack(r)
  PROVE  Multitrack(kind, r, wrapped) \in [kind : {kind}, trackID : Byte, wrapped : S] \cup {Refused}
<1>1. r.body[7] \in Byte
  BY WrappedRead
<1>2. Multitrack(kind, r, wrapped) =
        IF wrapped # Refused THEN [kind |-> kind, trackID |-> r.body[7], wrapped |-> wrapped] ELSE Refused
  BY Zenon DEF Multitrack, Provided
<1> QED
  BY <1>1, <1>2

LEMMA ReadAudioExMultitrack ==
  ASSUME NEW r \in RawMessages
  PROVE  UnmarshalAudioExMultitrack(r) \in AudioExMultitracks \cup {Refused}
<1>1. CASE ~OneTrack(r)
  BY <1>1 DEF UnmarshalAudioExMultitrack
<1>2. CASE OneTrack(r)
  <2> DEFINE w == WrappedRaw(r)
  <2>1. w \in RawMessages
    BY <1>2, WrappedRead
  <2> HIDE DEF w
  <2>2. /\ UnmarshalAudioExSequenceStart(w) \in AudioExs \cup {Refused}
        /\ UnmarshalAudioExCodedFrames(w) \in AudioExs \cup {Refused}
        /\ UnmarshalAudioExSequenceEnd(w) \in AudioExs \cup {Refused}
        /\ UnmarshalAudioExMultichannelConfig(w) \in AudioExs \cup {Refused}
    BY <2>1, ReadAudioExSequenceStart, ReadAudioExCodedFrames, ReadAudioExSequenceEnd,
       ReadAudioExMultichannelConfig DEF AudioExs
  <2>3. \E wrapped \in AudioExs \cup {Refused} :
          UnmarshalAudioExMultitrack(r) = Multitrack("AudioExMultitrack", r, wrapped)
    BY <1>2, <2>2 DEF UnmarshalAudioExMultitrack, w
  <2> QED
    BY <1>2, <2>3, ReadMultitrack DEF AudioExMultitracks
<1> QED
  BY <1>1, <1>2

LEMMA ReadVideoExMultitrack ==
  ASSUME NEW r \in RawMessages
  PROVE  UnmarshalVideoExMultitrack(r) \in VideoExMultitracks \cup {Refused}
<1>1. CASE ~OneTrack(r)
  BY <1>1 DEF UnmarshalVideoExMultitrack
<1>2. CASE OneTrack(r)
  <2> DEFINE w == WrappedRaw(r)
  <2>1. w \in RawMessages
    BY <1>2, WrappedRead
  <2> HIDE DEF w
  <2>2. /\ UnmarshalVideoExSequenceStart(w) \in VideoExs \cup {Refused}
        /\ UnmarshalVideoExCodedFrames(w) \in VideoExs \cup {Refused}
        /\ UnmarshalVideoExSequenceEnd(w) \in VideoExs \cup {Refused}
        /\ UnmarshalVideoExFramesX(w) \in VideoExs \cup {Refused}
    BY <2>1, ReadVideoExSequenceStart, ReadVideoExCodedFrames, ReadVideoExSequenceEnd,
       ReadVideoExFramesX DEF VideoExs
  <2>3. \E wrapped \in VideoExs \cup {Refused} :
          UnmarshalVideoExMultitrack(r) = Multitrack("VideoExMultitrack", r, wrapped)
    BY <1>2, <2>2 DEF UnmarshalVideoExMultitrack, w
  <2> QED
    BY <1>2, <2>3, ReadMultitrack DEF VideoExMultitracks
<1> QED
  BY <1>1, <1>2

LEMMA ReadAudioMessage ==
  ASSUME NEW r \in RawMessages
  PROVE  AllocateAudio(r) \in Audios \cup AudioExs \cup AudioExMultitracks \cup {Refused}
<1>1. \/ AllocateAudio(r) = UnmarshalAudio(r)
      \/ AllocateAudio(r) = UnmarshalAudioExSequenceStart(r)
      \/ AllocateAudio(r) = UnmarshalAudioExCodedFrames(r)
      \/ AllocateAudio(r) = UnmarshalAudioExSequenceEnd(r)
      \/ AllocateAudio(r) = UnmarshalAudioExMultichannelConfig(r)
      \/ AllocateAudio(r) = UnmarshalAudioExMultitrack(r)
      \/ AllocateAudio(r) = Refused
  BY DEF AllocateAudio
<1> QED
  BY <1>1, ReadAudio, ReadAudioExSequenceStart, ReadAudioExCodedFrames, ReadAudioExSequenceEnd,
     ReadAudioExMultichannelConfig, ReadAudioExMultitrack, Zenon DEF AudioExs

LEMMA ReadVideoMessage ==
  ASSUME AmfFaithful, NEW r \in RawMessages
  PROVE  AllocateVideo(r)
           \in Readable(Videos) \cup VideoExs \cup VideoExMetadatas \cup VideoExMultitracks \cup {Refused}
<1> DEFINE mark == r.body[1]
           One == \/ AllocateVideo(r) = UnmarshalVideo(r)
                  \/ AllocateVideo(r) = UnmarshalVideoExSequenceStart(r)
                  \/ AllocateVideo(r) = UnmarshalVideoExCodedFrames(r)
                  \/ AllocateVideo(r) = UnmarshalVideoExSequenceEnd(r)
                  \/ AllocateVideo(r) = UnmarshalVideoExFramesX(r)
                  \/ AllocateVideo(r) = UnmarshalVideoExMetadata(r)
                  \/ AllocateVideo(r) = UnmarshalVideoExMultitrack(r)
                  \/ AllocateVideo(r) = Refused
<1>1. One
  <2>1. CASE r.body = <<>>
    BY <2>1, Zenon DEF AllocateVideo
  <2>4. ASSUME r.body # <<>>
        PROVE  ~(mark < VideoExMark) <=> mark >= VideoExMark
    <3>1. Len(r.body) >= 1
      BY <2>4, RawFields, WhenEmpty
    <3>2. mark \in 0..255
      <4>1. r.body \in Seq(Byte) /\ Len(r.body) \in Nat
        BY RawFields
      <4>2. mark \in Byte
        BY <3>1, <4>1, ByteAt
      <4> QED
        BY <4>2 DEF Byte
    <3> HIDE DEF mark
    <3> QED
      BY <3>2 DEF VideoExMark
  <2>2. CASE r.body # <<>> /\ mark < VideoExMark
    <3>1. ~(mark >= VideoExMark)
      BY <2>2, <2>4
    <3> QED
      BY <2>2, <3>1, Zenon DEF AllocateVideo
  <2>3. CASE r.body # <<>> /\ ~(mark < VideoExMark)
    <3>1. mark >= VideoExMark
      BY <2>3, <2>4
    <3> DEFINE m == AllocateVideo(r)
    <3>2. m = CASE mark % 16 = 0 -> UnmarshalVideoExSequenceStart(r)
              [] mark % 16 = 1 -> UnmarshalVideoExCodedFrames(r)
              [] mark % 16 = 2 -> UnmarshalVideoExSequenceEnd(r)
              [] mark % 16 = 3 -> UnmarshalVideoExFramesX(r)
              [] mark % 16 = 4 -> UnmarshalVideoExMetadata(r)
              [] mark % 16 = 6 -> UnmarshalVideoExMultitrack(r)
              [] OTHER -> Refused
      BY <2>3, <3>1, Zenon DEF AllocateVideo
    <3> HIDE DEF m, mark
    <3>3. \/ m = UnmarshalVideoExSequenceStart(r) \/ m = UnmarshalVideoExCodedFrames(r)
          \/ m = UnmarshalVideoExSequenceEnd(r) \/ m = UnmarshalVideoExFramesX(r)
          \/ m = UnmarshalVideoExMetadata(r) \/ m = UnmarshalVideoExMultitrack(r) \/ m = Refused
      BY <3>2
    <3> QED
      BY <3>3, Zenon DEF m
  <2> QED
    BY <2>1, <2>2, <2>3, Zenon
<1> QED
  BY <1>1, ReadVideo, ReadVideoExSequenceStart, ReadVideoExCodedFrames, ReadVideoExSequenceEnd,
     ReadVideoExFramesX, ReadVideoExMetadata, ReadVideoExMultitrack, Zenon DEF VideoExs

Undocumented == [kind |-> "UserControlUndocumented"]

LEMMA Steady ==
  ASSUME NEW m, m.kind # "Video"
  PROVE  AsRead(m) = m
BY DEF AsRead

\* None but the legacy video messages have such fields.
Plainly ==
  Uint32Messages \cup UserControls \cup SetPeerBandwidths \cup SetBufferLengths
  \cup CommandMessages \cup DataMessages \cup Audios
  \cup AudioExs \cup VideoExs \cup VideoExMetadatas \cup AudioExMultitracks \cup VideoExMultitracks

LEMMA PlainKinds ==
  \A m \in Plainly : m.kind # "Video"
<1>1. \A m \in Uint32Messages \cup UserControls \cup SetPeerBandwidths \cup SetBufferLengths : m.kind # "Video"
  BY Kinds DEF Uint32Messages, UserControls, SetPeerBandwidths, SetBufferLengths
<1>2. \A m \in CommandMessages \cup DataMessages \cup Audios : m.kind # "Video"
  BY DEF CommandMessages, DataMessages, Audios
<1>3. \A m \in AudioExs : m.kind # "Video"
  BY DEF AudioExs, AudioExSequenceStarts, AudioExCodedFrames, AudioExSequenceEnds, AudioExMultichannelConfigs
<1>4. \A m \in VideoExs : m.kind # "Video"
  BY DEF VideoExs, VideoExSequenceStarts, VideoExCodedFrames, VideoExFramesX, VideoExSequenceEnds
<1>5. \A m \in VideoExMetadatas \cup AudioExMultitracks \cup VideoExMultitracks : m.kind # "Video"
  BY DEF VideoExMetadatas, AudioExMultitracks, VideoExMultitracks
<1> QED
  BY <1>1, <1>2, <1>3, <1>4, <1>5, Zenon DEF Plainly

LEMMA PlainlyReadable ==
  Plainly \cup Readable(Videos) \subseteq Readable(Writable)
<1>1. \A m \in Plainly : m \in Writable /\ AsRead(m) = m
  BY PlainKinds, Steady, Zenon DEF Plainly, Writable
<1>2. \A m \in Readable(Videos) : m \in Writable /\ AsRead(m) = m
  BY Zenon DEF Readable, Writable
<1> QED
  BY <1>1, <1>2, Zenon DEF Readable

LEMMA ReadMessage ==
  ASSUME AmfFaithful, NEW r \in RawMessages
  PROVE  UnmarshalMessage(r) \in Readable(Writable) \cup {Refused, Undocumented}
<1>1. \/ r.type \in {1, 2, 3, 5} /\ UnmarshalMessage(r) = UnmarshalUint32(r)
      \/ UnmarshalMessage(r) = UnmarshalSetPeerBandwidth(r)
      \/ UnmarshalMessage(r) = AllocateUserControl(r)
      \/ UnmarshalMessage(r) = UnmarshalCommandAMF0(r)
      \/ UnmarshalMessage(r) = UnmarshalDataAMF0(r)
      \/ UnmarshalMessage(r) = AllocateAudio(r)
      \/ UnmarshalMessage(r) = AllocateVideo(r)
      \/ UnmarshalMessage(r) = Refused
  BY UnmarshalledBy
<1> DEFINE T == Plainly \cup Readable(Videos) \cup {Refused, Undocumented}
<1>2. r.type \in {1, 2, 3, 5} => UnmarshalUint32(r) \in T
  BY ReadUint32, Zenon DEF Plainly
<1>3. UnmarshalSetPeerBandwidth(r) \in T
  BY ReadSetPeerBandwidth, Zenon DEF Plainly
<1>4. AllocateUserControl(r) \in T
  BY ReadUserControl, Zenon DEF Plainly, Undocumented
<1>5. UnmarshalCommandAMF0(r) \in T /\ UnmarshalDataAMF0(r) \in T
  BY ReadCommandAMF0, ReadDataAMF0, Zenon DEF Plainly
<1>6. AllocateAudio(r) \in T
  BY ReadAudioMessage, Zenon DEF Plainly
<1>7. AllocateVideo(r) \in T
  BY ReadVideoMessage, Zenon DEF Plainly
<1> QED
  BY <1>1, <1>2, <1>3, <1>4, <1>5, <1>6, <1>7, PlainlyReadable, Zenon

-----------------------------------------------------------------------------
(* What is written is read as it was; cut, it lacks its end or is refused. *)

LEMMA RawParts ==
  ASSUME NEW from, NEW type, NEW dts, NEW body
  PROVE  LET r == Raw(from, type, dts, body)
         IN /\ r.from = from /\ r.type = type /\ r.dts = dts /\ r.body = body
            /\ \A b : [r EXCEPT !.body = b] = Raw(from, type, dts, b)
            /\ from \in Address /\ type \in Byte /\ dts \in Time /\ body \in Seq(Byte) => r \in RawMessages
BY DEF Raw, RawMessages

LEMMA PrefixOfItself ==
  ASSUME NEW S, NEW s \in Seq(S)
  PROVE  IsPrefix(s, s)
BY LenProperties DEF IsPrefix

LEMMA ShortenedTail ==
  ASSUME NEW m, m = [x \in DOMAIN m |-> m[x]], NEW field \in DOMAIN m \cap Tails, field # "wrapped",
         NEW tail, IsPrefix(tail, m[field]),
         \A x \in DOMAIN m \cap Tails : x # field => IsPrefix(m[x], m[x])
  PROVE  Shortened([m EXCEPT ![field] = tail], m)
<1> DEFINE short == [m EXCEPT ![field] = tail]
<1>1. DOMAIN short = DOMAIN m
  OBVIOUS
<1>2. \A x \in DOMAIN m : short[x] = IF x = field THEN tail ELSE m[x]
  OBVIOUS
<1> HIDE DEF short
<1>3. ASSUME NEW x \in DOMAIN short \ {"wrapped"}
      PROVE  IF x \in Tails THEN IsPrefix(short[x], m[x]) ELSE short[x] = m[x]
  <2>1. x \in DOMAIN m
    BY <1>1, <1>3
  <2>2. CASE x = field
    <3>1. x \in Tails /\ short[x] = tail
      BY <1>2, <2>1, <2>2
    <3> QED
      BY <2>2, <3>1
  <2>3. CASE x # field
    <3>1. short[x] = m[x] /\ (x \in Tails => IsPrefix(m[x], m[x]))
      BY <1>2, <2>1, <2>3
    <3> QED
      BY <3>1, Zenon
  <2> QED
    BY <2>2, <2>3
<1>4. Shortened(short, m)
  BY <1>1, <1>3, Zenon DEF Shortened
<1> QED
  BY <1>4 DEF short

LEMMA ExFields ==
  ASSUME NEW from, NEW type, NEW dts, NEW mark \in Byte, NEW fourCC \in Word, NEW rest \in Seq(Byte)
  PROVE  LET r == Raw(from, type, dts, Ex(mark, fourCC, rest))
         IN /\ r.from = from /\ r.type = type /\ r.dts = dts
            /\ r.body \in Seq(Byte) /\ Len(r.body) = 5 + Len(rest)
            /\ r.body[1] = mark /\ r.body # <<>>
            /\ FourCCIn(r) = fourCC /\ RestOf(r) = rest
            /\ Len(r.body) >= 5 /\ (Len(r.body) >= 6 <=> rest # <<>>) /\ (Len(r.body) = 5 <=> rest = <<>>)
<1> DEFINE r == Raw(from, type, dts, Ex(mark, fourCC, rest))
           len == Len(rest)
<1>1. r.from = from /\ r.type = type /\ r.dts = dts /\ r.body = Ex(mark, fourCC, rest)
  BY RawParts
<1> HIDE DEF r
<1>2. /\ r.body \in Seq(Byte) /\ Len(r.body) = 5 + len
      /\ r.body[1] = mark /\ r.body # <<>>
      /\ SubSeq(r.body, 2, 5) = fourCC /\ Drop(r.body, 5) = rest
  BY <1>1, ExParts
<1>3. len \in Nat /\ (len = 0 <=> rest = <<>>)
  BY LenProperties, EmptySeq
<1> HIDE DEF len
<1>4. 5 + len >= 5 /\ (5 + len >= 6 <=> ~(len = 0)) /\ (5 + len = 5 <=> len = 0)
  BY <1>3
<1> QED
  BY <1>1, <1>2, <1>3, <1>4 DEF FourCCIn, RestOf, r, len

LEMMA ExCut ==
  ASSUME NEW mark \in Byte, NEW fourCC \in Word, NEW rest \in Seq(Byte), NEW n \in Nat,
         5 <= n, n <= 5 + Len(rest)
  PROVE  SubSeq(Ex(mark, fourCC, rest), 1, n) = Ex(mark, fourCC, SubSeq(rest, 1, n - 5))
<1> DEFINE front == <<mark>> \o fourCC
<1>1. front \in Seq(Byte) /\ Len(front) = 5
  <2>1. fourCC \in Seq(Byte) /\ Len(fourCC) = 4 /\ <<mark>> \in Seq(Byte) /\ Len(<<mark>>) = 1
    BY DEF Word
  <2>2. front \in Seq(Byte) /\ Len(front) = Len(<<mark>>) + Len(fourCC)
    BY <2>1, Joined
  <2> QED
    BY <2>1, <2>2
<1> HIDE DEF front
<1>2. SubSeq(front \o rest, 1, n) = front \o SubSeq(rest, 1, n - 5)
  <2>1. Len(front) <= n /\ n <= Len(front) + Len(rest) /\ n - Len(front) = n - 5
    BY <1>1
  <2> QED
    BY <1>1, <2>1, CutBehind
<1> QED
  BY <1>2 DEF Ex, front

\* The kinds that a multitrack message may wrap.
UnmarshalEx(kind, r) ==
  CASE kind = "AudioExSequenceStart" -> UnmarshalAudioExSequenceStart(r)
    [] kind = "AudioExCodedFrames" -> UnmarshalAudioExCodedFrames(r)
    [] kind = "AudioExSequenceEnd" -> UnmarshalAudioExSequenceEnd(r)
    [] kind = "AudioExMultichannelConfig" -> UnmarshalAudioExMultichannelConfig(r)
    [] kind = "VideoExSequenceStart" -> UnmarshalVideoExSequenceStart(r)
    [] kind = "VideoExCodedFrames" -> UnmarshalVideoExCodedFrames(r)
    [] kind = "VideoExSequenceEnd" -> UnmarshalVideoExSequenceEnd(r)
    [] kind = "VideoExFramesX" -> UnmarshalVideoExFramesX(r)

LEMMA UnmarshalledEx ==
  ASSUME NEW r
  PROVE  /\ UnmarshalEx("AudioExSequenceStart", r) = UnmarshalAudioExSequenceStart(r)
         /\ UnmarshalEx("AudioExCodedFrames", r) = UnmarshalAudioExCodedFrames(r)
         /\ UnmarshalEx("AudioExSequenceEnd", r) = UnmarshalAudioExSequenceEnd(r)
         /\ UnmarshalEx("AudioExMultichannelConfig", r) = UnmarshalAudioExMultichannelConfig(r)
         /\ UnmarshalEx("VideoExSequenceStart", r) = UnmarshalVideoExSequenceStart(r)
         /\ UnmarshalEx("VideoExCodedFrames", r) = UnmarshalVideoExCodedFrames(r)
         /\ UnmarshalEx("VideoExSequenceEnd", r) = UnmarshalVideoExSequenceEnd(r)
         /\ UnmarshalEx("VideoExFramesX", r) = UnmarshalVideoExFramesX(r)
BY DEF UnmarshalEx

LEMMA MarshalledEx ==
  ASSUME NEW m
  PROVE  /\ m.kind = "AudioExSequenceStart" => MarshalWrapped(m) = MarshalAudioExSequenceStart(m)
         /\ m.kind = "AudioExCodedFrames" => MarshalWrapped(m) = MarshalAudioExCodedFrames(m)
         /\ m.kind = "AudioExSequenceEnd" => MarshalWrapped(m) = MarshalAudioExSequenceEnd(m)
         /\ m.kind = "AudioExMultichannelConfig" => MarshalWrapped(m) = MarshalAudioExMultichannelConfig(m)
         /\ m.kind = "VideoExSequenceStart" => MarshalWrapped(m) = MarshalVideoExSequenceStart(m)
         /\ m.kind = "VideoExCodedFrames" => MarshalWrapped(m) = MarshalVideoExCodedFrames(m)
         /\ m.kind = "VideoExSequenceEnd" => MarshalWrapped(m) = MarshalVideoExSequenceEnd(m)
         /\ m.kind = "VideoExFramesX" => MarshalWrapped(m) = MarshalVideoExFramesX(m)
BY DEF MarshalWrapped

\* A message that is of a mark, its FourCC and a rest, and that comes out of them;
\* of a part of the rest, it comes out without its end.
Carries(m, type, mark, dts, rest) ==
  /\ m.from \in Address /\ dts \in Time /\ m.fourCC \in Word /\ rest \in Seq(Byte) /\ mark \in Byte
  /\ MarshalWrapped(m) = Raw(m.from, type, dts, Ex(mark, m.fourCC, rest))
  /\ \A other \in Byte :
       /\ UnmarshalEx(m.kind, Raw(m.from, type, dts, Ex(other, m.fourCC, rest))) = m
       /\ \A n \in 0..Len(rest) :
            LET part == UnmarshalEx(m.kind, Raw(m.from, type, dts, Ex(other, m.fourCC, SubSeq(rest, 1, n))))
            IN part = Refused \/ Shortened(part, m)

LEMMA CarryAudioExSequenceStart ==
  ASSUME NEW m \in AudioExSequenceStarts
  PROVE  Carries(m, TypeAudio, AudioExMark, 0, m.config)
<1>1. /\ m.kind = "AudioExSequenceStart" /\ m.from \in Address /\ m.fourCC \in AudioFourCCs
      /\ m.config \in Seq(Byte) /\ m.fourCC \in Word
      /\ m = [kind |-> "AudioExSequenceStart", from |-> m.from, fourCC |-> m.fourCC, config |-> m.config]
      /\ m = [x \in DOMAIN m |-> m[x]] /\ DOMAIN m = {"kind", "from", "fourCC", "config"}
      /\ IF m.fourCC \in {FourCCAC3, FourCCMP3} THEN m.config = <<>> ELSE ParsesAs(m.config, Configs)
  BY FourCCs DEF AudioExSequenceStarts
<1>2. MarshalWrapped(m) = Raw(m.from, TypeAudio, 0, Ex(AudioExMark, m.fourCC, m.config))
  <2>1. AudioExMark + KeyOf(AudioExTypes, m.kind) = AudioExMark
    BY <1>1, Keys DEF AudioExMark
  <2> QED
    BY <1>1, <2>1, MarshalledEx, Zenon DEF MarshalAudioExSequenceStart, AudioExBody, Ex
<1> DEFINE good(part) == \/ m.fourCC \in {FourCCAC3, FourCCMP3} /\ part = <<>>
                         \/ m.fourCC \in {FourCCOpus, FourCCFLAC, FourCCMP4A} /\ ParsesAs(part, Configs)
<1>3. ASSUME NEW mark \in Byte, NEW part \in Seq(Byte)
      PROVE  UnmarshalEx(m.kind, Raw(m.from, TypeAudio, 0, Ex(mark, m.fourCC, part))) =
               IF good(part) THEN [m EXCEPT !.config = part] ELSE Refused
  <2> DEFINE r == Raw(m.from, TypeAudio, 0, Ex(mark, m.fourCC, part))
  <2>1. r.from = m.from /\ Len(r.body) >= 5 /\ FourCCIn(r) = m.fourCC /\ RestOf(r) = part
    BY <1>1, ExFields
  <2> HIDE DEF r
  <2>2. UnmarshalAudioExSequenceStart(r) =
          IF good(part)
          THEN [kind |-> "AudioExSequenceStart", from |-> m.from, fourCC |-> m.fourCC, config |-> part]
          ELSE Refused
    BY <2>1, Zenon DEF UnmarshalAudioExSequenceStart, Provided
  <2>3. [kind |-> "AudioExSequenceStart", from |-> m.from, fourCC |-> m.fourCC, config |-> part]
          = [m EXCEPT !.config = part]
    BY <1>1
  <2> QED
    BY <1>1, <2>2, <2>3, UnmarshalledEx, Zenon DEF r
<1>4. good(m.config)
  BY <1>1, Zenon DEF AudioFourCCs
<1>5. [m EXCEPT !.config = m.config] = m
  BY <1>1
<1>6. ASSUME NEW n \in 0..Len(m.config)
      PROVE  SubSeq(m.config, 1, n) \in Seq(Byte) /\ Shortened([m EXCEPT !.config = SubSeq(m.config, 1, n)], m)
  <2>1. SubSeq(m.config, 1, n) \in Seq(Byte) /\ IsPrefix(SubSeq(m.config, 1, n), m.config)
    BY <1>1, Take
  <2>2. "config" \in DOMAIN m \cap Tails /\ \A x \in DOMAIN m \cap Tails : x = "config"
    BY <1>1 DEF Tails
  <2> QED
    BY <1>1, <2>1, <2>2, ShortenedTail
<1>7. 0 \in Time /\ AudioExMark \in Byte
  BY DEF Time, AudioExMark, Byte
<1> HIDE DEF good
<1>8. ASSUME NEW other \in Byte
      PROVE  UnmarshalEx(m.kind, Raw(m.from, TypeAudio, 0, Ex(other, m.fourCC, m.config))) = m
  BY <1>1, <1>3, <1>5, <1>4, Zenon
<1>9. ASSUME NEW other \in Byte, NEW n \in 0..Len(m.config)
      PROVE  LET part == UnmarshalEx(m.kind, Raw(m.from, TypeAudio, 0, Ex(other, m.fourCC, SubSeq(m.config, 1, n))))
             IN part = Refused \/ Shortened(part, m)
  BY <1>3, <1>6, Zenon
<1> QED
  BY <1>1, <1>2, <1>7, <1>8, <1>9, Zenon DEF Carries

LEMMA CarryVideoExSequenceStart ==
  ASSUME NEW m \in VideoExSequenceStarts
  PROVE  Carries(m, TypeVideo, VideoExMark, 0, m.config)
<1> DEFINE good(part) == \/ m.fourCC \in {FourCCAV1, FourCCVP9} /\ ParsesAs(part, Configs)
                         \/ m.fourCC = FourCCHEVC /\ HEVCConfigFound(part)
                         \/ m.fourCC = FourCCAVC /\ AVCConfigFound(part)
<1>1. /\ m.kind = "VideoExSequenceStart" /\ m.from \in Address /\ m.fourCC \in VideoFourCCs
      /\ m.config \in Seq(Byte) /\ m.fourCC \in Word
      /\ m = [kind |-> "VideoExSequenceStart", from |-> m.from, fourCC |-> m.fourCC, config |-> m.config]
      /\ m = [x \in DOMAIN m |-> m[x]] /\ DOMAIN m = {"kind", "from", "fourCC", "config"}
  BY FourCCs DEF VideoExSequenceStarts
<1>4. good(m.config)
  BY Zenon DEF VideoExSequenceStarts
<1>2. MarshalWrapped(m) = Raw(m.from, TypeVideo, 0, Ex(VideoExMark, m.fourCC, m.config))
  <2>1. VideoExMark + KeyOf(VideoExTypes, m.kind) = VideoExMark
    BY <1>1, Keys DEF VideoExMark
  <2> QED
    BY <1>1, <2>1, MarshalledEx, Zenon DEF MarshalVideoExSequenceStart, VideoExBody, Ex
<1>3. ASSUME NEW mark \in Byte, NEW part \in Seq(Byte)
      PROVE  UnmarshalEx(m.kind, Raw(m.from, TypeVideo, 0, Ex(mark, m.fourCC, part))) =
               IF good(part) THEN [m EXCEPT !.config = part] ELSE Refused
  <2> DEFINE r == Raw(m.from, TypeVideo, 0, Ex(mark, m.fourCC, part))
  <2>1. r.from = m.from /\ Len(r.body) >= 5 /\ FourCCIn(r) = m.fourCC /\ RestOf(r) = part
    BY <1>1, ExFields
  <2> HIDE DEF r
  <2>2. UnmarshalVideoExSequenceStart(r) =
          IF good(part)
          THEN [kind |-> "VideoExSequenceStart", from |-> m.from, fourCC |-> m.fourCC, config |-> part]
          ELSE Refused
    BY <2>1, Zenon DEF UnmarshalVideoExSequenceStart, Provided
  <2>3. [kind |-> "VideoExSequenceStart", from |-> m.from, fourCC |-> m.fourCC, config |-> part]
          = [m EXCEPT !.config = part]
    BY <1>1
  <2> QED
    BY <1>1, <2>2, <2>3, UnmarshalledEx, Zenon DEF r
<1>5. [m EXCEPT !.config = m.config] = m
  BY <1>1
<1>6. ASSUME NEW n \in 0..Len(m.config)
      PROVE  SubSeq(m.config, 1, n) \in Seq(Byte) /\ Shortened([m EXCEPT !.config = SubSeq(m.config, 1, n)], m)
  <2>1. SubSeq(m.config, 1, n) \in Seq(Byte) /\ IsPrefix(SubSeq(m.config, 1, n), m.config)
    BY <1>1, Take
  <2>2. "config" \in DOMAIN m \cap Tails /\ \A x \in DOMAIN m \cap Tails : x = "config"
    BY <1>1 DEF Tails
  <2> QED
    BY <1>1, <2>1, <2>2, ShortenedTail
<1>7. 0 \in Time /\ VideoExMark \in Byte
  BY DEF Time, VideoExMark, Byte
<1> HIDE DEF good
<1>8. ASSUME NEW other \in Byte
      PROVE  UnmarshalEx(m.kind, Raw(m.from, TypeVideo, 0, Ex(other, m.fourCC, m.config))) = m
  BY <1>1, <1>3, <1>5, <1>4, Zenon
<1>9. ASSUME NEW other \in Byte, NEW n \in 0..Len(m.config)
      PROVE  LET part == UnmarshalEx(m.kind, Raw(m.from, TypeVideo, 0, Ex(other, m.fourCC, SubSeq(m.config, 1, n))))
             IN part = Refused \/ Shortened(part, m)
  BY <1>3, <1>6, Zenon
<1> QED
  BY <1>1, <1>2, <1>7, <1>8, <1>9, Zenon DEF Carries

LEMMA CarryAudioExCodedFrames ==
  ASSUME NEW m \in AudioExCodedFrames
  PROVE  Carries(m, TypeAudio, AudioExMark + 1, m.dts, m.payload)
<1>1. /\ m.kind = "AudioExCodedFrames" /\ m.from \in Address /\ m.dts \in Time /\ m.fourCC \in AudioFourCCs
      /\ m.payload \in Seq(Byte) /\ m.payload # <<>> /\ m.fourCC \in Word
      /\ m = [kind |-> "AudioExCodedFrames", from |-> m.from, dts |-> m.dts, fourCC |-> m.fourCC,
              payload |-> m.payload]
      /\ m = [x \in DOMAIN m |-> m[x]] /\ DOMAIN m = {"kind", "from", "dts", "fourCC", "payload"}
  BY FourCCs DEF AudioExCodedFrames, Payload
<1>2. MarshalWrapped(m) = Raw(m.from, TypeAudio, m.dts, Ex(AudioExMark + 1, m.fourCC, m.payload))
  <2>1. AudioExMark + KeyOf(AudioExTypes, m.kind) = AudioExMark + 1
    BY <1>1, Keys
  <2> QED
    BY <1>1, <2>1, MarshalledEx, Zenon DEF MarshalAudioExCodedFrames, AudioExBody, Ex
<1>3. ASSUME NEW mark \in Byte, NEW part \in Seq(Byte)
      PROVE  UnmarshalEx(m.kind, Raw(m.from, TypeAudio, m.dts, Ex(mark, m.fourCC, part))) =
               IF part # <<>> THEN [m EXCEPT !.payload = part] ELSE Refused
  <2> DEFINE r == Raw(m.from, TypeAudio, m.dts, Ex(mark, m.fourCC, part))
  <2>1. /\ r.from = m.from /\ r.dts = m.dts /\ (Len(r.body) >= 6 <=> part # <<>>)
        /\ FourCCIn(r) = m.fourCC /\ RestOf(r) = part
    BY <1>1, ExFields
  <2> HIDE DEF r
  <2>2. UnmarshalAudioExCodedFrames(r) =
          IF part # <<>>
          THEN [kind |-> "AudioExCodedFrames", from |-> m.from, dts |-> m.dts, fourCC |-> m.fourCC, payload |-> part]
          ELSE Refused
    BY <1>1, <2>1, Zenon DEF UnmarshalAudioExCodedFrames, Provided
  <2>3. [kind |-> "AudioExCodedFrames", from |-> m.from, dts |-> m.dts, fourCC |-> m.fourCC, payload |-> part]
          = [m EXCEPT !.payload = part]
    BY <1>1
  <2> QED
    BY <1>1, <2>2, <2>3, UnmarshalledEx, Zenon DEF r
<1>5. [m EXCEPT !.payload = m.payload] = m
  BY <1>1
<1>6. ASSUME NEW n \in 0..Len(m.payload)
      PROVE  SubSeq(m.payload, 1, n) \in Seq(Byte) /\ Shortened([m EXCEPT !.payload = SubSeq(m.payload, 1, n)], m)
  <2>1. SubSeq(m.payload, 1, n) \in Seq(Byte) /\ IsPrefix(SubSeq(m.payload, 1, n), m.payload)
    BY <1>1, Take
  <2>2. "payload" \in DOMAIN m \cap Tails /\ \A x \in DOMAIN m \cap Tails : x = "payload"
    BY <1>1 DEF Tails
  <2> QED
    BY <1>1, <2>1, <2>2, ShortenedTail
<1>7. AudioExMark + 1 \in Byte
  BY DEF AudioExMark, Byte
<1>8. ASSUME NEW other \in Byte
      PROVE  UnmarshalEx(m.kind, Raw(m.from, TypeAudio, m.dts, Ex(other, m.fourCC, m.payload))) = m
  BY <1>1, <1>3, <1>5, Zenon
<1>9. ASSUME NEW other \in Byte, NEW n \in 0..Len(m.payload)
      PROVE  LET part == UnmarshalEx(m.kind, Raw(m.from, TypeAudio, m.dts, Ex(other, m.fourCC, SubSeq(m.payload, 1, n))))
             IN part = Refused \/ Shortened(part, m)
  BY <1>3, <1>6, Zenon
<1> QED
  BY <1>1, <1>2, <1>7, <1>8, <1>9, Zenon DEF Carries

LEMMA CarryVideoExFramesX ==
  ASSUME NEW m \in VideoExFramesX
  PROVE  Carries(m, TypeVideo, VideoExMark + 3, m.dts, m.payload)
<1>1. /\ m.kind = "VideoExFramesX" /\ m.from \in Address /\ m.dts \in Time /\ m.fourCC \in VideoFourCCs
      /\ m.payload \in Seq(Byte) /\ m.payload # <<>> /\ m.fourCC \in Word
      /\ m = [kind |-> "VideoExFramesX", from |-> m.from, dts |-> m.dts, fourCC |-> m.fourCC,
              payload |-> m.payload]
      /\ m = [x \in DOMAIN m |-> m[x]] /\ DOMAIN m = {"kind", "from", "dts", "fourCC", "payload"}
  BY FourCCs DEF VideoExFramesX, Payload
<1>2. MarshalWrapped(m) = Raw(m.from, TypeVideo, m.dts, Ex(VideoExMark + 3, m.fourCC, m.payload))
  <2>1. VideoExMark + KeyOf(VideoExTypes, m.kind) = VideoExMark + 3
    BY <1>1, Keys
  <2> QED
    BY <1>1, <2>1, MarshalledEx, Zenon DEF MarshalVideoExFramesX, VideoExBody, Ex
<1>3. ASSUME NEW mark \in Byte, NEW part \in Seq(Byte)
      PROVE  UnmarshalEx(m.kind, Raw(m.from, TypeVideo, m.dts, Ex(mark, m.fourCC, part))) =
               IF part # <<>> THEN [m EXCEPT !.payload = part] ELSE Refused
  <2> DEFINE r == Raw(m.from, TypeVideo, m.dts, Ex(mark, m.fourCC, part))
  <2>1. /\ r.from = m.from /\ r.dts = m.dts /\ (Len(r.body) >= 6 <=> part # <<>>)
        /\ FourCCIn(r) = m.fourCC /\ RestOf(r) = part
    BY <1>1, ExFields
  <2> HIDE DEF r
  <2>2. UnmarshalVideoExFramesX(r) =
          IF part # <<>>
          THEN [kind |-> "VideoExFramesX", from |-> m.from, dts |-> m.dts, fourCC |-> m.fourCC, payload |-> part]
          ELSE Refused
    BY <1>1, <2>1, Zenon DEF UnmarshalVideoExFramesX, Provided
  <2>3. [kind |-> "VideoExFramesX", from |-> m.from, dts |-> m.dts, fourCC |-> m.fourCC, payload |-> part]
          = [m EXCEPT !.payload = part]
    BY <1>1
  <2> QED
    BY <1>1, <2>2, <2>3, UnmarshalledEx, Zenon DEF r
<1>5. [m EXCEPT !.payload = m.payload] = m
  BY <1>1
<1>6. ASSUME NEW n \in 0..Len(m.payload)
      PROVE  SubSeq(m.payload, 1, n) \in Seq(Byte) /\ Shortened([m EXCEPT !.payload = SubSeq(m.payload, 1, n)], m)
  <2>1. SubSeq(m.payload, 1, n) \in Seq(Byte) /\ IsPrefix(SubSeq(m.payload, 1, n), m.payload)
    BY <1>1, Take
  <2>2. "payload" \in DOMAIN m \cap Tails /\ \A x \in DOMAIN m \cap Tails : x = "payload"
    BY <1>1 DEF Tails
  <2> QED
    BY <1>1, <2>1, <2>2, ShortenedTail
<1>7. VideoExMark + 3 \in Byte
  BY DEF VideoExMark, Byte
<1>8. ASSUME NEW other \in Byte
      PROVE  UnmarshalEx(m.kind, Raw(m.from, TypeVideo, m.dts, Ex(other, m.fourCC, m.payload))) = m
  BY <1>1, <1>3, <1>5, Zenon
<1>9. ASSUME NEW other \in Byte, NEW n \in 0..Len(m.payload)
      PROVE  LET part == UnmarshalEx(m.kind, Raw(m.from, TypeVideo, m.dts, Ex(other, m.fourCC, SubSeq(m.payload, 1, n))))
             IN part = Refused \/ Shortened(part, m)
  BY <1>3, <1>6, Zenon
<1> QED
  BY <1>1, <1>2, <1>7, <1>8, <1>9, Zenon DEF Carries

LEMMA CarryAudioExSequenceEnd ==
  ASSUME NEW m \in AudioExSequenceEnds
  PROVE  Carries(m, TypeAudio, AudioExMark + 2, 0, <<>>)
<1>1. /\ m.kind = "AudioExSequenceEnd" /\ m.from \in Address /\ m.fourCC \in AudioFourCCs /\ m.fourCC \in Word
      /\ m = [kind |-> "AudioExSequenceEnd", from |-> m.from, fourCC |-> m.fourCC]
      /\ m = [x \in DOMAIN m |-> m[x]] /\ DOMAIN m = {"kind", "from", "fourCC"}
  BY FourCCs DEF AudioExSequenceEnds
<1>2. MarshalWrapped(m) = Raw(m.from, TypeAudio, 0, Ex(AudioExMark + 2, m.fourCC, <<>>))
  <2>1. AudioExMark + KeyOf(AudioExTypes, m.kind) = AudioExMark + 2
    BY <1>1, Keys
  <2> QED
    BY <1>1, <2>1, MarshalledEx, Zenon DEF MarshalAudioExSequenceEnd, AudioExBody, Ex
<1>3. ASSUME NEW mark \in Byte
      PROVE  UnmarshalEx(m.kind, Raw(m.from, TypeAudio, 0, Ex(mark, m.fourCC, <<>>))) = m
  <2> DEFINE rest == <<>>
             r == Raw(m.from, TypeAudio, 0, Ex(mark, m.fourCC, rest))
  <2>1. rest \in Seq(Byte)
    BY EmptySeq
  <2> HIDE DEF rest
  <2>4. r.from = m.from /\ (Len(r.body) = 5 <=> rest = <<>>) /\ FourCCIn(r) = m.fourCC
    BY <1>1, <2>1, ExFields
  <2>2. r.from = m.from /\ Len(r.body) = 5 /\ FourCCIn(r) = m.fourCC
    BY <2>4, Zenon DEF rest
  <2> HIDE DEF r
  <2>3. UnmarshalAudioExSequenceEnd(r) = [kind |-> "AudioExSequenceEnd", from |-> m.from, fourCC |-> m.fourCC]
    BY <1>1, <2>2, Zenon DEF UnmarshalAudioExSequenceEnd, Provided
  <2> QED
    BY <1>1, <2>3, UnmarshalledEx, Zenon DEF r, rest
<1>4. ASSUME NEW n \in 0..Len(<<>>)
      PROVE  SubSeq(<<>>, 1, n) = <<>>
  OBVIOUS
<1>5. Shortened(m, m)
  BY <1>1 DEF Shortened, Tails
<1>6. 0 \in Time /\ AudioExMark + 2 \in Byte /\ <<>> \in Seq(Byte)
  BY EmptySeq DEF Time, AudioExMark, Byte
<1> QED
  BY <1>1, <1>2, <1>3, <1>4, <1>5, <1>6, Zenon DEF Carries

LEMMA CarryVideoExSequenceEnd ==
  ASSUME NEW m \in VideoExSequenceEnds
  PROVE  Carries(m, TypeVideo, VideoExMark + 2, 0, <<>>)
<1>1. /\ m.kind = "VideoExSequenceEnd" /\ m.from \in Address /\ m.fourCC \in VideoFourCCs /\ m.fourCC \in Word
      /\ m = [kind |-> "VideoExSequenceEnd", from |-> m.from, fourCC |-> m.fourCC]
      /\ m = [x \in DOMAIN m |-> m[x]] /\ DOMAIN m = {"kind", "from", "fourCC"}
  BY FourCCs DEF VideoExSequenceEnds
<1>2. MarshalWrapped(m) = Raw(m.from, TypeVideo, 0, Ex(VideoExMark + 2, m.fourCC, <<>>))
  <2>1. VideoExMark + KeyOf(VideoExTypes, m.kind) = VideoExMark + 2
    BY <1>1, Keys
  <2> QED
    BY <1>1, <2>1, MarshalledEx, Zenon DEF MarshalVideoExSequenceEnd, VideoExBody, Ex
<1>3. ASSUME NEW mark \in Byte
      PROVE  UnmarshalEx(m.kind, Raw(m.from, TypeVideo, 0, Ex(mark, m.fourCC, <<>>))) = m
  <2> DEFINE rest == <<>>
             r == Raw(m.from, TypeVideo, 0, Ex(mark, m.fourCC, rest))
  <2>1. rest \in Seq(Byte)
    BY EmptySeq
  <2> HIDE DEF rest
  <2>4. r.from = m.from /\ (Len(r.body) = 5 <=> rest = <<>>) /\ FourCCIn(r) = m.fourCC
    BY <1>1, <2>1, ExFields
  <2>2. r.from = m.from /\ Len(r.body) = 5 /\ FourCCIn(r) = m.fourCC
    BY <2>4, Zenon DEF rest
  <2> HIDE DEF r
  <2>3. UnmarshalVideoExSequenceEnd(r) = [kind |-> "VideoExSequenceEnd", from |-> m.from, fourCC |-> m.fourCC]
    BY <1>1, <2>2, Zenon DEF UnmarshalVideoExSequenceEnd, Provided
  <2> QED
    BY <1>1, <2>3, UnmarshalledEx, Zenon DEF r, rest
<1>4. ASSUME NEW n \in 0..Len(<<>>)
      PROVE  SubSeq(<<>>, 1, n) = <<>>
  OBVIOUS
<1>5. Shortened(m, m)
  BY <1>1 DEF Shortened, Tails
<1>6. 0 \in Time /\ VideoExMark + 2 \in Byte /\ <<>> \in Seq(Byte)
  BY EmptySeq DEF Time, VideoExMark, Byte
<1> QED
  BY <1>1, <1>2, <1>3, <1>4, <1>5, <1>6, Zenon DEF Carries

LEMMA DeltaWritten ==
  ASSUME NEW delta \in Shift
  PROVE  /\ DeltaBytes(delta) \in Seq(Byte) /\ Len(DeltaBytes(delta)) = 3
         /\ DeltaOf(DeltaBytes(delta)) = delta
<1> DEFINE n == delta % (2 * SignBit)
           x == n \div 65536
           y == (n \div 256) % 256
           z == n % 256
<1>0. SignBit = 128 * 65536
  BY SMT DEF SignBit
<1>1. delta \in Int /\ -SignBit <= delta /\ delta < SignBit /\ SignBit \in Nat
  <2>1. SignBit \in Nat
    BY SMT DEF SignBit
  <2>2. delta \in (-SignBit)..(SignBit - 1)
    BY Zenon DEF Shift
  <2> QED
    BY <2>1, <2>2, SMT
<1>2. n \in Nat /\ n < 2 * SignBit /\ n = IF delta < 0 THEN delta + 2 * SignBit ELSE delta
  <2>1. CASE delta < 0
    <3>1. n = delta + 2 * SignBit
      BY <1>0, <1>1, <2>1, SMT
    <3> HIDE DEF n
    <3> QED
      BY <1>1, <2>1, <3>1, SMT
  <2>2. CASE ~(delta < 0)
    <3>1. n = delta
      BY <1>0, <1>1, <2>2, SMT
    <3> HIDE DEF n
    <3> QED
      BY <1>1, <2>2, <3>1, SMT
  <2> QED
    BY <2>1, <2>2
<1> HIDE DEF n
<1>3. x \in 0..255 /\ y \in 0..255 /\ z \in 0..255 /\ x * 65536 + y * 256 + z = n
  BY <1>0, <1>2, SMT
<1>4. DeltaBytes(delta) = <<x, y, z>>
  BY DEF DeltaBytes, n
<1> HIDE DEF x, y, z
<1>5. DeltaOf(<<x, y, z>>) = IF n >= SignBit THEN n - 2 * SignBit ELSE n
  BY <1>3, SMT DEF DeltaOf
<1>6. (IF n >= SignBit THEN n - 2 * SignBit ELSE n) = delta
  BY <1>1, <1>2, SMT
<1>7. <<x, y, z>> \in Seq(Byte) /\ Len(<<x, y, z>>) = 3
  BY <1>3 DEF Byte
<1> QED
  BY <1>4, <1>5, <1>6, <1>7, Zenon

LEMMA ExBehind ==
  ASSUME NEW mark \in Byte, NEW fourCC \in Word, NEW head \in Seq(Byte), NEW part \in Seq(Byte)
  PROVE  LET body == Ex(mark, fourCC, head \o part)
         IN /\ body \in Seq(Byte) /\ Len(body) = (5 + Len(head)) + Len(part)
            /\ \A i \in 1..Len(head) : body[5 + i] = head[i]
            /\ Drop(body, 5 + Len(head)) = part
<1> DEFINE rest == head \o part
           front == Ex(mark, fourCC, head)
           body == Ex(mark, fourCC, rest)
<1>1. front \in Seq(Byte) /\ Len(front) = 5 + Len(head)
  BY ExParts
<1>2. body = front \o part
  <2>1. <<mark>> \in Seq(Byte) /\ fourCC \in Seq(Byte)
    BY DEF Word
  <2>2. <<mark>> \o fourCC \in Seq(Byte)
    BY <2>1, ConcatProperties
  <2>3. (<<mark>> \o fourCC) \o (head \o part) = ((<<mark>> \o fourCC) \o head) \o part
    BY <2>2, ConcatAssociative
  <2> QED
    BY <2>3, Zenon DEF Ex
<1> HIDE DEF front
<1>3. Drop(body, 5 + Len(head)) = part
  <2>1. Drop(front \o part, Len(front)) = part
    BY <1>1, Joined
  <2> QED
    BY <1>1, <1>2, <2>1, Zenon
<1>4. /\ rest \in Seq(Byte) /\ Len(rest) = Len(head) + Len(part)
      /\ \A i \in 1..Len(head) : rest[i] = head[i]
  BY Joined
<1> HIDE DEF rest
<1>5. /\ body \in Seq(Byte) /\ Len(body) = 5 + Len(rest)
      /\ \A i \in 6..(5 + Len(rest)) : body[i] = rest[i - 5]
  BY <1>4, ExParts
<1>6. Len(head) \in Nat /\ Len(part) \in Nat
  BY LenProperties
<1> HIDE DEF body
<1>7. Len(body) = (5 + Len(head)) + Len(part)
  BY <1>4, <1>5, <1>6
<1>8. \A i \in 1..Len(head) : body[5 + i] = head[i]
  BY <1>4, <1>5, <1>6
<1> QED
  BY <1>3, <1>5, <1>7, <1>8 DEF body, rest

LEMMA ExDelta ==
  ASSUME NEW mark \in Byte, NEW fourCC \in Word, NEW delta \in Shift, NEW part \in Seq(Byte)
  PROVE  LET body == Ex(mark, fourCC, DeltaBytes(delta) \o part)
         IN /\ Len(body) = 8 + Len(part)
            /\ DeltaOf(SubSeq(body, 6, 8)) = delta
            /\ Drop(body, 8) = part
<1> DEFINE bytes == DeltaBytes(delta)
           body == Ex(mark, fourCC, bytes \o part)
           len == Len(part)
<1>1. bytes \in Seq(Byte) /\ Len(bytes) = 3 /\ DeltaOf(bytes) = delta
  BY DeltaWritten
<1> HIDE DEF bytes
<1>2. /\ body \in Seq(Byte) /\ Len(body) = (5 + Len(bytes)) + len
      /\ \A i \in 1..Len(bytes) : body[5 + i] = bytes[i]
      /\ Drop(body, 5 + Len(bytes)) = part
  <2>1. bytes \in Seq(Byte)
    BY <1>1
  <2> QED
    BY <2>1, ExBehind
<1>3. len \in Nat /\ 5 + Len(bytes) = 8
  BY <1>1, LenProperties
<1> HIDE DEF body, len
<1>4. Len(body) = 8 + len /\ Drop(body, 8) = part
  BY <1>2, <1>3, Zenon
<1>5. SubSeq(body, 6, 8) = bytes
  <2>1. \A i \in 6..8 : body[i] \in Byte
    BY <1>2, <1>3, <1>4, ByteAt
  <2>2. /\ SubSeq(body, 6, 8) \in Seq(Byte) /\ Len(SubSeq(body, 6, 8)) = 3
        /\ \A i \in 1..3 : SubSeq(body, 6, 8)[i] = body[6 + i - 1]
    BY <2>1, SubSeqProperties
  <2>3. \A i \in 1..3 : body[5 + i] = bytes[i]
    BY <1>1, <1>2
  <2>4. \A i \in 1..3 : SubSeq(body, 6, 8)[i] = bytes[i]
    BY <2>2, <2>3
  <2> QED
    BY <1>1, <2>2, <2>4, SeqEqual
<1> QED
  BY <1>1, <1>4, <1>5 DEF body, bytes, len

LEMMA CarryAudioExMultichannelConfig ==
  ASSUME NEW m \in AudioExMultichannelConfigs
  PROVE  Carries(m, TypeAudio, AudioExMark + 4, 0,
                 <<m.order, m.count>> \o CASE m.order = OrderCustom -> <<m.mapping>>
                                           [] m.order = OrderNative -> m.flags
                                           [] OTHER -> <<>>)
<1> DEFINE tail == CASE m.order = OrderCustom -> <<m.mapping>>
                     [] m.order = OrderNative -> m.flags
                     [] OTHER -> <<>>
           head == <<m.order, m.count>>
           rest == head \o tail
           none == <<0, 0, 0, 0>>
           Config(mapping, flags) ==
             [kind |-> "AudioExMultichannelConfig", from |-> m.from, fourCC |-> m.fourCC,
              order |-> m.order, count |-> m.count, mapping |-> mapping, flags |-> flags]
           R(other, part) == Raw(m.from, TypeAudio, 0, Ex(other, m.fourCC, part))
<1>1. /\ m.kind = "AudioExMultichannelConfig" /\ m.from \in Address /\ m.fourCC \in AudioFourCCs
      /\ m.order \in {OrderUnspecified, OrderNative, OrderCustom} /\ m.count \in Byte
      /\ m.mapping \in Byte /\ m.flags \in Word /\ m.fourCC \in Word
      /\ m = Config(m.mapping, m.flags)
      /\ m = [x \in DOMAIN m |-> m[x]]
      /\ DOMAIN m = {"kind", "from", "fourCC", "order", "count", "mapping", "flags"}
      /\ m.order # OrderCustom => m.mapping = 0
      /\ m.order # OrderNative => m.flags = none
  BY FourCCs DEF AudioExMultichannelConfigs
<1>2. OrderUnspecified # OrderNative /\ OrderUnspecified # OrderCustom /\ OrderNative # OrderCustom
      /\ OrderUnspecified \in Byte /\ OrderNative \in Byte /\ OrderCustom \in Byte
  BY DEF OrderUnspecified, OrderNative, OrderCustom, Byte
<1>3. /\ m.order = OrderCustom => tail = <<m.mapping>>
      /\ m.order = OrderNative => tail = m.flags
      /\ m.order = OrderUnspecified => tail = <<>>
  BY <1>2, Zenon
<1>4. head \in Seq(Byte) /\ Len(head) = 2 /\ head[1] = m.order /\ head[2] = m.count
  BY <1>1, <1>2
<1>5. MarshalWrapped(m) = R(AudioExMark + 4, rest)
  <2>1. AudioExMark + KeyOf(AudioExTypes, m.kind) = AudioExMark + 4
    BY <1>1, Keys
  <2> QED
    BY <1>1, <2>1, MarshalledEx, Zenon DEF MarshalAudioExMultichannelConfig, AudioExBody, Ex
<1> HIDE DEF tail, head
<1>6. tail \in Seq(Byte) /\ Len(tail) = IF m.order = OrderCustom THEN 1 ELSE IF m.order = OrderNative THEN 4 ELSE 0
  <2>1. CASE m.order = OrderCustom
    BY <1>1, <1>3, <2>1
  <2>2. CASE m.order = OrderNative
    BY <1>1, <1>2, <1>3, <2>2 DEF Word
  <2>3. CASE m.order = OrderUnspecified
    BY <1>2, <1>3, <2>3, EmptySeq
  <2> QED
    BY <1>1, <2>1, <2>2, <2>3
\* Behind order and count there must be as much as the order calls for.
<1>7. ASSUME NEW other \in Byte, NEW part \in Seq(Byte)
      PROVE  UnmarshalEx(m.kind, R(other, head \o part)) =
               CASE m.order = OrderCustom -> IF Len(part) = 1 THEN Config(part[1], none) ELSE Refused
                 [] m.order = OrderNative -> IF Len(part) = 4 THEN Config(0, part) ELSE Refused
                 [] OTHER -> IF part = <<>> THEN Config(0, none) ELSE Refused
  <2> DEFINE whole == head \o part
             r == R(other, whole)
             len == Len(part)
  <2>1. head \in Seq(Byte) /\ whole \in Seq(Byte)
    BY <1>4, ConcatProperties
  <2> HIDE DEF whole
  <2>2. r.from = m.from /\ FourCCIn(r) = m.fourCC
    BY <1>1, <2>1, ExFields
  <2>3. r.body = Ex(other, m.fourCC, head \o part)
    BY RawParts DEF whole
  <2> HIDE DEF r
  <2>4. /\ Len(r.body) = (5 + Len(head)) + Len(part)
        /\ \A i \in 1..Len(head) : r.body[5 + i] = head[i]
        /\ Drop(r.body, 5 + Len(head)) = part
    BY <1>1, <2>1, <2>3, ExBehind
  <2>5. 5 + Len(head) = 7 /\ 1 \in 1..Len(head) /\ 2 \in 1..Len(head) /\ 5 + 1 = 6 /\ 5 + 2 = 7
    BY <1>4
  <2>6. Drop(r.body, 7) = part /\ r.body[6] = m.order /\ r.body[7] = m.count
    <3>1. r.body[5 + 1] = head[1] /\ r.body[5 + 2] = head[2]
      BY <2>4, <2>5, Zenon
    <3> QED
      BY <1>4, <2>4, <2>5, <3>1, Zenon
  <2>7. ~(Len(r.body) < 7 \/ FourCCIn(r) \notin AudioFourCCs)
    <3>1. Len(r.body) = 7 + len /\ len \in Nat
      BY <2>4, <2>5, LenProperties
    <3> HIDE DEF len
    <3>2. ~(Len(r.body) < 7)
      BY <3>1
    <3> QED
      BY <1>1, <2>2, <3>2, Zenon
  <2>8. UnmarshalAudioExMultichannelConfig(r) =
          CASE m.order = OrderCustom -> IF Len(part) = 1 THEN [Config(0, none) EXCEPT !.mapping = part[1]] ELSE Refused
            [] m.order = OrderNative -> IF Len(part) = 4 THEN [Config(0, none) EXCEPT !.flags = part] ELSE Refused
            [] m.order = OrderUnspecified -> IF part = <<>> THEN Config(0, none) ELSE Refused
            [] OTHER -> Refused
    BY <2>2, <2>6, <2>7, Zenon DEF UnmarshalAudioExMultichannelConfig, Provided
  <2>9. [Config(0, none) EXCEPT !.mapping = part[1]] = Config(part[1], none)
    OBVIOUS
  <2>10. [Config(0, none) EXCEPT !.flags = part] = Config(0, part)
    OBVIOUS
  <2> HIDE DEF Config, none
  <2>11. UnmarshalEx(m.kind, R(other, head \o part)) = UnmarshalAudioExMultichannelConfig(r)
    BY <1>1, UnmarshalledEx, Zenon DEF r, whole
  <2>12. CASE m.order = OrderCustom
    BY <1>2, <2>8, <2>9, <2>11, <2>12, Zenon
  <2>13. CASE m.order = OrderNative
    BY <1>2, <2>8, <2>10, <2>11, <2>13, Zenon
  <2>14. CASE m.order = OrderUnspecified
    BY <1>2, <2>8, <2>11, <2>14, Zenon
  <2> QED
    BY <1>1, <2>12, <2>13, <2>14, Zenon
<1>8. ASSUME NEW other \in Byte
      PROVE  UnmarshalEx(m.kind, R(other, rest)) = m
  <2>1. CASE m.order = OrderCustom
    <3>1. tail = <<m.mapping>> /\ Len(tail) = 1 /\ tail[1] = m.mapping /\ m.flags = none
      BY <1>1, <1>2, <1>3, <2>1
    <3> QED
      BY <1>1, <1>2, <1>6, <1>7, <2>1, <3>1, Zenon
  <2>2. CASE m.order = OrderNative
    <3>1. tail = m.flags /\ Len(tail) = 4 /\ m.mapping = 0
      BY <1>1, <1>2, <1>3, <2>2 DEF Word
    <3> QED
      BY <1>1, <1>2, <1>6, <1>7, <2>2, <3>1, Zenon
  <2>3. CASE m.order = OrderUnspecified
    <3>1. tail = <<>> /\ m.mapping = 0 /\ m.flags = none
      BY <1>1, <1>2, <1>3, <2>3
    <3> QED
      BY <1>1, <1>2, <1>6, <1>7, <2>3, <3>1, Zenon
  <2> QED
    BY <1>1, <2>1, <2>2, <2>3, Zenon
<1>9. ASSUME NEW other \in Byte, NEW part \in Seq(Byte), Len(part) # Len(tail)
      PROVE  UnmarshalEx(m.kind, R(other, head \o part)) = Refused
  <2>1. CASE m.order = OrderCustom
    <3>1. Len(tail) = 1
      BY <1>6, <2>1, Zenon
    <3>2. ~(Len(part) = 1)
      BY <1>9, <3>1, Zenon
    <3> QED
      BY <1>2, <1>7, <2>1, <3>2, Zenon
  <2>2. CASE m.order = OrderNative
    <3>1. Len(tail) = 4
      BY <1>2, <1>6, <2>2, Zenon
    <3>2. ~(Len(part) = 4)
      BY <1>9, <3>1, Zenon
    <3> QED
      BY <1>2, <1>7, <2>2, <3>2, Zenon
  <2>3. CASE m.order = OrderUnspecified
    <3>1. part # <<>>
      BY <1>2, <1>3, <1>9, <2>3, Zenon
    <3> QED
      BY <1>2, <1>7, <2>3, <3>1, Zenon
  <2> QED
    BY <1>1, <2>1, <2>2, <2>3, Zenon
<1>10. ASSUME NEW other \in Byte, NEW part \in Seq(Byte), Len(part) < Len(head)
       PROVE  UnmarshalEx(m.kind, R(other, part)) = Refused
  <2> DEFINE r == R(other, part)
             len == Len(part)
  <2>1. len < 2 /\ len \in Nat
    BY <1>4, <1>10, LenProperties
  <2>2. Len(r.body) = 5 + len
    BY <1>1, ExFields
  <2> HIDE DEF len, r
  <2>3. Len(r.body) < 7
    BY <2>1, <2>2
  <2>4. UnmarshalAudioExMultichannelConfig(r) = Refused
    BY <2>3, Zenon DEF UnmarshalAudioExMultichannelConfig
  <2> QED
    BY <1>1, <2>4, UnmarshalledEx, Zenon DEF r
<1>11. head \in Seq(Byte)
  BY <1>4
<1>12. rest \in Seq(Byte) /\ Len(rest) = Len(head) + Len(tail)
  <2>1. tail \in Seq(Byte)
    BY <1>6
  <2> QED
    BY <1>11, <2>1, Joined
<1>13. ASSUME NEW other \in Byte, NEW n \in 0..Len(rest)
       PROVE  LET part == UnmarshalEx(m.kind, R(other, SubSeq(rest, 1, n)))
              IN part = Refused \/ Shortened(part, m)
  <2>1. Len(head) \in Nat /\ Len(tail) \in Nat /\ n \in Nat /\ n <= Len(head) + Len(tail)
    BY <1>4, <1>6, <1>12, LenProperties
  <2>2. CASE n < Len(head)
    <3>1. SubSeq(rest, 1, n) \in Seq(Byte) /\ Len(SubSeq(rest, 1, n)) = n
      BY <1>12, Take
    <3> QED
      BY <1>10, <2>2, <3>1
  <2>3. CASE n >= Len(head) /\ n # Len(rest)
    <3> DEFINE k == n - Len(head)
               part == SubSeq(tail, 1, k)
    <3>0. tail \in Seq(Byte)
      BY <1>6
    <3>1. SubSeq(rest, 1, n) = head \o part
      BY <1>11, <2>1, <2>3, <3>0, CutBehind
    <3>2. k \in 0..Len(tail) /\ k # Len(tail)
      BY <1>12, <2>1, <2>3
    <3>3. part \in Seq(Byte) /\ Len(part) = k
      BY <3>0, <3>2, Take
    <3> HIDE DEF part, k
    <3> QED
      BY <1>9, <3>1, <3>2, <3>3, Zenon
  <2>4. CASE n = Len(rest)
    <3>1. SubSeq(rest, 1, n) = rest
      BY <1>12, <2>4, SubSeqFull
    <3>2. Shortened(m, m)
      BY <1>1 DEF Shortened, Tails
    <3> QED
      BY <1>8, <3>1, <3>2, Zenon
  <2> QED
    BY <2>1, <2>2, <2>3, <2>4
<1>14. AudioExMark + 4 \in Byte /\ 0 \in Time
  BY DEF AudioExMark, Byte, Time
<1>15. Carries(m, TypeAudio, AudioExMark + 4, 0, rest)
  BY <1>1, <1>5, <1>8, <1>12, <1>13, <1>14, Zenon DEF Carries
<1> QED
  BY <1>15 DEF tail, head

LEMMA CarryVideoExCodedFrames ==
  ASSUME NEW m \in VideoExCodedFrames
  PROVE  Carries(m, TypeVideo, VideoExMark + 1, m.dts,
                 (IF m.fourCC \in Reordering THEN DeltaBytes(m.delta) ELSE <<>>) \o m.payload)
<1> DEFINE bytes == IF m.fourCC \in Reordering THEN DeltaBytes(m.delta) ELSE <<>>
           rest == bytes \o m.payload
           Frames(delta, payload) ==
             [kind |-> "VideoExCodedFrames", from |-> m.from, dts |-> m.dts, fourCC |-> m.fourCC,
              delta |-> delta, payload |-> payload]
           R(other, part) == Raw(m.from, TypeVideo, m.dts, Ex(other, m.fourCC, part))
<1>1. /\ m.kind = "VideoExCodedFrames" /\ m.from \in Address /\ m.dts \in Time /\ m.fourCC \in VideoFourCCs
      /\ m.payload \in Seq(Byte) /\ m.payload # <<>> /\ m.fourCC \in Word /\ m.delta \in Shift
      /\ m = Frames(m.delta, m.payload)
      /\ m = [x \in DOMAIN m |-> m[x]] /\ DOMAIN m = {"kind", "from", "dts", "fourCC", "delta", "payload"}
      /\ m.fourCC \notin Reordering => m.delta = 0
  BY FourCCs DEF VideoExCodedFrames, Payload
<1>2. bytes \in Seq(Byte) /\ Len(bytes) = IF m.fourCC \in Reordering THEN 3 ELSE 0
  BY <1>1, DeltaWritten, EmptySeq
<1>3. MarshalWrapped(m) = R(VideoExMark + 1, rest)
  <2>1. VideoExMark + KeyOf(VideoExTypes, m.kind) = VideoExMark + 1
    BY <1>1, Keys
  <2> QED
    BY <1>1, <2>1, MarshalledEx, Zenon DEF MarshalVideoExCodedFrames, VideoExBody, Ex
\* Behind the delta, whatever follows is the payload.
<1>4. ASSUME NEW other \in Byte, NEW part \in Seq(Byte)
      PROVE  UnmarshalEx(m.kind, R(other, bytes \o part)) =
               IF part # <<>> THEN [m EXCEPT !.payload = part] ELSE Refused
  <2> DEFINE whole == bytes \o part
             r == R(other, whole)
  <2>1. whole \in Seq(Byte)
    BY <1>2, ConcatProperties
  <2> HIDE DEF whole
  <2>2. r.from = m.from /\ r.dts = m.dts /\ FourCCIn(r) = m.fourCC /\ RestOf(r) = whole
        /\ (Len(r.body) >= 6 <=> whole # <<>>)
    BY <1>1, <2>1, ExFields
  <2>3. r.body = Ex(other, m.fourCC, bytes \o part)
    BY RawParts DEF whole
  <2>4. [m EXCEPT !.payload = part] = Frames(m.delta, part)
    BY <1>1
  <2> HIDE DEF r
  <2>5. CASE m.fourCC \notin Reordering
    <3>1. whole = part /\ m.delta = 0
      BY <1>1, <2>5, ConcatEmptySeq DEF whole
    <3>2. UnmarshalVideoExCodedFrames(r) = IF part # <<>> THEN Frames(0, part) ELSE Refused
      BY <1>1, <2>2, <2>5, <3>1, Zenon DEF UnmarshalVideoExCodedFrames
    <3> QED
      BY <1>1, <2>4, <3>1, <3>2, UnmarshalledEx, Zenon DEF r, whole
  <2>6. CASE m.fourCC \in Reordering
    <3> DEFINE len == Len(part)
               frames == Frames(0, RestOf(r))
    <3>1. Len(r.body) = 8 + len /\ DeltaOf(SubSeq(r.body, 6, 8)) = m.delta /\ Drop(r.body, 8) = part
      BY <1>1, <2>3, <2>6, ExDelta
    <3>2. len \in Nat /\ (len = 0 <=> part = <<>>)
      BY LenProperties, EmptySeq
    <3> HIDE DEF len
    <3>3. Len(r.body) >= 9 <=> part # <<>>
      <4>1. 8 + len >= 9 <=> ~(len = 0)
        BY <3>2
      <4> QED
        BY <3>1, <3>2, <4>1, Zenon
    <3>4. UnmarshalVideoExCodedFrames(r) =
            IF part # <<>> THEN [frames EXCEPT !.delta = m.delta, !.payload = part] ELSE Refused
      BY <1>1, <2>2, <2>6, <3>1, <3>3, Zenon DEF UnmarshalVideoExCodedFrames
    <3>5. [frames EXCEPT !.delta = m.delta, !.payload = part] = Frames(m.delta, part)
      <4>1. [frames EXCEPT !.delta = m.delta, !.payload = part]
              = [[frames EXCEPT !.delta = m.delta] EXCEPT !.payload = part]
        BY Zenon
      <4>2. [frames EXCEPT !.delta = m.delta] = Frames(m.delta, RestOf(r))
        OBVIOUS
      <4>3. [Frames(m.delta, RestOf(r)) EXCEPT !.payload = part] = Frames(m.delta, part)
        OBVIOUS
      <4> QED
        BY <4>1, <4>2, <4>3, Zenon
    <3> QED
      BY <1>1, <2>4, <3>4, <3>5, UnmarshalledEx, Zenon DEF r, whole
  <2> QED
    BY <2>5, <2>6
\* With a part of the delta there is no payload.
<1>5. ASSUME NEW other \in Byte, NEW part \in Seq(Byte), Len(part) < Len(bytes)
      PROVE  UnmarshalEx(m.kind, R(other, part)) = Refused
  <2> DEFINE r == R(other, part)
             len == Len(part)
  <2>1. m.fourCC \in Reordering /\ len < 3 /\ len \in Nat
    BY <1>2, <1>5, LenProperties
  <2>2. FourCCIn(r) = m.fourCC /\ Len(r.body) = 5 + len
    BY <1>1, ExFields
  <2> HIDE DEF len, r
  <2>3. ~(Len(r.body) >= 9)
    BY <2>1, <2>2
  <2>4. UnmarshalVideoExCodedFrames(r) = Refused
    BY <2>1, <2>2, <2>3, Zenon DEF UnmarshalVideoExCodedFrames
  <2> QED
    BY <1>1, <2>4, UnmarshalledEx, Zenon DEF r
<1> HIDE DEF bytes
<1>6. rest \in Seq(Byte) /\ Len(rest) = Len(bytes) + Len(m.payload)
  <2>1. bytes \in Seq(Byte) /\ m.payload \in Seq(Byte)
    BY <1>1, <1>2
  <2> QED
    BY <2>1, Joined
<1>7. ASSUME NEW other \in Byte
      PROVE  UnmarshalEx(m.kind, R(other, rest)) = m
  <2>1. [m EXCEPT !.payload = m.payload] = m
    BY <1>1
  <2> QED
    BY <1>1, <1>4, <2>1, Zenon
<1>8. ASSUME NEW other \in Byte, NEW n \in 0..Len(rest)
      PROVE  LET part == UnmarshalEx(m.kind, R(other, SubSeq(rest, 1, n)))
             IN part = Refused \/ Shortened(part, m)
  <2>1. Len(bytes) \in Nat /\ Len(m.payload) \in Nat /\ n \in Nat /\ n <= Len(bytes) + Len(m.payload)
    BY <1>1, <1>2, <1>6, LenProperties
  <2>2. CASE n < Len(bytes)
    <3>1. SubSeq(rest, 1, n) \in Seq(Byte) /\ Len(SubSeq(rest, 1, n)) = n
      BY <1>6, Take
    <3> QED
      BY <1>5, <2>2, <3>1
  <2>3. CASE n >= Len(bytes)
    <3> DEFINE k == n - Len(bytes)
               part == SubSeq(m.payload, 1, k)
    <3>1. SubSeq(rest, 1, n) = bytes \o part
      BY <1>1, <1>2, <2>1, <2>3, CutBehind
    <3>2. k \in 0..Len(m.payload)
      BY <2>1, <2>3
    <3>3. part \in Seq(Byte) /\ IsPrefix(part, m.payload)
      BY <1>1, <3>2, Take
    <3>4. "payload" \in DOMAIN m \cap Tails /\ \A x \in DOMAIN m \cap Tails : x = "payload"
      BY <1>1 DEF Tails
    <3> HIDE DEF part
    <3>5. Shortened([m EXCEPT !.payload = part], m)
      BY <1>1, <3>3, <3>4, ShortenedTail
    <3> QED
      BY <1>4, <3>1, <3>3, <3>5, Zenon
  <2> QED
    BY <2>1, <2>2, <2>3
<1>9. VideoExMark + 1 \in Byte
  BY DEF VideoExMark, Byte
<1>10. Carries(m, TypeVideo, VideoExMark + 1, m.dts, rest)
  BY <1>1, <1>3, <1>6, <1>7, <1>8, <1>9, Zenon DEF Carries
<1> QED
  BY <1>10 DEF bytes

\* What a Reader makes of a part of a body, by CutShort.
Lacking(part, r, m) ==
  \/ part = Refused
  \/ part = EmptyAudio(r.from, r.dts) /\ r.body = <<>>
  \/ /\ Shortened(part, AsRead(m))
     /\ "wrapped" \in DOMAIN part => Shortened(part.wrapped, m.wrapped)

\* A message that arrives as it was, or, cut anywhere, without its end.
Delivered(m) ==
  LET r == MarshalMessage(m)
  IN /\ r \in RawMessages
     /\ UnmarshalMessage(r) = AsRead(m)
     /\ \A n \in 0..(Len(r.body) - 1) :
          LET cut == [r EXCEPT !.body = SubSeq(r.body, 1, n)]
          IN Lacking(UnmarshalMessage(cut), cut, m)

LEMMA DeliveredIf ==
  ASSUME NEW m, NEW from \in Address, NEW type \in Byte, NEW dts \in Time, NEW body \in Seq(Byte),
         MarshalMessage(m) = Raw(from, type, dts, body),
         UnmarshalMessage(Raw(from, type, dts, body)) = AsRead(m),
         \A n \in 0..(Len(body) - 1) :
           LET cut == Raw(from, type, dts, SubSeq(body, 1, n)) IN Lacking(UnmarshalMessage(cut), cut, m)
  PROVE  Delivered(m)
<1> DEFINE r == Raw(from, type, dts, body)
<1>1. r \in RawMessages /\ r.body = body /\ \A b : [r EXCEPT !.body = b] = Raw(from, type, dts, b)
  BY RawParts
<1>2. MarshalMessage(m) = r /\ UnmarshalMessage(r) = AsRead(m)
  OBVIOUS
<1> HIDE DEF r
<1>3. ASSUME NEW n \in 0..(Len(r.body) - 1)
      PROVE  LET cut == [r EXCEPT !.body = SubSeq(r.body, 1, n)]
             IN Lacking(UnmarshalMessage(cut), cut, m)
  <2>1. n \in 0..(Len(body) - 1)
    BY <1>1, <1>3
  <2>2. [r EXCEPT !.body = SubSeq(r.body, 1, n)] = Raw(from, type, dts, SubSeq(body, 1, n))
    BY <1>1, Zenon
  <2> QED
    BY <2>1, <2>2, Zenon
<1> QED
  BY <1>1, <1>2, <1>3, Zenon DEF Delivered

\* Nothing is left of the body.
LEMMA ReadNothing ==
  ASSUME NEW from, NEW dts
  PROVE  /\ UnmarshalMessage(Raw(from, TypeAudio, dts, <<>>)) = EmptyAudio(from, dts)
         /\ UnmarshalMessage(Raw(from, TypeVideo, dts, <<>>)) = Refused
<1>1. UnmarshalMessage(Raw(from, TypeAudio, dts, <<>>)) = EmptyAudio(from, dts)
  <2> DEFINE r == Raw(from, TypeAudio, dts, <<>>)
  <2>1. r.type = TypeAudio /\ r.body = <<>> /\ r.from = from /\ r.dts = dts
    BY RawParts
  <2> HIDE DEF r
  <2>2. UnmarshalMessage(r) = AllocateAudio(r)
    BY <2>1, UnmarshalledBy, Zenon
  <2>3. AllocateAudio(r) = UnmarshalAudio(r)
    BY <2>1, Zenon DEF AllocateAudio
  <2>4. UnmarshalAudio(r) = EmptyAudio(from, dts)
    <3>1. Len(r.body) # 1 /\ ~(Len(r.body) > 1)
      BY <2>1
    <3> QED
      BY <2>1, <3>1, Zenon DEF UnmarshalAudio
  <2> QED
    BY <2>2, <2>3, <2>4, Zenon DEF r
<1>2. UnmarshalMessage(Raw(from, TypeVideo, dts, <<>>)) = Refused
  <2> DEFINE r == Raw(from, TypeVideo, dts, <<>>)
  <2>1. r.type = TypeVideo /\ r.body = <<>>
    BY RawParts
  <2> HIDE DEF r
  <2>2. UnmarshalMessage(r) = AllocateVideo(r)
    BY <2>1, UnmarshalledBy, Zenon
  <2>3. AllocateVideo(r) = Refused
    BY <2>1, Zenon DEF AllocateVideo
  <2> QED
    BY <2>2, <2>3, Zenon DEF r
<1> QED
  BY <1>1, <1>2

LEMMA DeliverEx ==
  ASSUME NEW m, NEW type \in {TypeAudio, TypeVideo}, NEW mark \in Byte, NEW dts \in Time, NEW rest \in Seq(Byte),
         m.from \in Address, m.fourCC \in Word, AsRead(m) = m, "wrapped" \notin DOMAIN m,
         MarshalMessage(m) = Raw(m.from, type, dts, Ex(mark, m.fourCC, rest)),
         UnmarshalMessage(Raw(m.from, type, dts, Ex(mark, m.fourCC, rest))) = m,
         \A n \in 0..Len(rest) :
           LET part == UnmarshalMessage(Raw(m.from, type, dts, Ex(mark, m.fourCC, SubSeq(rest, 1, n))))
           IN part = Refused \/ Shortened(part, m),
         \A body \in Seq(Byte) : body # <<>> /\ body[1] = mark /\ Len(body) < 5 =>
           UnmarshalMessage(Raw(m.from, type, dts, body)) = Refused
  PROVE  Delivered(m)
<1> DEFINE body == Ex(mark, m.fourCC, rest)
           len == Len(rest)
<1>1. body \in Seq(Byte) /\ Len(body) = 5 + len /\ body[1] = mark
  BY ExParts
<1>2. len \in Nat
  BY LenProperties
<1>3. type \in Byte
  BY DEF TypeAudio, TypeVideo, Byte
<1>4. ASSUME NEW n \in 0..(Len(body) - 1)
      PROVE  LET cut == Raw(m.from, type, dts, SubSeq(body, 1, n))
             IN Lacking(UnmarshalMessage(cut), cut, m)
  <2> DEFINE b == SubSeq(body, 1, n)
             cut == Raw(m.from, type, dts, b)
  <2>1. /\ b \in Seq(Byte) /\ Len(b) = n /\ n \in Nat /\ n < 5 + len
        /\ \A i \in 1..n : b[i] = body[i]
    <3>1. n \in 0..Len(body)
      BY <1>1, <1>2
    <3> QED
      BY <1>1, <1>2, <3>1, Take
  <2>2. cut.body = b /\ cut.from = m.from /\ cut.dts = dts
    BY DEF Raw
  <2>3. CASE n = 0
    <3>1. b = <<>>
      BY <2>1, <2>3, WhenEmpty
    <3>2. UnmarshalMessage(cut) \in {EmptyAudio(m.from, dts), Refused}
      BY <3>1, ReadNothing, Zenon
    <3> QED
      BY <2>2, <3>1, <3>2, Zenon DEF Lacking
  <2>4. CASE 1 <= n /\ n < 5
    <3>1. b # <<>> /\ b[1] = mark /\ Len(b) < 5
      <4>1. b # <<>>
        BY <2>1, <2>4, WhenEmpty
      <4>2. b[1] = body[1]
        BY <2>1, <2>4
      <4> QED
        BY <1>1, <2>1, <2>4, <4>1, <4>2
    <3>2. UnmarshalMessage(cut) = Refused
      BY <2>1, <3>1, Zenon
    <3> QED
      BY <3>2, Zenon DEF Lacking
  <2>5. CASE 5 <= n
    <3> DEFINE k == n - 5
               part == UnmarshalMessage(cut)
    <3>1. k \in 0..Len(rest) /\ n <= 5 + Len(rest)
      BY <1>2, <2>1, <2>5
    <3>2. b = Ex(mark, m.fourCC, SubSeq(rest, 1, k))
      BY <2>1, <2>5, <3>1, ExCut
    <3> HIDE DEF b, k
    <3>3. part = Refused \/ Shortened(part, m)
      BY <3>1, <3>2, Zenon
    <3> HIDE DEF part
    <3>4. Shortened(part, m) => DOMAIN part = DOMAIN m
      BY Zenon DEF Shortened
    <3>5. Lacking(part, cut, m)
      BY <3>3, <3>4, Zenon DEF Lacking
    <3> QED
      BY <3>5 DEF part, b
  <2> QED
    BY <2>1, <2>3, <2>4, <2>5
<1> HIDE DEF body
<1>5. MarshalMessage(m) = Raw(m.from, type, dts, body) /\ UnmarshalMessage(Raw(m.from, type, dts, body)) = AsRead(m)
  BY DEF body
<1> QED
  BY <1>1, <1>3, <1>4, <1>5, DeliveredIf

LEMMA AudioExTypesAre ==
  /\ AudioExTypes[0] = "AudioExSequenceStart" /\ AudioExTypes[1] = "AudioExCodedFrames"
  /\ AudioExTypes[2] = "AudioExSequenceEnd" /\ AudioExTypes[4] = "AudioExMultichannelConfig"
BY DEF AudioExTypes

LEMMA VideoExTypesAre ==
  /\ VideoExTypes[0] = "VideoExSequenceStart" /\ VideoExTypes[1] = "VideoExCodedFrames"
  /\ VideoExTypes[2] = "VideoExSequenceEnd" /\ VideoExTypes[3] = "VideoExFramesX"
BY DEF VideoExTypes

LEMMA AudioExCarried ==
  ASSUME NEW m \in AudioExs
  PROVE  \E code \in {0, 1, 2, 4}, dts \in Time, rest \in Seq(Byte) :
           /\ Carries(m, TypeAudio, AudioExMark + code, dts, rest)
           /\ m.kind = AudioExTypes[code]
<1> DEFINE As(code, dts, rest) == Carries(m, TypeAudio, AudioExMark + code, dts, rest) /\ m.kind = AudioExTypes[code]
<1>1. \A code, dts, rest : As(code, dts, rest) => dts \in Time /\ rest \in Seq(Byte)
  BY Zenon DEF Carries
<1>2. CASE m \in AudioExSequenceStarts
  <2>1. AudioExMark + 0 = AudioExMark /\ m.kind = AudioExTypes[0]
    BY <1>2, AudioExTypesAre DEF AudioExMark, AudioExSequenceStarts
  <2>2. As(0, 0, m.config)
    BY <1>2, <2>1, CarryAudioExSequenceStart
  <2> QED
    BY <1>1, <2>2, Zenon
<1>3. CASE m \in AudioExCodedFrames
  <2>1. m.kind = AudioExTypes[1]
    BY <1>3, AudioExTypesAre DEF AudioExCodedFrames
  <2>2. As(1, m.dts, m.payload)
    BY <1>3, <2>1, CarryAudioExCodedFrames
  <2> QED
    BY <1>1, <2>2, Zenon
<1>4. CASE m \in AudioExSequenceEnds
  <2>1. m.kind = AudioExTypes[2]
    BY <1>4, AudioExTypesAre DEF AudioExSequenceEnds
  <2>2. As(2, 0, <<>>)
    BY <1>4, <2>1, CarryAudioExSequenceEnd, Zenon
  <2> QED
    BY <1>1, <2>2, Zenon
<1>5. CASE m \in AudioExMultichannelConfigs
  <2>1. m.kind = AudioExTypes[4]
    BY <1>5, AudioExTypesAre DEF AudioExMultichannelConfigs
  <2>2. \E rest : As(4, 0, rest)
    BY <1>5, <2>1, CarryAudioExMultichannelConfig, Zenon
  <2> QED
    BY <1>1, <2>2, Zenon
<1> QED
  BY <1>2, <1>3, <1>4, <1>5 DEF AudioExs

LEMMA VideoExCarried ==
  ASSUME NEW m \in VideoExs
  PROVE  \E code \in {0, 1, 2, 3}, dts \in Time, rest \in Seq(Byte) :
           /\ Carries(m, TypeVideo, VideoExMark + code, dts, rest)
           /\ m.kind = VideoExTypes[code]
<1> DEFINE As(code, dts, rest) == Carries(m, TypeVideo, VideoExMark + code, dts, rest) /\ m.kind = VideoExTypes[code]
<1>1. \A code, dts, rest : As(code, dts, rest) => dts \in Time /\ rest \in Seq(Byte)
  BY Zenon DEF Carries
<1>2. CASE m \in VideoExSequenceStarts
  <2>1. VideoExMark + 0 = VideoExMark /\ m.kind = VideoExTypes[0]
    BY <1>2, VideoExTypesAre DEF VideoExMark, VideoExSequenceStarts
  <2>2. As(0, 0, m.config)
    BY <1>2, <2>1, CarryVideoExSequenceStart
  <2> QED
    BY <1>1, <2>2, Zenon
<1>3. CASE m \in VideoExCodedFrames
  <2>1. m.kind = VideoExTypes[1]
    BY <1>3, VideoExTypesAre DEF VideoExCodedFrames
  <2>2. \E rest : As(1, m.dts, rest)
    BY <1>3, <2>1, CarryVideoExCodedFrames, Zenon
  <2> QED
    BY <1>1, <2>2, Zenon
<1>4. CASE m \in VideoExSequenceEnds
  <2>1. m.kind = VideoExTypes[2]
    BY <1>4, VideoExTypesAre DEF VideoExSequenceEnds
  <2>2. As(2, 0, <<>>)
    BY <1>4, <2>1, CarryVideoExSequenceEnd, Zenon
  <2> QED
    BY <1>1, <2>2, Zenon
<1>5. CASE m \in VideoExFramesX
  <2>1. m.kind = VideoExTypes[3]
    BY <1>5, VideoExTypesAre DEF VideoExFramesX
  <2>2. As(3, m.dts, m.payload)
    BY <1>5, <2>1, CarryVideoExFramesX
  <2> QED
    BY <1>1, <2>2, Zenon
<1> QED
  BY <1>2, <1>3, <1>4, <1>5 DEF VideoExs

\* Which kind a mark says.
LEMMA AudioExRead ==
  ASSUME NEW r, r.type = TypeAudio, r.body # <<>>, NEW code \in {0, 1, 2, 4}, r.body[1] = AudioExMark + code
  PROVE  UnmarshalMessage(r) = UnmarshalEx(AudioExTypes[code], r)
<1> DEFINE mark == r.body[1]
<1>1. mark \div 16 = 9 /\ mark % 16 = code
  BY SMT DEF AudioExMark
<1>2. UnmarshalMessage(r) = AllocateAudio(r)
  BY UnmarshalledBy, Zenon
<1>3. AllocateAudio(r) = CASE code = 0 -> UnmarshalAudioExSequenceStart(r)
                           [] code = 1 -> UnmarshalAudioExCodedFrames(r)
                           [] code = 2 -> UnmarshalAudioExSequenceEnd(r)
                           [] code = 4 -> UnmarshalAudioExMultichannelConfig(r)
                           [] code = 5 -> UnmarshalAudioExMultitrack(r)
                           [] OTHER -> Refused
  BY <1>1, Zenon DEF AllocateAudio
<1>4. CASE code = 0
  <2>1. AllocateAudio(r) = UnmarshalAudioExSequenceStart(r)
    BY <1>3, <1>4
  <2> QED
    BY <1>2, <1>4, <2>1, AudioExTypesAre, UnmarshalledEx, Zenon
<1>5. CASE code = 1
  <2>1. AllocateAudio(r) = UnmarshalAudioExCodedFrames(r)
    BY <1>3, <1>5
  <2> QED
    BY <1>2, <1>5, <2>1, AudioExTypesAre, UnmarshalledEx, Zenon
<1>6. CASE code = 2
  <2>1. AllocateAudio(r) = UnmarshalAudioExSequenceEnd(r)
    BY <1>3, <1>6
  <2> QED
    BY <1>2, <1>6, <2>1, AudioExTypesAre, UnmarshalledEx, Zenon
<1>7. CASE code = 4
  <2>1. AllocateAudio(r) = UnmarshalAudioExMultichannelConfig(r)
    BY <1>3, <1>7
  <2> QED
    BY <1>2, <1>7, <2>1, AudioExTypesAre, UnmarshalledEx, Zenon
<1> QED
  BY <1>4, <1>5, <1>6, <1>7

LEMMA VideoExRead ==
  ASSUME NEW r, r.type = TypeVideo, r.body # <<>>, NEW code \in {0, 1, 2, 3}, r.body[1] = VideoExMark + code
  PROVE  UnmarshalMessage(r) = UnmarshalEx(VideoExTypes[code], r)
<1> DEFINE mark == r.body[1]
<1>1. ~(mark < VideoExMark) /\ mark >= VideoExMark /\ mark % 16 = code
  BY SMT DEF VideoExMark
<1>2. UnmarshalMessage(r) = AllocateVideo(r)
  BY UnmarshalledBy, Zenon
<1>3. AllocateVideo(r) = CASE code = 0 -> UnmarshalVideoExSequenceStart(r)
                           [] code = 1 -> UnmarshalVideoExCodedFrames(r)
                           [] code = 2 -> UnmarshalVideoExSequenceEnd(r)
                           [] code = 3 -> UnmarshalVideoExFramesX(r)
                           [] code = 4 -> UnmarshalVideoExMetadata(r)
                           [] code = 6 -> UnmarshalVideoExMultitrack(r)
                           [] OTHER -> Refused
  BY <1>1, Zenon DEF AllocateVideo
<1>4. CASE code = 0
  <2>1. AllocateVideo(r) = UnmarshalVideoExSequenceStart(r)
    BY <1>3, <1>4
  <2> QED
    BY <1>2, <1>4, <2>1, VideoExTypesAre, UnmarshalledEx, Zenon
<1>5. CASE code = 1
  <2>1. AllocateVideo(r) = UnmarshalVideoExCodedFrames(r)
    BY <1>3, <1>5
  <2> QED
    BY <1>2, <1>5, <2>1, VideoExTypesAre, UnmarshalledEx, Zenon
<1>6. CASE code = 2
  <2>1. AllocateVideo(r) = UnmarshalVideoExSequenceEnd(r)
    BY <1>3, <1>6
  <2> QED
    BY <1>2, <1>6, <2>1, VideoExTypesAre, UnmarshalledEx, Zenon
<1>7. CASE code = 3
  <2>1. AllocateVideo(r) = UnmarshalVideoExFramesX(r)
    BY <1>3, <1>7
  <2> QED
    BY <1>2, <1>7, <2>1, VideoExTypesAre, UnmarshalledEx, Zenon
<1> QED
  BY <1>4, <1>5, <1>6, <1>7

LEMMA ExTooShort ==
  ASSUME NEW r, r.body \in Seq(Byte), Len(r.body) < 5
  PROVE  /\ \A code \in {0, 1, 2, 4} : UnmarshalEx(AudioExTypes[code], r) = Refused
         /\ \A code \in {0, 1, 2, 3} : UnmarshalEx(VideoExTypes[code], r) = Refused
         /\ UnmarshalVideoExMetadata(r) = Refused
<1> DEFINE len == Len(r.body)
<1>1. len \in Nat /\ len < 5
  BY LenProperties
<1> HIDE DEF len
<1>2. ~(len >= 5) /\ ~(len >= 6) /\ ~(len = 5) /\ len < 7 /\ ~(len >= 9)
  BY <1>1
<1>3. /\ UnmarshalAudioExSequenceStart(r) = Refused /\ UnmarshalAudioExCodedFrames(r) = Refused
      /\ UnmarshalAudioExSequenceEnd(r) = Refused
  BY <1>2, Zenon DEF len, UnmarshalAudioExSequenceStart, UnmarshalAudioExCodedFrames,
     UnmarshalAudioExSequenceEnd, Provided
<1>4. UnmarshalAudioExMultichannelConfig(r) = Refused
  BY <1>2, Zenon DEF len, UnmarshalAudioExMultichannelConfig
<1>5. /\ UnmarshalVideoExSequenceStart(r) = Refused /\ UnmarshalVideoExFramesX(r) = Refused
      /\ UnmarshalVideoExSequenceEnd(r) = Refused
  BY <1>2, Zenon DEF len, UnmarshalVideoExSequenceStart, UnmarshalVideoExFramesX,
     UnmarshalVideoExSequenceEnd, Provided
<1>6. UnmarshalVideoExCodedFrames(r) = Refused
  BY <1>2, Zenon DEF len, UnmarshalVideoExCodedFrames
<1>7. UnmarshalVideoExMetadata(r) = Refused
  BY <1>2, Zenon DEF len, UnmarshalVideoExMetadata, Provided
<1> QED
  BY <1>3, <1>4, <1>5, <1>6, <1>7, AudioExTypesAre, VideoExTypesAre, UnmarshalledEx, Zenon

LEMMA ExPlain ==
  ASSUME NEW m \in AudioExs \cup VideoExs
  PROVE  "wrapped" \notin DOMAIN m /\ AsRead(m) = m /\ MarshalMessage(m) = MarshalWrapped(m) /\ m # Refused
<1>1. "wrapped" \notin DOMAIN m
  <2>1. CASE m \in AudioExs
    BY <2>1 DEF AudioExs, AudioExSequenceStarts, AudioExCodedFrames, AudioExSequenceEnds, AudioExMultichannelConfigs
  <2>2. CASE m \in VideoExs
    BY <2>2 DEF VideoExs, VideoExSequenceStarts, VideoExCodedFrames, VideoExFramesX, VideoExSequenceEnds
  <2> QED
    BY <2>1, <2>2
<1>2. m.kind \in {"AudioExSequenceStart", "AudioExCodedFrames", "AudioExSequenceEnd",
                  "AudioExMultichannelConfig", "VideoExSequenceStart", "VideoExCodedFrames",
                  "VideoExFramesX", "VideoExSequenceEnd"}
  <2>1. CASE m \in AudioExs
    BY <2>1 DEF AudioExs, AudioExSequenceStarts, AudioExCodedFrames, AudioExSequenceEnds, AudioExMultichannelConfigs
  <2>2. CASE m \in VideoExs
    BY <2>2 DEF VideoExs, VideoExSequenceStarts, VideoExCodedFrames, VideoExFramesX, VideoExSequenceEnds
  <2> QED
    BY <2>1, <2>2
<1>3. m.kind # "Video" /\ m.kind # "refused"
  BY <1>2
<1>4. m # Refused
  BY <1>3 DEF Refused
<1> QED
  BY <1>1, <1>2, <1>3, <1>4, MarshalledBy, Steady, Zenon

LEMMA DeliverAudioEx ==
  ASSUME NEW m \in AudioExs
  PROVE  Delivered(m)
<1>1. PICK code \in {0, 1, 2, 4}, dts \in Time, rest \in Seq(Byte) :
        Carries(m, TypeAudio, AudioExMark + code, dts, rest) /\ m.kind = AudioExTypes[code]
  BY AudioExCarried
<1> DEFINE mark == AudioExMark + code
           R(body) == Raw(m.from, TypeAudio, dts, body)
<1>2. /\ m.from \in Address /\ m.fourCC \in Word /\ mark \in Byte
      /\ MarshalWrapped(m) = R(Ex(mark, m.fourCC, rest))
      /\ UnmarshalEx(m.kind, R(Ex(mark, m.fourCC, rest))) = m
      /\ \A n \in 0..Len(rest) :
           LET part == UnmarshalEx(m.kind, R(Ex(mark, m.fourCC, SubSeq(rest, 1, n))))
           IN part = Refused \/ Shortened(part, m)
  BY <1>1, Zenon DEF Carries
<1>3. ASSUME NEW body \in Seq(Byte), body # <<>>, body[1] = mark
      PROVE  UnmarshalMessage(R(body)) = UnmarshalEx(m.kind, R(body))
  <2>1. R(body).type = TypeAudio /\ R(body).body = body
    BY DEF Raw
  <2> HIDE DEF R
  <2> QED
    BY <1>1, <1>3, <2>1, AudioExRead
<1>4. ASSUME NEW tail \in Seq(Byte)
      PROVE  UnmarshalMessage(R(Ex(mark, m.fourCC, tail))) = UnmarshalEx(m.kind, R(Ex(mark, m.fourCC, tail)))
  <2>1. Ex(mark, m.fourCC, tail) \in Seq(Byte) /\ Ex(mark, m.fourCC, tail) # <<>> /\ Ex(mark, m.fourCC, tail)[1] = mark
    BY <1>2, ExParts, Zenon
  <2> QED
    BY <1>3, <2>1, Zenon
<1>5. UnmarshalMessage(R(Ex(mark, m.fourCC, rest))) = m
  BY <1>2, <1>4, Zenon
<1>6. ASSUME NEW n \in 0..Len(rest)
      PROVE  LET part == UnmarshalMessage(R(Ex(mark, m.fourCC, SubSeq(rest, 1, n))))
             IN part = Refused \/ Shortened(part, m)
  <2>1. SubSeq(rest, 1, n) \in Seq(Byte)
    BY Take
  <2> QED
    BY <1>2, <1>4, <2>1, Zenon
<1>7. ASSUME NEW body \in Seq(Byte), body # <<>>, body[1] = mark, Len(body) < 5
      PROVE  UnmarshalMessage(R(body)) = Refused
  <2>1. R(body).body = body
    BY DEF Raw
  <2>2. UnmarshalMessage(R(body)) = UnmarshalEx(m.kind, R(body))
    BY <1>3, <1>7, Zenon
  <2> HIDE DEF R
  <2> QED
    BY <1>1, <1>7, <2>1, <2>2, ExTooShort, Zenon
<1>8. "wrapped" \notin DOMAIN m /\ AsRead(m) = m /\ MarshalMessage(m) = R(Ex(mark, m.fourCC, rest))
  BY <1>2, ExPlain, Zenon
<1> HIDE DEF mark
<1> QED
  BY <1>2, <1>5, <1>6, <1>7, <1>8, DeliverEx

LEMMA DeliverVideoEx ==
  ASSUME NEW m \in VideoExs
  PROVE  Delivered(m)
<1>1. PICK code \in {0, 1, 2, 3}, dts \in Time, rest \in Seq(Byte) :
        Carries(m, TypeVideo, VideoExMark + code, dts, rest) /\ m.kind = VideoExTypes[code]
  BY VideoExCarried
<1> DEFINE mark == VideoExMark + code
           R(body) == Raw(m.from, TypeVideo, dts, body)
<1>2. /\ m.from \in Address /\ m.fourCC \in Word /\ mark \in Byte
      /\ MarshalWrapped(m) = R(Ex(mark, m.fourCC, rest))
      /\ UnmarshalEx(m.kind, R(Ex(mark, m.fourCC, rest))) = m
      /\ \A n \in 0..Len(rest) :
           LET part == UnmarshalEx(m.kind, R(Ex(mark, m.fourCC, SubSeq(rest, 1, n))))
           IN part = Refused \/ Shortened(part, m)
  BY <1>1, Zenon DEF Carries
<1>3. ASSUME NEW body \in Seq(Byte), body # <<>>, body[1] = mark
      PROVE  UnmarshalMessage(R(body)) = UnmarshalEx(m.kind, R(body))
  <2>1. R(body).type = TypeVideo /\ R(body).body = body
    BY DEF Raw
  <2> HIDE DEF R
  <2> QED
    BY <1>1, <1>3, <2>1, VideoExRead
<1>4. ASSUME NEW tail \in Seq(Byte)
      PROVE  UnmarshalMessage(R(Ex(mark, m.fourCC, tail))) = UnmarshalEx(m.kind, R(Ex(mark, m.fourCC, tail)))
  <2>1. Ex(mark, m.fourCC, tail) \in Seq(Byte) /\ Ex(mark, m.fourCC, tail) # <<>> /\ Ex(mark, m.fourCC, tail)[1] = mark
    BY <1>2, ExParts, Zenon
  <2> QED
    BY <1>3, <2>1, Zenon
<1>5. UnmarshalMessage(R(Ex(mark, m.fourCC, rest))) = m
  BY <1>2, <1>4, Zenon
<1>6. ASSUME NEW n \in 0..Len(rest)
      PROVE  LET part == UnmarshalMessage(R(Ex(mark, m.fourCC, SubSeq(rest, 1, n))))
             IN part = Refused \/ Shortened(part, m)
  <2>1. SubSeq(rest, 1, n) \in Seq(Byte)
    BY Take
  <2> QED
    BY <1>2, <1>4, <2>1, Zenon
<1>7. ASSUME NEW body \in Seq(Byte), body # <<>>, body[1] = mark, Len(body) < 5
      PROVE  UnmarshalMessage(R(body)) = Refused
  <2>1. R(body).body = body
    BY DEF Raw
  <2>2. UnmarshalMessage(R(body)) = UnmarshalEx(m.kind, R(body))
    BY <1>3, <1>7, Zenon
  <2> HIDE DEF R
  <2> QED
    BY <1>1, <1>7, <2>1, <2>2, ExTooShort, Zenon
<1>8. "wrapped" \notin DOMAIN m /\ AsRead(m) = m /\ MarshalMessage(m) = R(Ex(mark, m.fourCC, rest))
  BY <1>2, ExPlain, Zenon
<1> HIDE DEF mark
<1> QED
  BY <1>2, <1>5, <1>6, <1>7, <1>8, DeliverEx

\* Without bytes there are no values.
LEMMA AmfNothing ==
  ASSUME AmfFaithful, NEW data \in Seq(Amf0Data)
  PROVE  /\ MarshalAmf0(data) = <<>> <=> data = <<>>
         /\ MarshalAmf0(data) \in Seq(Byte)
         /\ UnmarshalAmf0(MarshalAmf0(data)) = Got(data, <<>>)
<1>1. ASSUME NEW values \in Seq(Amf0Data)
      PROVE  MarshalAmf0(values) \in Seq(Byte) /\ UnmarshalAmf0(MarshalAmf0(values)) = Got(values, <<>>)
  BY AmfValues, Zenon
<1>2. \A a, b : Got(a, <<>>) = Got(b, <<>>) => a = b
  <2>1. \A a : Got(a, <<>>).item = a
    BY DEF Got
  <2>2. ASSUME NEW a, NEW b, Got(a, <<>>) = Got(b, <<>>)
        PROVE  a = b
    <3>1. Got(a, <<>>).item = a /\ Got(b, <<>>).item = b
      BY <2>1
    <3> QED
      BY <2>2, <3>1, Zenon
  <2> QED
    BY <2>2, Zenon
<1>3. \A values : Got(values, <<>>) # Bad
  <2>1. \A values : Got(values, <<>>).ok /\ ~Bad.ok
    BY DEF Got, Bad
  <2> QED
    BY <2>1, Zenon
<1>4. <<>> \in Seq(Amf0Data)
  BY EmptySeq
<1> DEFINE empty == MarshalAmf0(<<>>)
<1>5. empty = <<>>
  <2>1. empty \in Seq(Byte) /\ UnmarshalAmf0(empty) = Got(<<>>, <<>>)
    BY <1>1, <1>4, Zenon
  <2> HIDE DEF empty
  <2>2. \/ UnmarshalAmf0(empty) = Bad
        \/ \E values \in Seq(Amf0Data) :
             UnmarshalAmf0(empty) = Got(values, <<>>) /\ (empty # <<>> => values # <<>>)
    BY <2>1, AmfBody, Zenon
  <2> QED
    BY <1>2, <1>3, <2>1, <2>2, Zenon
<1>6. MarshalAmf0(data) = <<>> => data = <<>>
  BY <1>1, <1>2, <1>4, <1>5, Zenon
<1> QED
  BY <1>1, <1>5, <1>6, Zenon

LEMMA AmfPart ==
  ASSUME AmfFaithful, NEW data \in Seq(Amf0Data), NEW n \in 0..Len(MarshalAmf0(data))
  PROVE  LET part == UnmarshalAmf0(SubSeq(MarshalAmf0(data), 1, n))
         IN \/ ~part.ok
            \/ \E front \in Seq(Amf0Data) : part.ok /\ part.item = front /\ IsPrefix(front, data)
<1> DEFINE part == UnmarshalAmf0(SubSeq(MarshalAmf0(data), 1, n))
<1>1. part = Bad \/ \E front \in Seq(Amf0Data) : part = Got(front, <<>>) /\ IsPrefix(front, data)
  BY AmfCut, Zenon
<1> HIDE DEF part
<1>2. \A front : Got(front, <<>>).ok /\ Got(front, <<>>).item = front
  BY DEF Got
<1>3. ~Bad.ok
  BY DEF Bad
<1>4. \/ ~part.ok
      \/ \E front \in Seq(Amf0Data) : part.ok /\ part.item = front /\ IsPrefix(front, data)
  BY <1>1, <1>2, <1>3, Zenon
<1> QED
  BY <1>4 DEF part

LEMMA DeliverVideoExMetadata ==
  ASSUME AmfFaithful, NEW m \in VideoExMetadatas
  PROVE  Delivered(m)
<1> DEFINE mark == VideoExMark + 4
           rest == MarshalAmf0(m.data)
           R(body) == Raw(m.from, TypeVideo, m.dts, body)
<1>1. /\ m.kind = "VideoExMetadata" /\ m.from \in Address /\ m.dts \in Time
      /\ m.fourCC \in {FourCCAV1, FourCCVP9, FourCCHEVC} /\ m.data \in Seq(Amf0Data) /\ m.data # <<>>
      /\ m = [kind |-> "VideoExMetadata", from |-> m.from, dts |-> m.dts, fourCC |-> m.fourCC, data |-> m.data]
      /\ m = [x \in DOMAIN m |-> m[x]] /\ DOMAIN m = {"kind", "from", "dts", "fourCC", "data"}
  BY DEF VideoExMetadatas
<1>2. m.fourCC \in Word /\ mark \in Byte
  BY <1>1, FourCCs DEF VideoFourCCs, VideoExMark, Byte
<1>3. rest \in Seq(Byte) /\ rest # <<>> /\ UnmarshalAmf0(rest) = Got(m.data, <<>>)
  BY <1>1, AmfNothing, Zenon
<1>4. MarshalMessage(m) = R(Ex(mark, m.fourCC, rest))
  <2>1. KeyOf(VideoExTypes, m.kind) = 4
    BY <1>1, Keys, Zenon
  <2> QED
    BY <1>1, <2>1, MarshalledBy, Zenon DEF MarshalVideoExMetadata, VideoExBody, Ex
<1>5. ASSUME NEW body \in Seq(Byte), body # <<>>, body[1] = mark
      PROVE  UnmarshalMessage(R(body)) = UnmarshalVideoExMetadata(R(body))
  <2> DEFINE r == R(body)
  <2>1. r.type = TypeVideo /\ r.body = body
    BY DEF Raw
  <2> HIDE DEF r
  <2>2. ~(mark < VideoExMark) /\ mark >= VideoExMark /\ mark % 16 = 4
    BY SMT DEF VideoExMark
  <2>3. UnmarshalMessage(r) = AllocateVideo(r)
    BY <2>1, UnmarshalledBy, Zenon
  <2> HIDE DEF mark
  <2>4. AllocateVideo(r) = CASE 4 = 0 -> UnmarshalVideoExSequenceStart(r)
                             [] 4 = 1 -> UnmarshalVideoExCodedFrames(r)
                             [] 4 = 2 -> UnmarshalVideoExSequenceEnd(r)
                             [] 4 = 3 -> UnmarshalVideoExFramesX(r)
                             [] 4 = 4 -> UnmarshalVideoExMetadata(r)
                             [] 4 = 6 -> UnmarshalVideoExMultitrack(r)
                             [] OTHER -> Refused
    BY <1>5, <2>1, <2>2, Zenon DEF AllocateVideo
  <2>5. AllocateVideo(r) = UnmarshalVideoExMetadata(r)
    BY <2>4
  <2> QED
    BY <2>3, <2>5, Zenon DEF r
<1>6. ASSUME NEW tail \in Seq(Byte)
      PROVE  UnmarshalMessage(R(Ex(mark, m.fourCC, tail))) =
               IF tail # <<>> /\ UnmarshalAmf0(tail).ok THEN [m EXCEPT !.data = UnmarshalAmf0(tail).item] ELSE Refused
  <2> DEFINE r == R(Ex(mark, m.fourCC, tail))
             payload == UnmarshalAmf0(tail)
  <2>1. /\ r.from = m.from /\ r.dts = m.dts /\ r.type = TypeVideo /\ r.body = Ex(mark, m.fourCC, tail)
        /\ (Len(r.body) >= 6 <=> tail # <<>>) /\ FourCCIn(r) = m.fourCC /\ RestOf(r) = tail
        /\ r.body \in Seq(Byte) /\ r.body # <<>> /\ r.body[1] = mark
    <3>1. r.body = Ex(mark, m.fourCC, tail)
      BY DEF Raw
    <3> HIDE DEF mark
    <3> QED
      BY <1>2, <3>1, ExFields
  <2>2. UnmarshalMessage(r) = UnmarshalVideoExMetadata(r)
    BY <1>5, <2>1, Zenon
  <2> HIDE DEF r
  <2>3. UnmarshalVideoExMetadata(r) =
          IF tail # <<>> /\ payload.ok
          THEN [kind |-> "VideoExMetadata", from |-> m.from, dts |-> m.dts, fourCC |-> m.fourCC, data |-> payload.item]
          ELSE Refused
    BY <1>1, <2>1, Zenon DEF UnmarshalVideoExMetadata, Provided
  <2>4. \A data : [kind |-> "VideoExMetadata", from |-> m.from, dts |-> m.dts, fourCC |-> m.fourCC, data |-> data]
          = [m EXCEPT !.data = data]
    BY <1>1
  <2> QED
    BY <2>2, <2>3, <2>4, Zenon DEF r
<1>7. UnmarshalMessage(R(Ex(mark, m.fourCC, rest))) = m
  <2>1. UnmarshalAmf0(rest).ok /\ UnmarshalAmf0(rest).item = m.data
    BY <1>3 DEF Got
  <2>2. [m EXCEPT !.data = m.data] = m
    BY <1>1
  <2> HIDE DEF rest, mark, R
  <2> QED
    BY <1>3, <1>6, <2>1, <2>2, Zenon
<1>8. ASSUME NEW n \in 0..Len(rest)
      PROVE  LET part == UnmarshalMessage(R(Ex(mark, m.fourCC, SubSeq(rest, 1, n))))
             IN part = Refused \/ Shortened(part, m)
  <2> DEFINE tail == SubSeq(rest, 1, n)
             payload == UnmarshalAmf0(tail)
  <2>1. tail \in Seq(Byte)
    BY <1>3, Take
  <2>2. \/ ~payload.ok
        \/ \E front \in Seq(Amf0Data) : payload.ok /\ payload.item = front /\ IsPrefix(front, m.data)
    BY <1>1, AmfPart
  <2> HIDE DEF tail, payload, R, mark
  <2>3. UnmarshalMessage(R(Ex(mark, m.fourCC, tail))) =
          IF tail # <<>> /\ payload.ok THEN [m EXCEPT !.data = payload.item] ELSE Refused
    BY <1>6, <2>1 DEF payload
  <2>4. ASSUME NEW front, IsPrefix(front, m.data)
        PROVE  Shortened([m EXCEPT !.data = front], m)
    <3>1. "data" \in DOMAIN m \cap Tails /\ \A x \in DOMAIN m \cap Tails : x = "data"
      BY <1>1 DEF Tails
    <3> QED
      BY <1>1, <2>4, <3>1, ShortenedTail
  <2>5. \/ UnmarshalMessage(R(Ex(mark, m.fourCC, tail))) = Refused
        \/ Shortened(UnmarshalMessage(R(Ex(mark, m.fourCC, tail))), m)
    BY <2>2, <2>3, <2>4, Zenon
  <2> QED
    BY <2>5, Zenon DEF tail
<1>9. ASSUME NEW body \in Seq(Byte), body # <<>>, body[1] = mark, Len(body) < 5
      PROVE  UnmarshalMessage(R(body)) = Refused
  <2>1. R(body).body = body
    BY DEF Raw
  <2>2. UnmarshalMessage(R(body)) = UnmarshalVideoExMetadata(R(body))
    BY <1>5, <1>9, Zenon
  <2> HIDE DEF R
  <2> QED
    BY <1>9, <2>1, <2>2, ExTooShort, Zenon
<1>10. AsRead(m) = m /\ "wrapped" \notin DOMAIN m
  <2>1. m.kind # "Video" /\ "wrapped" \notin DOMAIN m
    BY <1>1
  <2> QED
    BY <2>1, Steady
<1>11. m.from \in Address /\ m.dts \in Time /\ rest \in Seq(Byte) /\ TypeVideo \in {TypeAudio, TypeVideo}
  BY <1>1, <1>3
<1> HIDE DEF mark, rest
<1> QED
  BY <1>2, <1>11, <1>4, <1>7, <1>8, <1>9, <1>10, DeliverEx

\* A body of a multitrack message.
Tracked(mark, code, fourCC, track, rest) == <<mark, code>> \o fourCC \o <<track>> \o rest

TrackFields(mark, code, fourCC, track, rest) ==
  mark \in Byte /\ code \in 0..15 /\ fourCC \in Word /\ track \in Byte /\ rest \in Seq(Byte)

LEMMA TrackedParts ==
  ASSUME NEW mark, NEW code, NEW fourCC, NEW track, NEW rest, TrackFields(mark, code, fourCC, track, rest)
  PROVE  LET body == Tracked(mark, code, fourCC, track, rest)
         IN /\ body \in Seq(Byte) /\ Len(body) = 7 + Len(rest)
            /\ body[1] = mark /\ body[2] = code /\ body[7] = track
            /\ SubSeq(body, 3, 6) = fourCC
            /\ Drop(body, 7) = rest
            /\ \A n \in 7..(7 + Len(rest)) :
                 SubSeq(body, 1, n) = Tracked(mark, code, fourCC, track, SubSeq(rest, 1, n - 7))
<1> DEFINE head == <<mark, code>>
           middle == head \o fourCC
           last == <<track>>
           front == middle \o last
           body == front \o rest
<1>0. mark \in Byte /\ code \in Byte /\ fourCC \in Word /\ track \in Byte /\ rest \in Seq(Byte)
  BY DEF TrackFields, Byte
<1>1. head \in Seq(Byte) /\ Len(head) = 2 /\ head[1] = mark /\ head[2] = code
  BY <1>0
<1>2. last \in Seq(Byte) /\ Len(last) = 1 /\ last[1] = track
  BY <1>0
<1>3. fourCC \in Seq(Byte) /\ Len(fourCC) = 4 /\ rest \in Seq(Byte)
  BY <1>0 DEF Word
<1> HIDE DEF head, last
<1>4. /\ middle \in Seq(Byte) /\ Len(middle) = 6 /\ middle[1] = mark /\ middle[2] = code
      /\ \A i \in 3..6 : middle[i] = fourCC[i - 2]
  <2>1. /\ middle \in Seq(Byte) /\ Len(middle) = Len(head) + Len(fourCC)
        /\ \A i \in 1..Len(head) : middle[i] = head[i]
        /\ \A i \in (Len(head) + 1)..(Len(head) + Len(fourCC)) : middle[i] = fourCC[i - Len(head)]
    BY <1>1, <1>3, Joined
  <2> HIDE DEF middle
  <2> QED
    BY <1>1, <1>3, <2>1
<1> HIDE DEF middle
<1>5. /\ front \in Seq(Byte) /\ Len(front) = 7 /\ front[7] = track
      /\ \A i \in 1..6 : front[i] = middle[i]
  <2>1. /\ front \in Seq(Byte) /\ Len(front) = Len(middle) + Len(last)
        /\ \A i \in 1..Len(middle) : front[i] = middle[i]
        /\ \A i \in (Len(middle) + 1)..(Len(middle) + Len(last)) : front[i] = last[i - Len(middle)]
    BY <1>2, <1>4, Joined
  <2> HIDE DEF front
  <2> QED
    BY <1>2, <1>4, <2>1
<1> HIDE DEF front
<1>6. Len(rest) \in Nat
  BY <1>3, LenProperties
<1>7. /\ body \in Seq(Byte) /\ Len(body) = 7 + Len(rest) /\ Drop(body, 7) = rest
      /\ \A i \in 1..7 : body[i] = front[i]
  <2>0. front \in Seq(Byte) /\ rest \in Seq(Byte)
    BY <1>3, <1>5
  <2>1. /\ body \in Seq(Byte) /\ Len(body) = Len(front) + Len(rest) /\ Drop(body, Len(front)) = rest
        /\ \A i \in 1..Len(front) : body[i] = front[i]
    BY <2>0, Joined
  <2> HIDE DEF body
  <2> QED
    BY <1>5, <2>1
<1>8. ASSUME NEW n \in 7..(7 + Len(rest))
      PROVE  SubSeq(body, 1, n) = front \o SubSeq(rest, 1, n - 7)
  <2>1. Len(front) <= n /\ n <= Len(front) + Len(rest) /\ n - Len(front) = n - 7 /\ n \in Nat
    BY <1>5, <1>6, <1>8
  <2>2. front \in Seq(Byte) /\ rest \in Seq(Byte)
    BY <1>3, <1>5
  <2> QED
    BY <2>1, <2>2, CutBehind
<1> HIDE DEF body
<1>9. SubSeq(body, 3, 6) = fourCC
  <2>1. SubSeq(body, 3, 6) \in Seq(Byte) /\ Len(SubSeq(body, 3, 6)) = 4
    BY <1>6, <1>7, SubSeqProperties
  <2>2. \A i \in 1..4 : SubSeq(body, 3, 6)[i] = body[i + 2]
    BY <1>6, <1>7, SubSeqProperties
  <2>3. \A i \in 1..4 : body[i + 2] = fourCC[i]
    BY <1>4, <1>5, <1>7
  <2>4. \A i \in 1..4 : SubSeq(body, 3, 6)[i] = fourCC[i]
    BY <2>2, <2>3
  <2> QED
    BY <1>3, <2>1, <2>4, SeqEqual
<1>10. body[1] = mark /\ body[2] = code /\ body[7] = track
  BY <1>4, <1>5, <1>7
<1>11. body = Tracked(mark, code, fourCC, track, rest) /\ \A tail : front \o tail = Tracked(mark, code, fourCC, track, tail)
  BY Zenon DEF Tracked, body, front, middle, head, last
<1> QED
  BY <1>7, <1>8, <1>9, <1>10, <1>11, Zenon

LEMMA TrackedBody ==
  ASSUME NEW mark, NEW m, NEW head \in Byte, NEW fourCC \in Word, NEW rest \in Seq(Byte)
  PROVE  MultitrackBody(mark, m, Ex(head, fourCC, rest)) = Tracked(mark, head % 16, fourCC, m.trackID, rest)
<1> DEFINE body == Ex(head, fourCC, rest)
<1>1. body[1] = head /\ SubSeq(body, 2, 5) = fourCC /\ Drop(body, 5) = rest
  BY ExParts, Zenon
<1> HIDE DEF body
<1>2. MultitrackBody(mark, m, body) = Tracked(mark, head % 16, fourCC, m.trackID, rest)
  BY <1>1, Zenon DEF MultitrackBody, Tracked
<1> QED
  BY <1>2 DEF body

LEMMA Unwrapped ==
  ASSUME NEW from, NEW type, NEW dts, NEW mark, NEW code, NEW fourCC, NEW track, NEW rest,
         TrackFields(mark, code, fourCC, track, rest)
  PROVE  LET r == Raw(from, type, dts, Tracked(mark, code, fourCC, track, rest))
         IN /\ OneTrack(r) /\ r.body[7] = track
            /\ WrappedRaw(r) = Raw(from, type, dts, Ex(0, fourCC, rest))
<1> DEFINE body == Tracked(mark, code, fourCC, track, rest)
           r == Raw(from, type, dts, body)
<1>0. code \in 0..15 /\ rest \in Seq(Byte)
  BY DEF TrackFields
<1>1. /\ Len(body) = 7 + Len(rest) /\ body[2] = code /\ body[7] = track
      /\ SubSeq(body, 3, 6) = fourCC /\ Drop(body, 7) = rest
  BY TrackedParts
<1> HIDE DEF body
<1>2. r.body = body /\ \A b : [r EXCEPT !.body = b] = Raw(from, type, dts, b)
  BY RawParts
<1> HIDE DEF r
<1>3. Len(rest) \in Nat
  BY <1>0, LenProperties
<1>4. Len(body) >= 7 /\ code \div 16 = 0
  BY <1>0, <1>1, <1>3
<1>5. OneTrack(r)
  BY <1>1, <1>2, <1>4, Zenon DEF OneTrack
<1>6. WrappedRaw(r) = Raw(from, type, dts, Ex(0, fourCC, rest))
  BY <1>1, <1>2, Zenon DEF WrappedRaw, Ex
<1> QED
  BY <1>1, <1>2, <1>5, <1>6 DEF r, body

LEMMA AudioExMultitrackRead ==
  ASSUME NEW r, r.type = TypeAudio, r.body # <<>>, r.body[1] = AudioExMark + 5
  PROVE  /\ ~OneTrack(r) => UnmarshalMessage(r) = Refused
         /\ \A code \in {0, 1, 2, 4} :
              OneTrack(r) /\ r.body[2] = code =>
                UnmarshalMessage(r) = Multitrack("AudioExMultitrack", r, UnmarshalEx(AudioExTypes[code], WrappedRaw(r)))
<1> DEFINE mark == r.body[1]
           w == WrappedRaw(r)
<1>1. mark \div 16 = 9 /\ mark % 16 = 5
  BY SMT DEF AudioExMark
<1>2. UnmarshalMessage(r) = AllocateAudio(r)
  BY UnmarshalledBy, Zenon
<1>3. AllocateAudio(r) = CASE 5 = 0 -> UnmarshalAudioExSequenceStart(r)
                           [] 5 = 1 -> UnmarshalAudioExCodedFrames(r)
                           [] 5 = 2 -> UnmarshalAudioExSequenceEnd(r)
                           [] 5 = 4 -> UnmarshalAudioExMultichannelConfig(r)
                           [] 5 = 5 -> UnmarshalAudioExMultitrack(r)
                           [] OTHER -> Refused
  BY <1>1, Zenon DEF AllocateAudio
<1>4. UnmarshalMessage(r) = UnmarshalAudioExMultitrack(r)
  BY <1>2, <1>3
<1> HIDE DEF w
<1>5. ASSUME NEW code \in {0, 1, 2, 4}, OneTrack(r), r.body[2] = code
      PROVE  UnmarshalAudioExMultitrack(r) = Multitrack("AudioExMultitrack", r, UnmarshalEx(AudioExTypes[code], w))
  <2> DEFINE part == CASE code = 0 -> UnmarshalAudioExSequenceStart(w)
                       [] code = 1 -> UnmarshalAudioExCodedFrames(w)
                       [] code = 2 -> UnmarshalAudioExSequenceEnd(w)
                       [] code = 4 -> UnmarshalAudioExMultichannelConfig(w)
                       [] OTHER -> Refused
  <2>1. UnmarshalAudioExMultitrack(r) = Multitrack("AudioExMultitrack", r, part)
    BY <1>5, Zenon DEF UnmarshalAudioExMultitrack, w
  <2>2. part = UnmarshalEx(AudioExTypes[code], w)
    <3>1. CASE code = 0
      BY <3>1, AudioExTypesAre, UnmarshalledEx
    <3>2. CASE code = 1
      BY <3>2, AudioExTypesAre, UnmarshalledEx
    <3>3. CASE code = 2
      BY <3>3, AudioExTypesAre, UnmarshalledEx
    <3>4. CASE code = 4
      BY <3>4, AudioExTypesAre, UnmarshalledEx
    <3> QED
      BY <3>1, <3>2, <3>3, <3>4
  <2> QED
    BY <2>1, <2>2, Zenon
<1>6. ~OneTrack(r) => UnmarshalAudioExMultitrack(r) = Refused
  BY Zenon DEF UnmarshalAudioExMultitrack
<1> QED
  BY <1>4, <1>5, <1>6, Zenon DEF w

LEMMA VideoExMultitrackRead ==
  ASSUME NEW r, r.type = TypeVideo, r.body # <<>>, r.body[1] = VideoExMark + 6
  PROVE  /\ ~OneTrack(r) => UnmarshalMessage(r) = Refused
         /\ \A code \in {0, 1, 2, 3} :
              OneTrack(r) /\ r.body[2] = code =>
                UnmarshalMessage(r) = Multitrack("VideoExMultitrack", r, UnmarshalEx(VideoExTypes[code], WrappedRaw(r)))
<1> DEFINE mark == r.body[1]
           w == WrappedRaw(r)
<1>1. ~(mark < VideoExMark) /\ mark >= VideoExMark /\ mark % 16 = 6
  BY SMT DEF VideoExMark
<1>2. UnmarshalMessage(r) = AllocateVideo(r)
  BY UnmarshalledBy, Zenon
<1>3. AllocateVideo(r) = CASE 6 = 0 -> UnmarshalVideoExSequenceStart(r)
                           [] 6 = 1 -> UnmarshalVideoExCodedFrames(r)
                           [] 6 = 2 -> UnmarshalVideoExSequenceEnd(r)
                           [] 6 = 3 -> UnmarshalVideoExFramesX(r)
                           [] 6 = 4 -> UnmarshalVideoExMetadata(r)
                           [] 6 = 6 -> UnmarshalVideoExMultitrack(r)
                           [] OTHER -> Refused
  BY <1>1, Zenon DEF AllocateVideo
<1>4. UnmarshalMessage(r) = UnmarshalVideoExMultitrack(r)
  BY <1>2, <1>3
<1> HIDE DEF w
<1>5. ASSUME NEW code \in {0, 1, 2, 3}, OneTrack(r), r.body[2] = code
      PROVE  UnmarshalVideoExMultitrack(r) = Multitrack("VideoExMultitrack", r, UnmarshalEx(VideoExTypes[code], w))
  <2> DEFINE part == CASE code = 0 -> UnmarshalVideoExSequenceStart(w)
                       [] code = 1 -> UnmarshalVideoExCodedFrames(w)
                       [] code = 2 -> UnmarshalVideoExSequenceEnd(w)
                       [] code = 3 -> UnmarshalVideoExFramesX(w)
                       [] OTHER -> Refused
  <2>1. UnmarshalVideoExMultitrack(r) = Multitrack("VideoExMultitrack", r, part)
    BY <1>5, Zenon DEF UnmarshalVideoExMultitrack, w
  <2>2. part = UnmarshalEx(VideoExTypes[code], w)
    <3>1. CASE code = 0
      BY <3>1, VideoExTypesAre, UnmarshalledEx
    <3>2. CASE code = 1
      BY <3>2, VideoExTypesAre, UnmarshalledEx
    <3>3. CASE code = 2
      BY <3>3, VideoExTypesAre, UnmarshalledEx
    <3>4. CASE code = 3
      BY <3>4, VideoExTypesAre, UnmarshalledEx
    <3> QED
      BY <3>1, <3>2, <3>3, <3>4
  <2> QED
    BY <2>1, <2>2, Zenon
<1>6. ~OneTrack(r) => UnmarshalVideoExMultitrack(r) = Refused
  BY Zenon DEF UnmarshalVideoExMultitrack
<1> QED
  BY <1>4, <1>5, <1>6, Zenon DEF w

\* What is behind the mark of a multitrack message and a code is a message of its own.
ReadAsTrack(m, kind, type, mark, code, dts) ==
  \A body \in Seq(Byte) :
    LET r == Raw(m.wrapped.from, type, dts, body)
    IN body # <<>> /\ body[1] = mark =>
         /\ ~OneTrack(r) => UnmarshalMessage(r) = Refused
         /\ OneTrack(r) /\ body[2] = code =>
              UnmarshalMessage(r) = Multitrack(kind, r, UnmarshalEx(m.wrapped.kind, WrappedRaw(r)))

\* A message that is wrapped in another.
LEMMA DeliverMultitrack ==
  ASSUME NEW m, NEW type \in {TypeAudio, TypeVideo}, NEW head \in Byte, NEW mark \in Byte, NEW code \in 0..15,
         NEW dts \in Time, NEW rest \in Seq(Byte), NEW kind, kind # "Video",
         m = [kind |-> kind, trackID |-> m.trackID, wrapped |-> m.wrapped],
         m.trackID \in Byte, m.wrapped \in AudioExs \cup VideoExs,
         Carries(m.wrapped, type, head, dts, rest),
         MarshalMessage(m) =
           Raw(m.wrapped.from, type, dts, Tracked(mark, code, m.wrapped.fourCC, m.trackID, rest)),
         ReadAsTrack(m, kind, type, mark, code, dts)
  PROVE  Delivered(m)
<1> DEFINE w == m.wrapped
           B(tail) == Tracked(mark, code, w.fourCC, m.trackID, tail)
           body == B(rest)
           len == Len(rest)
           R(b) == Raw(w.from, type, dts, b)
<1>1. /\ w.from \in Address /\ w.fourCC \in Word
      /\ UnmarshalEx(w.kind, R(Ex(0, w.fourCC, rest))) = w
      /\ \A n \in 0..len :
           LET part == UnmarshalEx(w.kind, R(Ex(0, w.fourCC, SubSeq(rest, 1, n))))
           IN part = Refused \/ Shortened(part, w)
  <2>1. 0 \in Byte
    BY DEF Byte
  <2> QED
    BY <2>1, Zenon DEF Carries
<1>0. ASSUME NEW tail \in Seq(Byte)
      PROVE  TrackFields(mark, code, w.fourCC, m.trackID, tail)
  BY <1>1 DEF TrackFields
<1>2. code \in Byte /\ len \in Nat /\ type \in Byte
  BY LenProperties DEF Byte, TypeAudio, TypeVideo
<1>3. ASSUME NEW tail \in Seq(Byte)
      PROVE  /\ B(tail) \in Seq(Byte) /\ Len(B(tail)) = 7 + Len(tail) /\ B(tail) # <<>>
             /\ B(tail)[1] = mark /\ B(tail)[2] = code
  <2>1. /\ B(tail) \in Seq(Byte) /\ Len(B(tail)) = 7 + Len(tail)
        /\ B(tail)[1] = mark /\ B(tail)[2] = code
    BY <1>0, TrackedParts
  <2>2. Len(tail) \in Nat
    BY LenProperties
  <2> HIDE DEF B
  <2>3. Len(B(tail)) # 0
    BY <2>1, <2>2
  <2> QED
    BY <2>1, <2>3, WhenEmpty
<1>4. ASSUME NEW tail \in Seq(Byte)
      PROVE  UnmarshalMessage(R(B(tail))) =
               IF UnmarshalEx(w.kind, R(Ex(0, w.fourCC, tail))) = Refused THEN Refused
               ELSE [kind |-> kind, trackID |-> m.trackID, wrapped |-> UnmarshalEx(w.kind, R(Ex(0, w.fourCC, tail)))]
  <2> DEFINE r == R(B(tail))
  <2>1. OneTrack(r) /\ r.body[7] = m.trackID /\ WrappedRaw(r) = R(Ex(0, w.fourCC, tail))
    BY <1>0, Unwrapped
  <2>2. B(tail) \in Seq(Byte) /\ B(tail) # <<>> /\ B(tail)[1] = mark /\ B(tail)[2] = code
    BY <1>3
  <2> HIDE DEF B
  <2>3. UnmarshalMessage(r) = Multitrack(kind, r, UnmarshalEx(w.kind, WrappedRaw(r)))
    BY <2>1, <2>2, Zenon DEF ReadAsTrack
  <2> HIDE DEF r, R
  <2>4. UnmarshalMessage(r) = Multitrack(kind, r, UnmarshalEx(w.kind, R(Ex(0, w.fourCC, tail))))
    BY <2>1, <2>3, Zenon
  <2> QED
    BY <2>1, <2>4, Zenon DEF Multitrack, Provided, r
<1>5. AsRead(m) = m /\ DOMAIN m = {"kind", "trackID", "wrapped"} /\ m.kind = kind
  <2>1. m.kind = kind /\ DOMAIN m = {"kind", "trackID", "wrapped"}
    OBVIOUS
  <2> QED
    BY <2>1, Steady
<1>6. UnmarshalMessage(R(body)) = m
  <2>1. w # Refused
    BY ExPlain
  <2> HIDE DEF w, B, R
  <2>2. UnmarshalMessage(R(body)) = [kind |-> kind, trackID |-> m.trackID, wrapped |-> w]
    BY <1>1, <1>4, <2>1, Zenon
  <2> QED
    BY <2>2 DEF w
<1>7. ASSUME NEW tail \in Seq(Byte), NEW r,
             LET part == UnmarshalEx(w.kind, R(Ex(0, w.fourCC, tail))) IN part = Refused \/ Shortened(part, w)
      PROVE  Lacking(UnmarshalMessage(R(B(tail))), r, m)
  <2> DEFINE part == UnmarshalEx(w.kind, R(Ex(0, w.fourCC, tail)))
             whole == [kind |-> kind, trackID |-> m.trackID, wrapped |-> part]
  <2>1. CASE part = Refused
    <3>1. UnmarshalMessage(R(B(tail))) = Refused
      BY <1>4, <2>1, Zenon
    <3> QED
      BY <3>1, Zenon DEF Lacking
  <2>2. CASE part # Refused /\ Shortened(part, w)
    <3>1. UnmarshalMessage(R(B(tail))) = whole
      BY <1>4, <2>2, Zenon
    <3> HIDE DEF part
    <3>2. whole.wrapped = part
      OBVIOUS
    <3>3. Shortened(whole, m)
      <4>1. DOMAIN whole = DOMAIN m /\ whole.kind = m.kind /\ whole.trackID = m.trackID
        BY <1>5
      <4> HIDE DEF whole
      <4>2. \A x \in DOMAIN whole \ {"wrapped"} : x \notin Tails /\ whole[x] = m[x]
        BY <1>5, <4>1 DEF Tails
      <4> QED
        BY <4>1, <4>2, Zenon DEF Shortened
    <3> HIDE DEF whole
    <3>4. Lacking(whole, r, m)
      BY <1>5, <2>2, <3>2, <3>3, Zenon DEF Lacking
    <3> QED
      BY <3>1, <3>4, Zenon
  <2> QED
    BY <1>7, <2>1, <2>2, Zenon
<1>8. /\ body \in Seq(Byte) /\ Len(body) = 7 + len /\ body[1] = mark
      /\ \A n \in 7..(7 + len) : SubSeq(body, 1, n) = B(SubSeq(rest, 1, n - 7))
  <2>2. \A n \in 7..(7 + len) : SubSeq(body, 1, n) = B(SubSeq(rest, 1, n - 7))
    BY <1>0, TrackedParts
  <2> QED
    BY <1>3, <2>2, Zenon
<1>9. MarshalMessage(m) = R(body) /\ UnmarshalMessage(R(body)) = AsRead(m)
  BY <1>5, <1>6, Zenon
<1> HIDE DEF body, B
<1>10. ASSUME NEW n \in 0..(Len(body) - 1)
       PROVE  LET cut == R(SubSeq(body, 1, n)) IN Lacking(UnmarshalMessage(cut), cut, m)
  <2> DEFINE b == SubSeq(body, 1, n)
             cut == R(b)
  <2>1. /\ b \in Seq(Byte) /\ Len(b) = n /\ n \in Nat /\ n < 7 + len
        /\ \A i \in 1..n : b[i] = body[i]
    <3>1. n \in 0..Len(body)
      BY <1>2, <1>8
    <3> QED
      BY <1>2, <1>8, <3>1, Take
  <2>2. cut.body = b /\ cut.from = w.from /\ cut.dts = dts
    BY DEF Raw
  <2>3. CASE n = 0
    <3>1. b = <<>>
      BY <2>1, <2>3, WhenEmpty
    <3>2. UnmarshalMessage(cut) \in {EmptyAudio(w.from, dts), Refused}
      BY <3>1, ReadNothing, Zenon
    <3> QED
      BY <2>2, <3>1, <3>2, Zenon DEF Lacking
  <2>4. CASE 1 <= n /\ n < 7
    <3>1. b # <<>> /\ b[1] = mark /\ ~(Len(b) >= 7)
      <4>1. b # <<>>
        BY <2>1, <2>4, WhenEmpty
      <4>2. b[1] = body[1]
        BY <2>1, <2>4
      <4> QED
        BY <1>8, <2>1, <2>4, <4>1, <4>2
    <3>2. ~OneTrack(cut)
      BY <2>2, <3>1, Zenon DEF OneTrack
    <3>3. UnmarshalMessage(cut) = Refused
      BY <2>1, <3>1, <3>2, Zenon DEF ReadAsTrack
    <3> QED
      BY <3>3, Zenon DEF Lacking
  <2>5. CASE 7 <= n
    <3> DEFINE k == n - 7
    <3>1. k \in 0..len /\ n \in 7..(7 + len)
      BY <1>2, <2>1, <2>5
    <3>2. b = B(SubSeq(rest, 1, k))
      BY <1>8, <3>1, Zenon
    <3>3. SubSeq(rest, 1, k) \in Seq(Byte)
      BY <3>1, Take
    <3> HIDE DEF k
    <3>4. Lacking(UnmarshalMessage(R(B(SubSeq(rest, 1, k)))), cut, m)
      BY <1>1, <1>7, <3>1, <3>3, Zenon
    <3> QED
      BY <3>2, <3>4, Zenon
  <2> QED
    BY <2>1, <2>3, <2>4, <2>5
<1> HIDE DEF w
<1> QED
  BY <1>1, <1>2, <1>8, <1>9, <1>10, DeliveredIf

LEMMA DeliverAudioExMultitrack ==
  ASSUME NEW m \in AudioExMultitracks
  PROVE  Delivered(m)
<1> DEFINE w == m.wrapped
           mark == AudioExMark + 5
<1>1. /\ m.kind = "AudioExMultitrack" /\ m.trackID \in Byte /\ w \in AudioExs
      /\ m = [kind |-> "AudioExMultitrack", trackID |-> m.trackID, wrapped |-> w]
  BY DEF AudioExMultitracks
<1>2. PICK code \in {0, 1, 2, 4}, dts \in Time, rest \in Seq(Byte) :
        Carries(w, TypeAudio, AudioExMark + code, dts, rest) /\ w.kind = AudioExTypes[code]
  BY <1>1, AudioExCarried
<1> DEFINE head == AudioExMark + code
<1>3. head \in Byte /\ mark \in Byte /\ code \in 0..15 /\ head % 16 = code
  BY SMT DEF AudioExMark, Byte
<1>4. MarshalMessage(m) = Raw(w.from, TypeAudio, dts, Tracked(mark, code, w.fourCC, m.trackID, rest))
  <2> DEFINE r == MarshalWrapped(w)
  <2>1. r = Raw(w.from, TypeAudio, dts, Ex(head, w.fourCC, rest)) /\ w.fourCC \in Word
    BY <1>2, Zenon DEF Carries
  <2>2. MultitrackBody(mark, m, Ex(head, w.fourCC, rest)) = Tracked(mark, head % 16, w.fourCC, m.trackID, rest)
    BY <1>3, <2>1, TrackedBody
  <2>3. r.body = Ex(head, w.fourCC, rest) /\ \A b : [r EXCEPT !.body = b] = Raw(w.from, TypeAudio, dts, b)
    BY <2>1 DEF Raw
  <2>4. MarshalMessage(m) = [r EXCEPT !.body = MultitrackBody(mark, m, r.body)]
    BY <1>1, MarshalledBy, Zenon DEF MarshalAudioExMultitrack
  <2> HIDE DEF r, mark, head
  <2> QED
    BY <1>3, <2>2, <2>3, <2>4, Zenon
<1>5. ASSUME NEW body \in Seq(Byte), body # <<>>, body[1] = mark
      PROVE  LET r == Raw(w.from, TypeAudio, dts, body)
             IN /\ ~OneTrack(r) => UnmarshalMessage(r) = Refused
                /\ OneTrack(r) /\ body[2] = code =>
                     UnmarshalMessage(r) = Multitrack("AudioExMultitrack", r, UnmarshalEx(w.kind, WrappedRaw(r)))
  <2> DEFINE r == Raw(w.from, TypeAudio, dts, body)
  <2>1. r.type = TypeAudio /\ r.body = body
    BY DEF Raw
  <2> HIDE DEF r
  <2>2. /\ ~OneTrack(r) => UnmarshalMessage(r) = Refused
        /\ OneTrack(r) /\ r.body[2] = code =>
             UnmarshalMessage(r) = Multitrack("AudioExMultitrack", r, UnmarshalEx(AudioExTypes[code], WrappedRaw(r)))
    BY <1>5, <2>1, AudioExMultitrackRead
  <2> QED
    BY <1>2, <2>1, <2>2, Zenon DEF r
<1>6. TypeAudio \in {TypeAudio, TypeVideo} /\ "AudioExMultitrack" # "Video" /\ w \in AudioExs \cup VideoExs
  BY <1>1
<1>7. Carries(w, TypeAudio, head, dts, rest) /\ ReadAsTrack(m, "AudioExMultitrack", TypeAudio, mark, code, dts)
  BY <1>2, <1>5, Zenon DEF ReadAsTrack
<1> HIDE DEF mark, head
<1> QED
  BY <1>1, <1>3, <1>4, <1>5, <1>6, <1>7, DeliverMultitrack

LEMMA DeliverVideoExMultitrack ==
  ASSUME NEW m \in VideoExMultitracks
  PROVE  Delivered(m)
<1> DEFINE w == m.wrapped
           mark == VideoExMark + 6
<1>1. /\ m.kind = "VideoExMultitrack" /\ m.trackID \in Byte /\ w \in VideoExs
      /\ m = [kind |-> "VideoExMultitrack", trackID |-> m.trackID, wrapped |-> w]
  BY DEF VideoExMultitracks
<1>2. PICK code \in {0, 1, 2, 3}, dts \in Time, rest \in Seq(Byte) :
        Carries(w, TypeVideo, VideoExMark + code, dts, rest) /\ w.kind = VideoExTypes[code]
  BY <1>1, VideoExCarried
<1> DEFINE head == VideoExMark + code
<1>3. head \in Byte /\ mark \in Byte /\ code \in 0..15 /\ head % 16 = code
  BY SMT DEF VideoExMark, Byte
<1>4. MarshalMessage(m) = Raw(w.from, TypeVideo, dts, Tracked(mark, code, w.fourCC, m.trackID, rest))
  <2> DEFINE r == MarshalWrapped(w)
  <2>1. r = Raw(w.from, TypeVideo, dts, Ex(head, w.fourCC, rest)) /\ w.fourCC \in Word
    BY <1>2, Zenon DEF Carries
  <2>2. MultitrackBody(mark, m, Ex(head, w.fourCC, rest)) = Tracked(mark, head % 16, w.fourCC, m.trackID, rest)
    BY <1>3, <2>1, TrackedBody
  <2>3. r.body = Ex(head, w.fourCC, rest) /\ \A b : [r EXCEPT !.body = b] = Raw(w.from, TypeVideo, dts, b)
    BY <2>1 DEF Raw
  <2>4. MarshalMessage(m) = [r EXCEPT !.body = MultitrackBody(mark, m, r.body)]
    BY <1>1, MarshalledBy, Zenon DEF MarshalVideoExMultitrack
  <2> HIDE DEF r, mark, head
  <2> QED
    BY <1>3, <2>2, <2>3, <2>4, Zenon
<1>5. ASSUME NEW body \in Seq(Byte), body # <<>>, body[1] = mark
      PROVE  LET r == Raw(w.from, TypeVideo, dts, body)
             IN /\ ~OneTrack(r) => UnmarshalMessage(r) = Refused
                /\ OneTrack(r) /\ body[2] = code =>
                     UnmarshalMessage(r) = Multitrack("VideoExMultitrack", r, UnmarshalEx(w.kind, WrappedRaw(r)))
  <2> DEFINE r == Raw(w.from, TypeVideo, dts, body)
  <2>1. r.type = TypeVideo /\ r.body = body
    BY DEF Raw
  <2> HIDE DEF r
  <2>2. /\ ~OneTrack(r) => UnmarshalMessage(r) = Refused
        /\ OneTrack(r) /\ r.body[2] = code =>
             UnmarshalMessage(r) = Multitrack("VideoExMultitrack", r, UnmarshalEx(VideoExTypes[code], WrappedRaw(r)))
    BY <1>5, <2>1, VideoExMultitrackRead
  <2> QED
    BY <1>2, <2>1, <2>2, Zenon DEF r
<1>6. TypeVideo \in {TypeAudio, TypeVideo} /\ "VideoExMultitrack" # "Video" /\ w \in AudioExs \cup VideoExs
  BY <1>1
<1>7. Carries(w, TypeVideo, head, dts, rest) /\ ReadAsTrack(m, "VideoExMultitrack", TypeVideo, mark, code, dts)
  BY <1>2, <1>5, Zenon DEF ReadAsTrack
<1> HIDE DEF mark, head
<1> QED
  BY <1>1, <1>3, <1>4, <1>5, <1>6, <1>7, DeliverMultitrack

\* A control message is of a fixed number of bytes.
LEMMA DeliverExact ==
  ASSUME NEW m, NEW type \in {1, 2, 3, 5, TypeSetPeerBandwidth, TypeUserControl}, NEW body \in Seq(Byte),
         m.kind # "Video",
         MarshalMessage(m) = Raw(ControlChunkStream, type, 0, body),
         UnmarshalMessage(Raw(ControlChunkStream, type, 0, body)) = m,
         \A n \in 0..(Len(body) - 1) :
           UnmarshalMessage(Raw(ControlChunkStream, type, 0, SubSeq(body, 1, n))) = Refused
  PROVE  Delivered(m)
<1>1. ControlChunkStream \in Address /\ 0 \in Time
  BY DEF ControlChunkStream, Address, Time
<1>2. type \in Byte
  BY DEF Byte, TypeSetPeerBandwidth, TypeUserControl
<1>3. AsRead(m) = m
  BY Steady
<1>4. ASSUME NEW n \in 0..(Len(body) - 1)
      PROVE  LET cut == Raw(ControlChunkStream, type, 0, SubSeq(body, 1, n))
             IN Lacking(UnmarshalMessage(cut), cut, m)
  BY Zenon DEF Lacking
<1>5. UnmarshalMessage(Raw(ControlChunkStream, type, 0, body)) = AsRead(m)
  BY <1>3
<1> QED
  BY <1>1, <1>2, <1>4, <1>5, DeliveredIf

LEMMA DeliverUint32 ==
  ASSUME NEW m \in Uint32Messages
  PROVE  Delivered(m)
<1>1. m.value \in Seq(Byte) /\ Len(m.value) = 4
  BY DEF Uint32Messages, Word
<1>2. PICK type \in {1, 2, 3, 5} : m.kind = Uint32Types[type]
  BY Kinds DEF Uint32Messages
<1>3. m = [kind |-> Uint32Types[type], value |-> m.value]
  BY <1>2 DEF Uint32Messages
<1>4. m.kind # "Video" /\ m.kind \in {Uint32Types[t] : t \in DOMAIN Uint32Types}
  BY <1>2, Kinds
<1>5. MarshalMessage(m) = Raw(ControlChunkStream, type, 0, m.value)
  BY <1>2, <1>4, MarshalledBy, Keys, Zenon DEF MarshalUint32
<1>6. ASSUME NEW body
      PROVE  UnmarshalMessage(Raw(ControlChunkStream, type, 0, body)) =
               IF Len(body) = 4 THEN [kind |-> Uint32Types[type], value |-> body] ELSE Refused
  <2> DEFINE r == Raw(ControlChunkStream, type, 0, body)
  <2>1. r.type = type /\ r.body = body
    BY DEF Raw
  <2> HIDE DEF r
  <2>2. UnmarshalMessage(r) = UnmarshalUint32(r)
    BY <2>1, UnmarshalledBy, Zenon
  <2> QED
    BY <2>1, <2>2, Zenon DEF UnmarshalUint32, Provided, r
<1>7. ASSUME NEW n \in 0..(Len(m.value) - 1)
      PROVE  UnmarshalMessage(Raw(ControlChunkStream, type, 0, SubSeq(m.value, 1, n))) = Refused
  <2>1. Len(SubSeq(m.value, 1, n)) # 4
    BY <1>1, Take
  <2> QED
    BY <1>6, <2>1, Zenon
<1>8. UnmarshalMessage(Raw(ControlChunkStream, type, 0, m.value)) = m
  BY <1>1, <1>3, <1>6, Zenon
<1> QED
  BY <1>1, <1>4, <1>5, <1>7, <1>8, DeliverExact

LEMMA DeliverSetPeerBandwidth ==
  ASSUME NEW m \in SetPeerBandwidths
  PROVE  Delivered(m)
<1> DEFINE body == Append(m.value, m.limit)
           R(b) == Raw(ControlChunkStream, TypeSetPeerBandwidth, 0, b)
<1>1. m.value \in Seq(Byte) /\ Len(m.value) = 4 /\ m.limit \in Byte
  BY DEF SetPeerBandwidths, Word
<1>2. m = [kind |-> "SetPeerBandwidth", value |-> m.value, limit |-> m.limit] /\ m.kind = "SetPeerBandwidth"
  BY DEF SetPeerBandwidths
<1>3. body \in Seq(Byte) /\ Len(body) = 5 /\ body[5] = m.limit /\ \A i \in 1..4 : body[i] = m.value[i]
  <2>1. m.value \in Seq(Byte) /\ m.limit \in Byte
    BY <1>1
  <2>2. /\ body \in Seq(Byte) /\ Len(body) = Len(m.value) + 1 /\ body[Len(m.value) + 1] = m.limit
        /\ \A i \in 1..Len(m.value) : body[i] = m.value[i]
    BY <2>1, AppendProperties
  <2> HIDE DEF body
  <2> QED
    BY <1>1, <2>2
<1>4. SubSeq(body, 1, 4) = m.value
  <2>1. /\ SubSeq(body, 1, 4) \in Seq(Byte) /\ Len(SubSeq(body, 1, 4)) = 4
        /\ \A i \in 1..4 : SubSeq(body, 1, 4)[i] = body[i]
    BY <1>3, Take
  <2>2. \A i \in 1..4 : SubSeq(body, 1, 4)[i] = m.value[i]
    BY <1>3, <2>1
  <2> QED
    BY <1>1, <2>1, <2>2, SeqEqual
<1>5. ASSUME NEW b
      PROVE  UnmarshalMessage(R(b)) =
               IF Len(b) = 5 THEN [kind |-> "SetPeerBandwidth", value |-> SubSeq(b, 1, 4), limit |-> b[5]] ELSE Refused
  <2>1. R(b).type = TypeSetPeerBandwidth /\ R(b).body = b
    BY DEF Raw
  <2> HIDE DEF R
  <2>2. UnmarshalMessage(R(b)) = UnmarshalSetPeerBandwidth(R(b))
    BY <2>1, UnmarshalledBy, Zenon
  <2> QED
    BY <2>1, <2>2, Zenon DEF UnmarshalSetPeerBandwidth, Provided
<1>6. MarshalMessage(m) = R(body)
  BY <1>2, MarshalledBy, Zenon DEF MarshalSetPeerBandwidth
<1> HIDE DEF body
<1>7. ASSUME NEW n \in 0..(Len(body) - 1)
      PROVE  UnmarshalMessage(R(SubSeq(body, 1, n))) = Refused
  <2>1. Len(SubSeq(body, 1, n)) # 5
    BY <1>3, Take
  <2> QED
    BY <1>5, <2>1, Zenon
<1>8. UnmarshalMessage(R(body)) = m
  BY <1>2, <1>3, <1>4, <1>5, Zenon
<1>9. m.kind # "Video" /\ TypeSetPeerBandwidth \in {1, 2, 3, 5, TypeSetPeerBandwidth, TypeUserControl} /\ body \in Seq(Byte)
  BY <1>2, <1>3
<1> QED
  BY <1>6, <1>7, <1>8, <1>9, DeliverExact

LEMMA UserControlRead ==
  ASSUME NEW r, r.type = TypeUserControl, r.body \in Seq(Byte)
  PROVE  /\ Len(r.body) < 2 => UnmarshalMessage(r) = Refused
         /\ \A type \in {0, 1, 2, 4, 6, 7} :
              Len(r.body) >= 2 /\ r.body[1] = 0 /\ r.body[2] = type =>
                UnmarshalMessage(r) = UnmarshalUserControl(r, type)
         /\ Len(r.body) >= 2 /\ r.body[1] = 0 /\ r.body[2] = 3 =>
              UnmarshalMessage(r) = UnmarshalSetBufferLength(r)
<1> DEFINE len == Len(r.body)
           type == Uint16(r.body)
           short == len < 2
           long == len >= 2
<1>0. len \in Nat
  BY LenProperties
<1>1. UnmarshalMessage(r) = AllocateUserControl(r)
  BY UnmarshalledBy, Zenon
<1>2. AllocateUserControl(r) =
        CASE short -> Refused
          [] long /\ type \in {0, 1, 2, 4, 6, 7} -> UnmarshalUserControl(r, type)
          [] long /\ type = 3 -> UnmarshalSetBufferLength(r)
          [] long /\ type \in UserControlUndocumented -> [kind |-> "UserControlUndocumented"]
          [] OTHER -> Refused
  BY Kinds, Zenon DEF AllocateUserControl, UserControlSetBufferLength
<1>3. ASSUME NEW key \in 0..7, r.body[1] = 0, r.body[2] = key
      PROVE  type = key
  BY <1>3 DEF Uint16
<1>4. 31 \notin 0..7 /\ 32 \notin 0..7 /\ \A key \in 0..7 : key \notin UserControlUndocumented
  BY DEF UserControlUndocumented
<1> HIDE DEF len
<1>8. short <=> ~long
  BY <1>0
<1> HIDE DEF type, short, long
<1>5. short /\ ~long => AllocateUserControl(r) = Refused
  BY <1>2, Zenon
<1>6. ASSUME NEW key \in {0, 1, 2, 4, 6, 7}, long, ~short, type = key
      PROVE  AllocateUserControl(r) = UnmarshalUserControl(r, key)
  <2>1. key # 3 /\ key \notin UserControlUndocumented
    BY <1>4
  <2> QED
    BY <1>2, <1>6, <2>1, Zenon
<1>7. ASSUME long, ~short, type = 3
      PROVE  AllocateUserControl(r) = UnmarshalSetBufferLength(r)
  <2>1. 3 \notin {0, 1, 2, 4, 6, 7} /\ 3 \notin UserControlUndocumented
    BY <1>4
  <2> QED
    BY <1>2, <1>7, <2>1, Zenon
<1>9. \A key \in {0, 1, 2, 3, 4, 6, 7} : key \in 0..7
  OBVIOUS
<1> QED
  BY <1>1, <1>3, <1>5, <1>6, <1>7, <1>8, <1>9, Zenon DEF short, long, len

LEMMA PartOf ==
  ASSUME NEW S, NEW s \in Seq(S), NEW n \in 0..(Len(s) - 1)
  PROVE  /\ SubSeq(s, 1, n) \in Seq(S) /\ Len(SubSeq(s, 1, n)) = n /\ n \in Nat /\ n < Len(s)
         /\ \A i \in 1..n : SubSeq(s, 1, n)[i] = s[i]
         /\ IsPrefix(SubSeq(s, 1, n), s)
<1>1. n \in 0..Len(s) /\ n \in Nat /\ n < Len(s)
  BY LenProperties
<1> QED
  BY <1>1, Take

\* Four bytes inside.
LEMMA Middle ==
  ASSUME NEW b \in Seq(Byte), NEW w \in Word, NEW k \in Nat, k + 4 <= Len(b),
         \A i \in 1..4 : b[k + i] = w[i]
  PROVE  SubSeq(b, k + 1, k + 4) = w
<1> DEFINE s == SubSeq(b, k + 1, k + 4)
<1>1. w \in Seq(Byte) /\ Len(w) = 4
  BY DEF Word
<1>2. s \in Word
  BY WordAt, LenProperties
<1>3. \A j \in 1..4 : s[j] = b[k + j]
  <2>1. \A i \in (k + 1)..(k + 4) : b[i] \in Byte
    BY ByteAt, LenProperties
  <2>2. \A j \in 1..((k + 4) - (k + 1) + 1) : s[j] = b[(k + 1) + j - 1]
    BY <2>1, SubSeqProperties
  <2>3. (k + 4) - (k + 1) + 1 = 4 /\ \A j \in 1..4 : (k + 1) + j - 1 = k + j
    OBVIOUS
  <2> HIDE DEF s
  <2> QED
    BY <2>2, <2>3
<1> HIDE DEF s
<1>4. s \in Seq(Byte) /\ Len(s) = 4
  BY <1>2 DEF Word
<1>5. \A j \in 1..4 : s[j] = w[j]
  BY <1>3
<1>6. s = w
  BY <1>1, <1>4, <1>5, SeqEqual
<1> QED
  BY <1>6 DEF s

LEMMA TwoInFront ==
  ASSUME NEW S, NEW a \in S, NEW b \in S, NEW rest \in Seq(S)
  PROVE  LET body == <<a, b>> \o rest
         IN /\ body \in Seq(S) /\ Len(body) = 2 + Len(rest) /\ Drop(body, 2) = rest
            /\ body[1] = a /\ body[2] = b
            /\ \A n \in 2..(2 + Len(rest)) : SubSeq(body, 1, n) = <<a, b>> \o SubSeq(rest, 1, n - 2)
<1> DEFINE front == <<a, b>>
           body == front \o rest
<1>1. front \in Seq(S) /\ Len(front) = 2 /\ front[1] = a /\ front[2] = b
  OBVIOUS
<1> HIDE DEF front
<1>2. front \in Seq(S)
  BY <1>1
<1>3. /\ body \in Seq(S) /\ Len(body) = Len(front) + Len(rest) /\ Drop(body, Len(front)) = rest
      /\ \A i \in 1..Len(front) : body[i] = front[i]
  BY <1>2, Joined
<1>4. Len(rest) \in Nat
  BY LenProperties
<1>5. ASSUME NEW n \in 2..(2 + Len(rest))
      PROVE  SubSeq(body, 1, n) = front \o SubSeq(rest, 1, n - 2)
  <2>1. Len(front) <= n /\ n <= Len(front) + Len(rest) /\ n - Len(front) = n - 2 /\ n \in Nat
    BY <1>1, <1>4, <1>5
  <2> QED
    BY <1>2, <2>1, CutBehind
<1> HIDE DEF body
<1>6. Len(body) = 2 + Len(rest) /\ Drop(body, 2) = rest /\ body[1] = a /\ body[2] = b
  BY <1>1, <1>3
<1> QED
  BY <1>3, <1>5, <1>6 DEF body, front

LEMMA TwoAhead ==
  ASSUME NEW a \in Byte, NEW b \in Byte, NEW rest \in Seq(Byte)
  PROVE  LET body == <<a, b>> \o rest
         IN /\ body \in Seq(Byte) /\ Len(body) = 2 + Len(rest) /\ Drop(body, 2) = rest
            /\ body[1] = a /\ body[2] = b
            /\ \A n \in 2..(2 + Len(rest)) : SubSeq(body, 1, n) = <<a, b>> \o SubSeq(rest, 1, n - 2)
BY TwoInFront

LEMMA DeliverUserControl ==
  ASSUME NEW m \in UserControls
  PROVE  Delivered(m)
<1> DEFINE R(b) == Raw(ControlChunkStream, TypeUserControl, 0, b)
<1>1. m.value \in Seq(Byte) /\ Len(m.value) = 4
  BY DEF UserControls, Word
<1>2. PICK type \in {0, 1, 2, 4, 6, 7} : m.kind = UserControlTypes[type]
  BY Kinds DEF UserControls
<1>3. m = [kind |-> UserControlTypes[type], value |-> m.value]
  BY <1>2 DEF UserControls
<1>4. m.kind # "Video" /\ m.kind \in {UserControlTypes[t] : t \in DOMAIN UserControlTypes}
  BY <1>2, Kinds
<1> DEFINE body == <<0, type>> \o m.value
<1>5. MarshalMessage(m) = R(body)
  <2>1. KeyOf(UserControlTypes, m.kind) = type
    BY <1>2, Keys, Zenon
  <2>2. Uint16Bytes(type) = <<0, type>>
    BY DEF Uint16Bytes
  <2> QED
    BY <1>4, <2>1, <2>2, MarshalledBy, Zenon DEF MarshalUserControl
<1>6. 0 \in Byte /\ type \in Byte
  BY DEF Byte
<1>7. /\ body \in Seq(Byte) /\ Len(body) = 2 + Len(m.value) /\ Drop(body, 2) = m.value
      /\ body[1] = 0 /\ body[2] = type
  <2>1. m.value \in Seq(Byte)
    BY <1>1
  <2> QED
    BY <1>6, <2>1, TwoAhead
<1> HIDE DEF body
<1>8. Len(body) = 6
  BY <1>1, <1>7
<1>9. ASSUME NEW b \in Seq(Byte), Len(b) >= 2, b[1] = 0, b[2] = type
      PROVE  UnmarshalMessage(R(b)) = IF Len(b) = 6 THEN [kind |-> UserControlTypes[type], value |-> Drop(b, 2)]
                                      ELSE Refused
  <2>1. R(b).type = TypeUserControl /\ R(b).body = b
    BY DEF Raw
  <2> HIDE DEF R
  <2>3. UnmarshalMessage(R(b)) = UnmarshalUserControl(R(b), type)
    BY <1>9, <2>1, UserControlRead
  <2> QED
    BY <2>1, <2>3, Zenon DEF UnmarshalUserControl, Provided
<1>10. UnmarshalMessage(R(body)) = m
  <2>1. Len(body) >= 2
    BY <1>8
  <2>2. UnmarshalMessage(R(body)) = [kind |-> UserControlTypes[type], value |-> Drop(body, 2)]
    BY <1>7, <1>8, <1>9, <2>1, Zenon
  <2> QED
    BY <1>3, <1>7, <2>2, Zenon
<1>11. ASSUME NEW n \in 0..(Len(body) - 1)
       PROVE  UnmarshalMessage(R(SubSeq(body, 1, n))) = Refused
  <2> DEFINE b == SubSeq(body, 1, n)
  <2>0. body \in Seq(Byte)
    BY <1>7
  <2>1. b \in Seq(Byte) /\ Len(b) = n /\ (n >= 2 => b[1] = body[1] /\ b[2] = body[2])
    BY <2>0, PartOf
  <2>2. n \in Nat /\ n < 6
    BY <1>8
  <2> HIDE DEF b
  <2>3. CASE n < 2
    <3>1. R(b).type = TypeUserControl /\ R(b).body \in Seq(Byte) /\ Len(R(b).body) < 2
      BY <2>1, <2>3 DEF Raw
    <3> HIDE DEF R
    <3> QED
      BY <3>1, UserControlRead, Zenon DEF b
  <2>4. CASE n >= 2
    <3>1. Len(b) >= 2 /\ b[1] = 0 /\ b[2] = type /\ Len(b) # 6
      BY <1>7, <2>1, <2>2, <2>4
    <3> QED
      BY <1>9, <2>1, <3>1, Zenon DEF b
  <2> QED
    BY <2>2, <2>3, <2>4
<1>12. TypeUserControl \in {1, 2, 3, 5, TypeSetPeerBandwidth, TypeUserControl} /\ body \in Seq(Byte)
  BY <1>7
<1> QED
  BY <1>4, <1>5, <1>10, <1>11, <1>12, DeliverExact

LEMMA DeliverSetBufferLength ==
  ASSUME NEW m \in SetBufferLengths
  PROVE  Delivered(m)
<1> DEFINE R(b) == Raw(ControlChunkStream, TypeUserControl, 0, b)
           type == 3
           front == <<0, type>> \o m.streamID
           body == front \o m.bufferLength
<1>1. /\ m.streamID \in Seq(Byte) /\ Len(m.streamID) = 4
      /\ m.bufferLength \in Seq(Byte) /\ Len(m.bufferLength) = 4
  BY DEF SetBufferLengths, Word
<1>2. /\ m.kind = "UserControlSetBufferLength"
      /\ m = [kind |-> "UserControlSetBufferLength", streamID |-> m.streamID, bufferLength |-> m.bufferLength]
  BY DEF SetBufferLengths
<1>3. MarshalMessage(m) = R(body)
  <2>1. Uint16Bytes(UserControlSetBufferLength) = <<0, type>>
    BY DEF Uint16Bytes, UserControlSetBufferLength
  <2> QED
    BY <1>2, <2>1, MarshalledBy, Zenon DEF MarshalSetBufferLength
<1>4. front \in Seq(Byte) /\ Len(front) = 2 + Len(m.streamID) /\ front[1] = 0 /\ front[2] = type
  <2>1. 0 \in Byte /\ type \in Byte /\ m.streamID \in Seq(Byte)
    BY <1>1 DEF Byte
  <2> HIDE DEF type
  <2> QED
    BY <2>1, TwoAhead
<1>5. \A i \in 1..4 : front[2 + i] = m.streamID[i]
  <2> DEFINE head == <<0, type>>
             len == Len(head)
  <2>1. head \in Seq(Byte) /\ len = 2
    BY DEF Byte
  <2>2. m.streamID \in Seq(Byte) /\ 4 <= Len(m.streamID) /\ Len(m.streamID) \in Nat
    BY <1>1
  <2> HIDE DEF head
  <2>3. \A i \in (len + 1)..(len + Len(m.streamID)) : (head \o m.streamID)[i] = m.streamID[i - len]
    BY <2>1, <2>2, Joined
  <2> HIDE DEF len
  <2>4. ASSUME NEW i \in 1..4 PROVE (head \o m.streamID)[2 + i] = m.streamID[i]
    <3>1. 2 + i \in (len + 1)..(len + Len(m.streamID)) /\ (2 + i) - len = i
      BY <2>1, <2>2
    <3> QED
      BY <2>3, <3>1, Zenon
  <2> QED
    BY <2>4 DEF head
<1> HIDE DEF front, type
<1>6. /\ body \in Seq(Byte) /\ Len(body) = Len(front) + Len(m.bufferLength)
      /\ \A i \in 1..Len(front) : body[i] = front[i]
      /\ \A i \in (Len(front) + 1)..(Len(front) + Len(m.bufferLength)) : body[i] = m.bufferLength[i - Len(front)]
  <2>1. front \in Seq(Byte) /\ m.bufferLength \in Seq(Byte)
    BY <1>1, <1>4
  <2> QED
    BY <2>1, Joined
<1> HIDE DEF body
<1>7. /\ Len(body) = 10 /\ body[1] = 0 /\ body[2] = type
      /\ \A i \in 1..4 : body[2 + i] = m.streamID[i]
      /\ \A i \in 1..4 : body[6 + i] = m.bufferLength[i]
  <2> DEFINE lf == Len(front)
             ls == Len(m.streamID)
             lb == Len(m.bufferLength)
             len == Len(body)
  <2>1. lf = 2 + ls /\ ls = 4 /\ lb = 4 /\ len = lf + lb
    BY <1>1, <1>4, <1>6
  <2>2. /\ \A i \in 1..lf : body[i] = front[i]
        /\ \A i \in (lf + 1)..(lf + lb) : body[i] = m.bufferLength[i - lf]
    BY <1>6
  <2> HIDE DEF lf, ls, lb, len
  <2>3. len = 10 /\ body[1] = 0 /\ body[2] = type /\ \A i \in 1..4 : body[2 + i] = m.streamID[i]
    BY <1>4, <1>5, <2>1, <2>2
  <2>4. ASSUME NEW i \in 1..4 PROVE body[6 + i] = m.bufferLength[i]
    <3>1. 6 + i \in (lf + 1)..(lf + lb) /\ (6 + i) - lf = i
      BY <2>1
    <3> QED
      BY <2>2, <3>1, Zenon
  <2> QED
    BY <2>3, <2>4 DEF len
<1>8. SubSeq(body, 3, 6) = m.streamID
  <2>1. m.streamID \in Word /\ body \in Seq(Byte) /\ 2 + 4 <= Len(body)
    BY <1>6, <1>7 DEF SetBufferLengths
  <2>2. SubSeq(body, 2 + 1, 2 + 4) = m.streamID
    BY <1>7, <2>1, Middle
  <2> QED
    BY <2>2
<1>9. SubSeq(body, 7, 10) = m.bufferLength
  <2>1. m.bufferLength \in Word /\ body \in Seq(Byte) /\ 6 + 4 <= Len(body)
    BY <1>6, <1>7 DEF SetBufferLengths
  <2>2. SubSeq(body, 6 + 1, 6 + 4) = m.bufferLength
    BY <1>7, <2>1, Middle
  <2> QED
    BY <2>2
<1>10. ASSUME NEW b \in Seq(Byte), Len(b) >= 2, b[1] = 0, b[2] = 3
      PROVE  UnmarshalMessage(R(b)) =
               IF Len(b) = 10
               THEN [kind |-> "UserControlSetBufferLength", streamID |-> SubSeq(b, 3, 6), bufferLength |-> SubSeq(b, 7, 10)]
               ELSE Refused
  <2>1. R(b).type = TypeUserControl /\ R(b).body = b
    BY DEF Raw
  <2> HIDE DEF R
  <2>3. UnmarshalMessage(R(b)) = UnmarshalSetBufferLength(R(b))
    BY <1>10, <2>1, UserControlRead
  <2> QED
    BY <2>1, <2>3, Zenon DEF UnmarshalSetBufferLength, Provided
<1>11. UnmarshalMessage(R(body)) = m
  <2>1. Len(body) >= 2 /\ body[2] = 3
    BY <1>7 DEF type
  <2> QED
    BY <1>2, <1>6, <1>7, <1>8, <1>9, <1>10, <2>1, Zenon
<1>12. ASSUME NEW n \in 0..(Len(body) - 1)
       PROVE  UnmarshalMessage(R(SubSeq(body, 1, n))) = Refused
  <2> DEFINE b == SubSeq(body, 1, n)
  <2>0. body \in Seq(Byte)
    BY <1>6
  <2>1. b \in Seq(Byte) /\ Len(b) = n /\ (n >= 2 => b[1] = body[1] /\ b[2] = body[2])
    BY <2>0, PartOf
  <2>2. n \in Nat /\ n < 10
    BY <1>7
  <2> HIDE DEF b
  <2>3. CASE n < 2
    <3>1. R(b).type = TypeUserControl /\ R(b).body \in Seq(Byte) /\ Len(R(b).body) < 2
      BY <2>1, <2>3 DEF Raw
    <3> HIDE DEF R
    <3> QED
      BY <3>1, UserControlRead, Zenon DEF b
  <2>4. CASE n >= 2
    <3>1. Len(b) >= 2 /\ b[1] = 0 /\ b[2] = 3 /\ Len(b) # 10
      BY <1>7, <2>1, <2>2, <2>4 DEF type
    <3> QED
      BY <1>10, <2>1, <3>1, Zenon DEF b
  <2> QED
    BY <2>2, <2>3, <2>4
<1>13. /\ TypeUserControl \in {1, 2, 3, 5, TypeSetPeerBandwidth, TypeUserControl} /\ body \in Seq(Byte)
       /\ m.kind # "Video"
  BY <1>2, <1>6
<1> QED
  BY <1>3, <1>11, <1>12, <1>13, DeliverExact

LEMMA AudioRead ==
  ASSUME NEW from, NEW dts, NEW body \in Seq(Byte), Len(body) >= 1, body[1] \div 16 # 9
  PROVE  LET r == Raw(from, TypeAudio, dts, body)
             head == body[1]
             rest == Drop(body, 2)
         IN /\ Len(body) = 1 => UnmarshalMessage(r) = Refused
            /\ Len(body) > 1 =>
                 /\ head \div 16 \in {CodecMPEG1Audio, CodecPCMA, CodecPCMU, CodecLPCM} =>
                      UnmarshalMessage(r) = AudioOf(from, dts, head, 0, <<>>, Tail(body))
                 /\ head \div 16 = CodecMPEG4Audio /\ body[2] = AudioAACTypeConfig =>
                      UnmarshalMessage(r) =
                        IF rest = <<>> \/ ParsesAs(rest, Configs)
                        THEN AudioOf(from, dts, head, AudioAACTypeConfig, rest, <<>>) ELSE Refused
                 /\ head \div 16 = CodecMPEG4Audio /\ body[2] = AudioAACTypeAU =>
                      UnmarshalMessage(r) =
                        IF rest # <<>> THEN AudioOf(from, dts, head, AudioAACTypeAU, <<>>, rest) ELSE Refused
<1> DEFINE r == Raw(from, TypeAudio, dts, body)
           head == body[1]
           codec == head \div 16
           rest == Drop(body, 2)
           len == Len(body)
<1>1. r.body = body /\ r.from = from /\ r.dts = dts /\ r.type = TypeAudio
  BY DEF Raw
<1> HIDE DEF r
<1>2. len \in Nat /\ body # <<>>
  <2>1. len \in Nat /\ len # 0
    BY LenProperties
  <2> QED
    BY <2>1, WhenEmpty
<1>3. UnmarshalMessage(r) = UnmarshalAudio(r)
  <2>1. UnmarshalMessage(r) = AllocateAudio(r)
    BY <1>1, UnmarshalledBy, Zenon
  <2>2. AllocateAudio(r) = UnmarshalAudio(r)
    BY <1>1, Zenon DEF AllocateAudio
  <2> QED
    BY <2>1, <2>2, Zenon
<1>4. UnmarshalAudio(r) =
        CASE body = <<>> -> EmptyAudio(from, dts)
          [] len = 1 -> Refused
          [] len > 1 /\ codec \in {CodecMPEG1Audio, CodecPCMA, CodecPCMU, CodecLPCM} ->
               AudioOf(from, dts, head, 0, <<>>, Tail(body))
          [] len > 1 /\ codec = CodecMPEG4Audio /\ body[2] = AudioAACTypeConfig ->
               Provided(rest = <<>> \/ ParsesAs(rest, Configs), AudioOf(from, dts, head, AudioAACTypeConfig, rest, <<>>))
          [] len > 1 /\ codec = CodecMPEG4Audio /\ body[2] = AudioAACTypeAU ->
               Provided(rest # <<>>, AudioOf(from, dts, head, AudioAACTypeAU, <<>>, rest))
          [] OTHER -> Refused
  BY <1>1, Zenon DEF UnmarshalAudio
<1>5. /\ CodecMPEG4Audio \notin {CodecMPEG1Audio, CodecPCMA, CodecPCMU, CodecLPCM}
      /\ AudioAACTypeConfig # AudioAACTypeAU
  BY DEF CodecMPEG4Audio, CodecMPEG1Audio, CodecPCMA, CodecPCMU, CodecLPCM, AudioAACTypeConfig, AudioAACTypeAU
<1> HIDE DEF len, codec, head, rest
<1>6. len > 1 => len # 1
  BY <1>2
<1>7. len = 1 => ~(len > 1)
  BY <1>2
<1>8. len = 1 => UnmarshalAudio(r) = Refused
  BY <1>2, <1>4, <1>7, Zenon
<1>9. len > 1 /\ codec \in {CodecMPEG1Audio, CodecPCMA, CodecPCMU, CodecLPCM} =>
        UnmarshalAudio(r) = AudioOf(from, dts, head, 0, <<>>, Tail(body))
  <2>1. codec \in {CodecMPEG1Audio, CodecPCMA, CodecPCMU, CodecLPCM} => codec # CodecMPEG4Audio
    BY <1>5
  <2> QED
    BY <1>2, <1>4, <1>6, <2>1, Zenon
<1>10. len > 1 /\ codec = CodecMPEG4Audio /\ body[2] = AudioAACTypeConfig =>
         UnmarshalAudio(r) =
           Provided(rest = <<>> \/ ParsesAs(rest, Configs), AudioOf(from, dts, head, AudioAACTypeConfig, rest, <<>>))
  <2>1. codec = CodecMPEG4Audio => codec \notin {CodecMPEG1Audio, CodecPCMA, CodecPCMU, CodecLPCM}
    BY <1>5
  <2>2. body[2] = AudioAACTypeConfig => body[2] # AudioAACTypeAU
    BY <1>5
  <2> QED
    BY <1>2, <1>4, <1>6, <2>1, <2>2, Zenon
<1>11. len > 1 /\ codec = CodecMPEG4Audio /\ body[2] = AudioAACTypeAU =>
         UnmarshalAudio(r) = Provided(rest # <<>>, AudioOf(from, dts, head, AudioAACTypeAU, <<>>, rest))
  <2>1. codec = CodecMPEG4Audio => codec \notin {CodecMPEG1Audio, CodecPCMA, CodecPCMU, CodecLPCM}
    BY <1>5
  <2>2. body[2] = AudioAACTypeAU => body[2] # AudioAACTypeConfig
    BY <1>5
  <2> QED
    BY <1>2, <1>4, <1>6, <2>1, <2>2, Zenon
<1> QED
  BY <1>3, <1>8, <1>9, <1>10, <1>11, Zenon DEF Provided, len, codec, head, rest, r

\* A first byte of codec, rate, depth and channels.
HeadOf(m) == m.codec * 16 + m.rate * 4 + m.depth * 2 + (IF m.stereo THEN 1 ELSE 0)
Refilled(m, aacType, config, au) ==
  [kind |-> "Audio", from |-> m.from, dts |-> m.dts, codec |-> m.codec, rate |-> m.rate, depth |-> m.depth,
   stereo |-> m.stereo, aacType |-> aacType, config |-> config, au |-> au]

LEMMA AudioHead ==
  ASSUME NEW m \in Audios, m.codec \in 0..15
  PROVE  /\ HeadOf(m) \in Byte /\ HeadOf(m) \div 16 = m.codec
         /\ \A aacType, config, au :
              AudioOf(m.from, m.dts, HeadOf(m), aacType, config, au) = Refilled(m, aacType, config, au)
<1>1. m.rate \in 0..3 /\ m.depth \in 0..1 /\ m.stereo \in BOOLEAN
  BY DEF Audios
<1>2. PICK channels \in {0, 1} : channels = IF m.stereo THEN 1 ELSE 0
  OBVIOUS
<1>3. PICK codec \in 0..15, rate \in 0..3, depth \in 0..1 : codec = m.codec /\ rate = m.rate /\ depth = m.depth
  BY <1>1, Zenon
<1> DEFINE head == codec * 16 + rate * 4 + depth * 2 + channels
<1>4. /\ head \in 0..255 /\ head \div 16 = codec /\ (head \div 4) % 4 = rate
      /\ (head \div 2) % 2 = depth /\ head % 2 = channels
  OBVIOUS
<1>5. (head % 2 # 0) = m.stereo
  BY <1>1, <1>2, <1>4
<1> HIDE DEF head
<1>6. ASSUME NEW aacType, NEW config, NEW au
      PROVE  AudioOf(m.from, m.dts, head, aacType, config, au) = Refilled(m, aacType, config, au)
  BY <1>3, <1>4, <1>5, Zenon DEF AudioOf, Refilled
<1>7. head = HeadOf(m)
  BY <1>2, <1>3 DEF head, HeadOf
<1>8. head \in Byte /\ head \div 16 = m.codec
  BY <1>3, <1>4 DEF Byte
<1>9. HeadOf(m) \in Byte /\ HeadOf(m) \div 16 = m.codec
  BY <1>7, <1>8
<1>10. ASSUME NEW aacType, NEW config, NEW au
      PROVE  AudioOf(m.from, m.dts, HeadOf(m), aacType, config, au) = Refilled(m, aacType, config, au)
  BY <1>6, <1>7
<1> QED
  BY <1>9, <1>10

LEMMA AudioShortened ==
  ASSUME NEW m \in Audios
  PROVE  /\ Refilled(m, m.aacType, m.config, m.au) = m
         /\ \A config, au : IsPrefix(config, m.config) /\ IsPrefix(au, m.au) =>
              Shortened(Refilled(m, m.aacType, config, au), m)
<1>1. /\ m = [kind |-> "Audio", from |-> m.from, dts |-> m.dts, codec |-> m.codec, rate |-> m.rate,
              depth |-> m.depth, stereo |-> m.stereo, aacType |-> m.aacType, config |-> m.config, au |-> m.au]
      /\ DOMAIN m = {"kind", "from", "dts", "codec", "rate", "depth", "stereo", "aacType", "config", "au"}
      /\ m.kind = "Audio"
  BY DEF Audios
<1>2. ASSUME NEW config, NEW au, IsPrefix(config, m.config), IsPrefix(au, m.au)
      PROVE  Shortened(Refilled(m, m.aacType, config, au), m)
  <2> DEFINE short == Refilled(m, m.aacType, config, au)
  <2>1. /\ DOMAIN short = {"kind", "from", "dts", "codec", "rate", "depth", "stereo", "aacType", "config", "au"}
        /\ short.kind = "Audio" /\ short.from = m.from /\ short.dts = m.dts /\ short.codec = m.codec
        /\ short.rate = m.rate /\ short.depth = m.depth /\ short.stereo = m.stereo /\ short.aacType = m.aacType
        /\ short.config = config /\ short.au = au
    BY DEF Refilled
  <2> HIDE DEF short
  <2>2. ASSUME NEW x \in DOMAIN short \ {"wrapped"}
        PROVE  IF x \in Tails THEN IsPrefix(short[x], m[x]) ELSE short[x] = m[x]
    <3>1. CASE x \in {"config", "au"}
      <4>1. x \in Tails
        BY <3>1 DEF Tails
      <4>2. IsPrefix(short[x], m[x])
        BY <1>2, <2>1, <3>1
      <4> QED
        BY <4>1, <4>2
    <3>2. CASE x \notin {"config", "au"}
      <4>1. x \notin Tails /\ short[x] = m[x]
        BY <1>1, <2>1, <2>2, <3>2 DEF Tails
      <4> QED
        BY <4>1
    <3> QED
      BY <3>1, <3>2
  <2>3. Shortened(short, m)
    BY <1>1, <2>1, <2>2, Zenon DEF Shortened
  <2> QED
    BY <2>3 DEF short
<1> QED
  BY <1>1, <1>2, Zenon DEF Refilled

LEMMA OneAhead ==
  ASSUME NEW a \in Byte, NEW rest \in Seq(Byte)
  PROVE  LET body == <<a>> \o rest
         IN /\ body \in Seq(Byte) /\ Len(body) = 1 + Len(rest) /\ Tail(body) = rest /\ body[1] = a
            /\ \A n \in 1..(1 + Len(rest)) : SubSeq(body, 1, n) = <<a>> \o SubSeq(rest, 1, n - 1)
<1> DEFINE front == <<a>>
           body == front \o rest
<1>1. front \in Seq(Byte) /\ Len(front) = 1 /\ front[1] = a
  OBVIOUS
<1> HIDE DEF front
<1>2. front \in Seq(Byte)
  BY <1>1
<1>3. /\ body \in Seq(Byte) /\ Len(body) = Len(front) + Len(rest) /\ Drop(body, Len(front)) = rest
      /\ \A i \in 1..Len(front) : body[i] = front[i]
      /\ \A i \in (Len(front) + 1)..(Len(front) + Len(rest)) : body[i] = rest[i - Len(front)]
  BY <1>2, Joined
<1>4. Len(rest) \in Nat
  BY LenProperties
<1>5. ASSUME NEW n \in 1..(1 + Len(rest))
      PROVE  SubSeq(body, 1, n) = front \o SubSeq(rest, 1, n - 1)
  <2>1. Len(front) <= n /\ n <= Len(front) + Len(rest) /\ n - Len(front) = n - 1 /\ n \in Nat
    BY <1>1, <1>4, <1>5
  <2> QED
    BY <1>2, <2>1, CutBehind
<1> HIDE DEF body
<1>6. Len(body) = 1 + Len(rest) /\ body[1] = a /\ body # <<>>
  <2>1. Len(body) = 1 + Len(rest) /\ body[1] = a
    BY <1>1, <1>3
  <2>2. Len(body) # 0
    BY <1>4, <2>1
  <2> QED
    BY <1>3, <2>1, <2>2, WhenEmpty
<1>7. Tail(body) = rest
  <2>1. Tail(body) \in Seq(Byte) /\ Len(Tail(body)) = Len(rest)
    BY <1>3, <1>4, <1>6, HeadTailProperties
  <2>2. ASSUME NEW i \in 1..Len(rest) PROVE Tail(body)[i] = rest[i]
    <3>1. Tail(body)[i] = body[i + 1]
      BY <1>3, <1>6, <2>1, HeadTailProperties
    <3>2. i + 1 \in (Len(front) + 1)..(Len(front) + Len(rest)) /\ (i + 1) - Len(front) = i
      BY <1>1, <1>4
    <3> QED
      BY <1>3, <3>1, <3>2
  <2> QED
    BY <2>1, <2>2, SeqEqual
<1> QED
  BY <1>3, <1>5, <1>6, <1>7 DEF body, front

LEMMA LacksEnd ==
  ASSUME NEW m, NEW part, NEW r, AsRead(m) = m, "wrapped" \notin DOMAIN m, Shortened(part, m)
  PROVE  Lacking(part, r, m)
<1>1. DOMAIN part = DOMAIN m
  BY Zenon DEF Shortened
<1> QED
  BY <1>1, Zenon DEF Lacking

LEMMA LacksAll ==
  ASSUME NEW from, NEW type \in {TypeAudio, TypeVideo}, NEW dts, NEW m
  PROVE  LET cut == Raw(from, type, dts, <<>>) IN Lacking(UnmarshalMessage(cut), cut, m)
<1> DEFINE cut == Raw(from, type, dts, <<>>)
<1>1. cut.body = <<>> /\ cut.from = from /\ cut.dts = dts
  BY DEF Raw
<1>2. UnmarshalMessage(cut) \in {EmptyAudio(from, dts), Refused}
  BY ReadNothing, Zenon
<1> HIDE DEF cut
<1>3. Lacking(UnmarshalMessage(cut), cut, m)
  BY <1>1, <1>2, Zenon DEF Lacking
<1> QED
  BY <1>3 DEF cut

LEMMA DeliverEmptyAudio ==
  ASSUME NEW m \in Audios, m = EmptyAudio(m.from, m.dts)
  PROVE  Delivered(m)
<1>1. m.kind = "Audio" /\ m.from \in Address /\ m.dts \in Time
  BY DEF Audios
<1>2. m.codec = 0
  <2>1. EmptyAudio(m.from, m.dts).codec = 0
    BY DEF EmptyAudio, AudioOf
  <2> QED
    BY <2>1
<1> DEFINE body == <<>>
<1>3. MarshalMessage(m) = Raw(m.from, TypeAudio, m.dts, body)
  <2>1. m.codec # CodecMPEG4Audio
    BY <1>2 DEF CodecMPEG4Audio
  <2>2. MarshalMessage(m) = MarshalAudio(m)
    BY <1>1, MarshalledBy, Zenon
  <2>3. \A a : a.codec = 0 /\ a.codec # CodecMPEG4Audio => MarshalAudio(a) = Raw(a.from, TypeAudio, a.dts, <<>>)
    BY Zenon DEF MarshalAudio
  <2> QED
    BY <1>2, <2>1, <2>2, <2>3, Zenon
<1>4. UnmarshalMessage(Raw(m.from, TypeAudio, m.dts, body)) = AsRead(m)
  <2>1. AsRead(m) = m
    BY <1>1, Steady
  <2> QED
    BY <2>1, ReadNothing
<1>5. body \in Seq(Byte) /\ TypeAudio \in Byte
  BY DEF TypeAudio, Byte
<1>6. ASSUME NEW n \in 0..(Len(body) - 1)
      PROVE  LET cut == Raw(m.from, TypeAudio, m.dts, SubSeq(body, 1, n)) IN Lacking(UnmarshalMessage(cut), cut, m)
  OBVIOUS
<1> HIDE DEF body
<1> QED
  BY <1>1, <1>3, <1>4, <1>5, <1>6, DeliveredIf

LEMMA DeliverPlainAudio ==
  ASSUME NEW m \in Audios, m.codec \in {CodecMPEG1Audio, CodecPCMA, CodecPCMU, CodecLPCM},
         m.aacType = 0, m.config = <<>>, m.au # <<>>
  PROVE  Delivered(m)
<1> DEFINE head == HeadOf(m)
           body == <<head>> \o m.au
           R(b) == Raw(m.from, TypeAudio, m.dts, b)
<1>1. /\ m.kind = "Audio" /\ m.from \in Address /\ m.dts \in Time /\ m.au \in Seq(Byte)
      /\ "wrapped" \notin DOMAIN m
  BY DEF Audios
<1>2. m.codec \in 0..15 /\ m.codec # 0 /\ m.codec # CodecMPEG4Audio /\ m.codec # 9
  BY DEF CodecMPEG1Audio, CodecPCMA, CodecPCMU, CodecLPCM, CodecMPEG4Audio
<1>3. /\ head \in Byte /\ head \div 16 = m.codec
      /\ \A au : AudioOf(m.from, m.dts, head, 0, <<>>, au) = Refilled(m, m.aacType, m.config, au)
  BY <1>2, AudioHead
<1>4. MarshalMessage(m) = R(body)
  BY <1>1, <1>2, MarshalledBy, Zenon DEF MarshalAudio, HeadOf
<1>5. AsRead(m) = m
  BY <1>1, Steady
<1> HIDE DEF head
<1>6. ASSUME NEW au \in Seq(Byte)
      PROVE  /\ Len(au) = 0 => UnmarshalMessage(R(<<head>> \o au)) = Refused
             /\ Len(au) > 0 => UnmarshalMessage(R(<<head>> \o au)) = Refilled(m, m.aacType, m.config, au)
  <2> DEFINE b == <<head>> \o au
  <2>1. b \in Seq(Byte) /\ Len(b) = 1 + Len(au) /\ Tail(b) = au /\ b[1] = head
    BY <1>3, OneAhead
  <2> HIDE DEF b
  <2>2. /\ Len(b) >= 1 /\ (Len(au) = 0 => Len(b) = 1) /\ (Len(au) > 0 => Len(b) > 1)
        /\ b[1] \div 16 = m.codec /\ b[1] \div 16 # 9
    BY <1>2, <1>3, <2>1, LenProperties
  <2>3. /\ Len(b) = 1 => UnmarshalMessage(R(b)) = Refused
        /\ Len(b) > 1 /\ b[1] \div 16 \in {CodecMPEG1Audio, CodecPCMA, CodecPCMU, CodecLPCM} =>
             UnmarshalMessage(R(b)) = AudioOf(m.from, m.dts, b[1], 0, <<>>, Tail(b))
    BY <2>1, <2>2, AudioRead
  <2> QED
    BY <1>3, <2>1, <2>2, <2>3, Zenon DEF b
<1>7. body \in Seq(Byte) /\ Len(body) = 1 + Len(m.au) /\ \A n \in 1..(1 + Len(m.au)) : SubSeq(body, 1, n) = <<head>> \o SubSeq(m.au, 1, n - 1)
  BY <1>1, <1>3, OneAhead
<1>8. Len(m.au) \in Nat /\ Len(m.au) > 0
  <2>1. Len(m.au) \in Nat /\ Len(m.au) # 0
    BY <1>1, WhenEmpty, LenProperties
  <2> QED
    BY <2>1
<1>9. UnmarshalMessage(R(body)) = AsRead(m)
  BY <1>1, <1>5, <1>6, <1>8, AudioShortened, Zenon
<1> HIDE DEF body
<1>10. ASSUME NEW n \in 0..(Len(body) - 1)
      PROVE  LET cut == R(SubSeq(body, 1, n)) IN Lacking(UnmarshalMessage(cut), cut, m)
  <2> DEFINE b == SubSeq(body, 1, n)
             cut == R(b)
  <2>1. b \in Seq(Byte) /\ Len(b) = n /\ n \in Nat /\ n < Len(body)
    BY <1>7, PartOf
  <2>2. CASE n = 0
    <3>1. b = <<>>
      BY <2>1, <2>2, WhenEmpty
    <3> QED
      BY <3>1, LacksAll
  <2>3. CASE n >= 1
    <3> DEFINE au == SubSeq(m.au, 1, n - 1)
    <3>1. n - 1 \in 0..Len(m.au) /\ n \in 1..(1 + Len(m.au))
      BY <1>7, <1>8, <2>1, <2>3
    <3>2. au \in Seq(Byte) /\ Len(au) = n - 1 /\ IsPrefix(au, m.au)
      BY <1>1, <3>1, Take
    <3>3. b = <<head>> \o au
      BY <1>7, <3>1
    <3> HIDE DEF au, b
    <3>4. CASE n = 1
      <4>1. Len(au) = 0
        BY <3>2, <3>4
      <4>2. UnmarshalMessage(cut) = Refused
        BY <1>6, <3>2, <3>3, <4>1, Zenon
      <4> QED
        BY <4>2, Zenon DEF Lacking, b
    <3>5. CASE n > 1
      <4>1. Len(au) > 0
        BY <2>1, <3>2, <3>5
      <4>2. UnmarshalMessage(cut) = Refilled(m, m.aacType, m.config, au)
        BY <1>6, <3>2, <3>3, <4>1, Zenon
      <4>3. IsPrefix(m.config, m.config)
        <5>1. m.config \in Seq(Byte)
          BY DEF Audios
        <5> QED
          BY <5>1, PrefixOfItself
      <4>4. Shortened(Refilled(m, m.aacType, m.config, au), m)
        BY <3>2, <4>3, AudioShortened, Zenon
      <4>5. Shortened(UnmarshalMessage(cut), m)
        BY <4>2, <4>4, Zenon
      <4> QED
        BY <1>1, <1>5, <4>5, LacksEnd, Zenon DEF b
    <3> QED
      BY <2>1, <2>3, <3>4, <3>5
  <2> QED
    BY <2>1, <2>2, <2>3
<1>11. TypeAudio \in Byte
  BY DEF TypeAudio, Byte
<1> QED
  BY <1>1, <1>4, <1>7, <1>9, <1>10, <1>11, DeliveredIf

LEMMA DeliverAAC ==
  ASSUME NEW m \in Audios, m.codec = CodecMPEG4Audio,
         \/ m.aacType = AudioAACTypeConfig /\ (m.config = <<>> \/ ParsesAs(m.config, Configs)) /\ m.au = <<>>
         \/ m.aacType = AudioAACTypeAU /\ m.config = <<>> /\ m.au # <<>>
  PROVE  Delivered(m)
<1> DEFINE head == HeadOf(m)
           aac == IF m.aacType = AudioAACTypeConfig THEN m.config ELSE m.au
           body == <<head, m.aacType>> \o aac
           R(b) == Raw(m.from, TypeAudio, m.dts, b)
           Made(part) == IF m.aacType = AudioAACTypeConfig THEN Refilled(m, m.aacType, part, m.au)
                         ELSE Refilled(m, m.aacType, m.config, part)
           good(part) == IF m.aacType = AudioAACTypeConfig THEN part = <<>> \/ ParsesAs(part, Configs)
                         ELSE part # <<>>
<1>1. /\ m.kind = "Audio" /\ m.from \in Address /\ m.dts \in Time /\ m.au \in Seq(Byte) /\ m.config \in Seq(Byte)
      /\ "wrapped" \notin DOMAIN m
  BY DEF Audios
<1>2. m.codec \in 0..15 /\ m.codec # 0 /\ m.codec # 9 /\ AudioAACTypeAU # AudioAACTypeConfig /\ m.aacType \in Byte
  BY DEF CodecMPEG4Audio, AudioAACTypeAU, AudioAACTypeConfig, Byte
<1>3. /\ head \in Byte /\ head \div 16 = m.codec
      /\ \A aacType, config, au : AudioOf(m.from, m.dts, head, aacType, config, au) = Refilled(m, aacType, config, au)
  BY <1>2, AudioHead
<1>4. MarshalMessage(m) = R(body)
  BY <1>1, <1>2, MarshalledBy, Zenon DEF MarshalAudio, HeadOf
<1>5. AsRead(m) = m
  BY <1>1, Steady
<1>6. aac \in Seq(Byte)
  BY <1>1
<1>7. good(aac) /\ Made(aac) = m
  <2>1. Refilled(m, m.aacType, m.config, m.au) = m
    BY AudioShortened
  <2> QED
    BY <1>2, <2>1, Zenon
<1> HIDE DEF head
<1>8. ASSUME NEW part \in Seq(Byte)
      PROVE  UnmarshalMessage(R(<<head, m.aacType>> \o part)) = IF good(part) THEN Made(part) ELSE Refused
  <2> DEFINE b == <<head, m.aacType>> \o part
             len == Len(b)
  <2>1. b \in Seq(Byte) /\ len = 2 + Len(part) /\ Drop(b, 2) = part /\ b[1] = head /\ b[2] = m.aacType
    BY <1>2, <1>3, TwoAhead
  <2>2. Len(part) \in Nat
    BY LenProperties
  <2> HIDE DEF b, len
  <2>3. len >= 1 /\ len > 1 /\ b[1] \div 16 = CodecMPEG4Audio /\ b[1] \div 16 # 9
    BY <1>2, <1>3, <2>1, <2>2
  <2>4. /\ b[2] = AudioAACTypeConfig =>
             UnmarshalMessage(R(b)) =
               IF part = <<>> \/ ParsesAs(part, Configs)
               THEN AudioOf(m.from, m.dts, b[1], AudioAACTypeConfig, part, <<>>) ELSE Refused
        /\ b[2] = AudioAACTypeAU =>
             UnmarshalMessage(R(b)) =
               IF part # <<>> THEN AudioOf(m.from, m.dts, b[1], AudioAACTypeAU, <<>>, part) ELSE Refused
    <3>1. Len(b) >= 1 /\ Len(b) > 1
      BY <2>3 DEF len
    <3> QED
      BY <2>1, <2>3, <3>1, AudioRead
  <2>5. CASE m.aacType = AudioAACTypeConfig
    <3>1. m.au = <<>>
      BY <1>2, <2>5
    <3>2. UnmarshalMessage(R(b)) =
            IF part = <<>> \/ ParsesAs(part, Configs) THEN Refilled(m, m.aacType, part, m.au) ELSE Refused
      BY <1>3, <2>1, <2>4, <2>5, <3>1, Zenon
    <3> QED
      BY <2>5, <3>2, Zenon DEF b
  <2>6. CASE m.aacType = AudioAACTypeAU
    <3>1. m.config = <<>> /\ m.aacType # AudioAACTypeConfig
      BY <1>2, <2>6
    <3>2. UnmarshalMessage(R(b)) = IF part # <<>> THEN Refilled(m, m.aacType, m.config, part) ELSE Refused
      BY <1>3, <2>1, <2>4, <2>6, <3>1, Zenon
    <3> QED
      BY <3>1, <3>2, Zenon DEF b
  <2> QED
    BY <2>5, <2>6
<1>9. ASSUME NEW part, IsPrefix(part, aac)
      PROVE  Shortened(Made(part), m)
  <2>1. IsPrefix(m.config, m.config) /\ IsPrefix(m.au, m.au)
    BY <1>1, PrefixOfItself
  <2> QED
    BY <1>9, <2>1, AudioShortened, Zenon
<1>10. /\ body \in Seq(Byte) /\ Len(body) = 2 + Len(aac) /\ body[1] = head
       /\ \A n \in 2..(2 + Len(aac)) : SubSeq(body, 1, n) = <<head, m.aacType>> \o SubSeq(aac, 1, n - 2)
  <2> HIDE DEF aac
  <2> QED
    BY <1>2, <1>3, <1>6, TwoAhead
<1> HIDE DEF aac, good, Made
<1>11. UnmarshalMessage(R(body)) = AsRead(m)
  BY <1>5, <1>6, <1>7, <1>8, Zenon
<1> HIDE DEF body
<1>12. ASSUME NEW n \in 0..(Len(body) - 1)
       PROVE  LET cut == R(SubSeq(body, 1, n)) IN Lacking(UnmarshalMessage(cut), cut, m)
  <2> DEFINE b == SubSeq(body, 1, n)
             cut == R(b)
  <2>1. b \in Seq(Byte) /\ Len(b) = n /\ n \in Nat /\ n < Len(body) /\ (n >= 1 => b[1] = body[1])
    <3>1. body \in Seq(Byte)
      BY <1>10
    <3> QED
      BY <3>1, PartOf
  <2>2. CASE n = 0
    <3>1. b = <<>>
      BY <2>1, <2>2, WhenEmpty
    <3> QED
      BY <3>1, LacksAll
  <2>3. CASE n = 1
    <3>1. b \in Seq(Byte) /\ Len(b) >= 1 /\ Len(b) = 1 /\ b[1] \div 16 # 9
      BY <1>2, <1>3, <1>10, <2>1, <2>3
    <3> HIDE DEF b
    <3>2. UnmarshalMessage(cut) = Refused
      BY <3>1, AudioRead
    <3> QED
      BY <3>2, Zenon DEF Lacking, b
  <2>4. CASE n >= 2
    <3> DEFINE part == SubSeq(aac, 1, n - 2)
    <3>0. Len(aac) \in Nat
      BY <1>6, LenProperties
    <3>1. n - 2 \in 0..Len(aac) /\ n \in 2..(2 + Len(aac))
      BY <1>10, <2>1, <2>4, <3>0
    <3>2. part \in Seq(Byte) /\ IsPrefix(part, aac)
      BY <1>6, <3>1, Take
    <3>3. b = <<head, m.aacType>> \o part
      BY <1>10, <3>1
    <3> HIDE DEF part, b
    <3>4. UnmarshalMessage(cut) = IF good(part) THEN Made(part) ELSE Refused
      BY <1>8, <3>2, <3>3, Zenon
    <3>5. Shortened(Made(part), m)
      BY <1>9, <3>2
    <3>6. CASE UnmarshalMessage(cut) = Refused
      BY <3>6, Zenon DEF Lacking, b
    <3>7. CASE Shortened(UnmarshalMessage(cut), m)
      BY <1>1, <1>5, <3>7, LacksEnd, Zenon DEF b
    <3> QED
      BY <3>4, <3>5, <3>6, <3>7, Zenon
  <2> QED
    BY <2>1, <2>2, <2>3, <2>4
<1>13. TypeAudio \in Byte
  BY DEF TypeAudio, Byte
<1> QED
  BY <1>1, <1>4, <1>10, <1>11, <1>12, <1>13, DeliveredIf

LEMMA DeliverAudio ==
  ASSUME NEW m \in Audios
  PROVE  Delivered(m)
<1>1. \/ m = EmptyAudio(m.from, m.dts)
      \/ /\ m.codec \in {CodecMPEG1Audio, CodecPCMA, CodecPCMU, CodecLPCM}
         /\ m.aacType = 0 /\ m.config = <<>> /\ m.au # <<>>
      \/ /\ m.codec = CodecMPEG4Audio
         /\ \/ m.aacType = AudioAACTypeConfig /\ (m.config = <<>> \/ ParsesAs(m.config, Configs)) /\ m.au = <<>>
            \/ m.aacType = AudioAACTypeAU /\ m.config = <<>> /\ m.au # <<>>
  BY Zenon DEF Audios
<1> QED
  BY <1>1, DeliverEmptyAudio, DeliverPlainAudio, DeliverAAC, Zenon

LEMMA VideoRead ==
  ASSUME NEW from, NEW dts, NEW body \in Seq(Byte), Len(body) >= 1, body[1] < VideoExMark
  PROVE  LET r == Raw(from, TypeVideo, dts, body)
         IN /\ Len(body) = 1 => UnmarshalMessage(r) = Refused
            /\ Len(body) >= 2 /\ body[1] \div 16 = Command =>
                 UnmarshalMessage(r) =
                   IF body[2] \in {0, 1} THEN VideoOf(from, dts, Command, body[2], 0, 0, 0, <<>>, <<>>) ELSE Refused
            /\ \A frameType \in {KeyFrame, InterFrame} :
                 Len(body) >= 2 /\ body[1] \div 16 = frameType =>
                   UnmarshalMessage(r) =
                     IF Len(body) >= 5 /\ body[1] % 16 \in {CodecH264, CodecH265}
                     THEN LET codec == body[1] % 16
                              rest == Drop(body, 5)
                              delta == DeltaOf(SubSeq(body, 3, 5))
                          IN CASE body[2] = PacketTypeConfig ->
                                    Provided(IF codec = CodecH264 THEN rest = <<>> \/ AVCConfigFound(rest)
                                                                  ELSE HEVCConfigFound(rest),
                                             VideoOf(from, dts, frameType, 0, codec, body[2], delta, rest, <<>>))
                               [] body[2] = PacketTypeAU ->
                                    Provided(rest # <<>>,
                                             VideoOf(from, dts, frameType, 0, codec, body[2], delta, <<>>, rest))
                               [] body[2] = PacketTypeEOS ->
                                    VideoOf(from, dts, frameType, 0, codec, body[2], delta, <<>>, <<>>)
                               [] OTHER -> Refused
                     ELSE Refused
<1> DEFINE r == Raw(from, TypeVideo, dts, body)
           type == IF body[1] \div 16 \in {KeyFrame, Command} THEN body[1] \div 16 ELSE InterFrame
           codec == body[1] % 16
           rest == Drop(body, 5)
           delta == DeltaOf(SubSeq(body, 3, 5))
           held == IF codec = CodecH264 THEN rest = <<>> \/ AVCConfigFound(rest) ELSE HEVCConfigFound(rest)
           Packet(frameType, config, au) == VideoOf(from, dts, frameType, 0, codec, body[2], delta, config, au)
           Packets(frameType) ==
             CASE body[2] = PacketTypeConfig -> Provided(held, Packet(frameType, rest, <<>>))
               [] body[2] = PacketTypeAU -> Provided(rest # <<>>, Packet(frameType, <<>>, rest))
               [] body[2] = PacketTypeEOS -> Packet(frameType, <<>>, <<>>)
               [] OTHER -> Refused
           len == Len(body)
           known == codec \in {CodecH264, CodecH265}
<1>1. r.body = body /\ r.from = from /\ r.dts = dts /\ r.type = TypeVideo
  BY DEF Raw
<1> HIDE DEF r
<1>2. len \in Nat /\ body # <<>>
  <2>1. len \in Nat /\ len # 0
    BY LenProperties
  <2> QED
    BY <2>1, WhenEmpty
<1>3. UnmarshalMessage(r) = UnmarshalVideo(r)
  <2>1. UnmarshalMessage(r) = AllocateVideo(r)
    BY <1>1, UnmarshalledBy, Zenon
  <2>2. ~(body[1] >= VideoExMark)
    <3>1. body[1] \in Byte
      BY <1>2, ByteAt
    <3>2. \A x \in Byte : x < VideoExMark => ~(x >= VideoExMark)
      BY DEF Byte, VideoExMark
    <3> QED
      BY <3>1, <3>2, Zenon
  <2>3. AllocateVideo(r) = UnmarshalVideo(r)
    BY <1>1, <1>2, <2>2, Zenon DEF AllocateVideo
  <2> QED
    BY <2>1, <2>3, Zenon
<1>4. UnmarshalVideo(r) =
        CASE len < 2 -> Refused
          [] len >= 2 /\ type = Command ->
               Provided(body[2] \in {0, 1}, VideoOf(from, dts, Command, body[2], 0, 0, 0, <<>>, <<>>))
          [] len >= 5 /\ type # Command /\ known -> Packets(type)
          [] OTHER -> Refused
  BY <1>1, Zenon DEF UnmarshalVideo
<1> HIDE DEF len
<1>5. /\ len = 1 => len < 2 /\ ~(len >= 2) /\ ~(len >= 5)
      /\ len >= 2 => ~(len < 2)
  BY <1>2
<1>6. /\ body[1] \div 16 = Command => type = Command
      /\ \A frameType \in {KeyFrame, InterFrame} :
           body[1] \div 16 = frameType => type = frameType /\ type # Command
  BY DEF KeyFrame, InterFrame, Command
<1> HIDE DEF type, known, Packets
<1>7. len = 1 => UnmarshalVideo(r) = Refused
  BY <1>4, <1>5, Zenon
<1>8. len >= 2 /\ type = Command =>
        UnmarshalVideo(r) =
          Provided(body[2] \in {0, 1}, VideoOf(from, dts, Command, body[2], 0, 0, 0, <<>>, <<>>))
  BY <1>4, <1>5, Zenon
<1>9. len >= 2 /\ type # Command =>
        UnmarshalVideo(r) = IF len >= 5 /\ known THEN Packets(type) ELSE Refused
  BY <1>4, <1>5, Zenon
<1>10. ASSUME NEW frameType \in {KeyFrame, InterFrame}, len >= 2, body[1] \div 16 = frameType
       PROVE  UnmarshalMessage(r) = IF len >= 5 /\ known THEN Packets(frameType) ELSE Refused
  BY <1>3, <1>6, <1>9, <1>10, Zenon
<1>11. /\ len = 1 => UnmarshalMessage(r) = Refused
       /\ len >= 2 /\ body[1] \div 16 = Command =>
            UnmarshalMessage(r) =
              IF body[2] \in {0, 1} THEN VideoOf(from, dts, Command, body[2], 0, 0, 0, <<>>, <<>>) ELSE Refused
  BY <1>3, <1>6, <1>7, <1>8, Zenon DEF Provided
<1> QED
  BY <1>10, <1>11, Zenon DEF len, known, Packets, r

\* Of the rest of a body, what a packet of a type takes for its configuration and for
\* its access unit.
ConfigIn(packetType, rest) == IF packetType = PacketTypeConfig THEN rest ELSE <<>>
UnitIn(packetType, rest) == IF packetType = PacketTypeAU THEN rest ELSE <<>>

LEMMA VideoFrameRead ==
  ASSUME NEW from, NEW dts, NEW body \in Seq(Byte), Len(body) >= 2, body[1] < VideoExMark,
         NEW frameType \in {KeyFrame, InterFrame}, body[1] \div 16 = frameType,
         NEW codec \in {CodecH264, CodecH265}, body[1] % 16 = codec, body[2] \in 0..2
  PROVE  LET r == Raw(from, TypeVideo, dts, body)
             config == ConfigIn(body[2], Drop(body, 5))
             au == UnitIn(body[2], Drop(body, 5))
         IN /\ Len(body) < 5 => UnmarshalMessage(r) = Refused
            /\ Len(body) >= 5 =>
                 UnmarshalMessage(r) =
                   IF VideoHolds(codec, body[2], config, au)
                   THEN VideoOf(from, dts, frameType, 0, codec, body[2], DeltaOf(SubSeq(body, 3, 5)), config, au)
                   ELSE Refused
<1> DEFINE r == Raw(from, TypeVideo, dts, body)
           len == Len(body)
           rest == Drop(body, 5)
           type == body[2]
           delta == DeltaOf(SubSeq(body, 3, 5))
           Packet(config, au) == VideoOf(from, dts, frameType, 0, codec, type, delta, config, au)
           held == IF codec = CodecH264 THEN rest = <<>> \/ AVCConfigFound(rest) ELSE HEVCConfigFound(rest)
           filled == rest # <<>>
<1>1. len \in Nat /\ len >= 1 /\ len >= 2 /\ (len < 5 => ~(len >= 5))
  BY LenProperties
<1>2. UnmarshalMessage(r) =
        IF len >= 5 /\ codec \in {CodecH264, CodecH265}
        THEN CASE type = PacketTypeConfig -> Provided(held, Packet(rest, <<>>))
               [] type = PacketTypeAU -> Provided(filled, Packet(<<>>, rest))
               [] type = PacketTypeEOS -> Packet(<<>>, <<>>)
               [] OTHER -> Refused
        ELSE Refused
  <2>1. Len(body) >= 1
    BY <1>1
  <2> HIDE DEF Packet, held, filled
  <2> QED
    BY <2>1, VideoRead, Zenon DEF Packet, held, filled
<1>3. codec = CodecH264 \/ codec = CodecH265
  OBVIOUS
<1>4. CodecH264 # CodecH265
  BY DEF CodecH264, CodecH265
<1>5. type = PacketTypeConfig \/ type = PacketTypeAU \/ type = PacketTypeEOS
  BY DEF PacketTypeConfig, PacketTypeAU, PacketTypeEOS
<1>6. PacketTypeConfig # PacketTypeAU /\ PacketTypeConfig # PacketTypeEOS /\ PacketTypeAU # PacketTypeEOS
  BY DEF PacketTypeConfig, PacketTypeAU, PacketTypeEOS
<1> HIDE DEF r, len, rest, type, delta, Packet, held, filled
<1>7. len < 5 => UnmarshalMessage(r) = Refused
  BY <1>1, <1>2, Zenon
<1>8. ASSUME len >= 5
      PROVE  UnmarshalMessage(r) =
               IF VideoHolds(codec, type, ConfigIn(type, rest), UnitIn(type, rest))
               THEN Packet(ConfigIn(type, rest), UnitIn(type, rest)) ELSE Refused
  <2>1. CASE type = PacketTypeConfig
    <3>1. ConfigIn(type, rest) = rest /\ UnitIn(type, rest) = <<>>
      BY <1>6, <2>1, Zenon DEF ConfigIn, UnitIn
    <3>2. VideoHolds(codec, type, rest, <<>>) <=> held
      BY <1>3, <1>4, <1>6, <2>1, Zenon DEF VideoHolds, held
    <3>3. UnmarshalMessage(r) = Provided(held, Packet(rest, <<>>))
      BY <1>2, <1>3, <1>6, <1>8, <2>1, Zenon
    <3> QED
      BY <3>1, <3>2, <3>3, Zenon DEF Provided
  <2>2. CASE type = PacketTypeAU
    <3>1. ConfigIn(type, rest) = <<>> /\ UnitIn(type, rest) = rest
      BY <1>6, <2>2, Zenon DEF ConfigIn, UnitIn
    <3>2. VideoHolds(codec, type, <<>>, rest) <=> filled
      BY <1>6, <2>2, Zenon DEF VideoHolds, filled
    <3>3. UnmarshalMessage(r) = Provided(filled, Packet(<<>>, rest))
      BY <1>2, <1>3, <1>6, <1>8, <2>2, Zenon
    <3> QED
      BY <3>1, <3>2, <3>3, Zenon DEF Provided
  <2>3. CASE type = PacketTypeEOS
    <3>1. ConfigIn(type, rest) = <<>> /\ UnitIn(type, rest) = <<>>
      BY <1>6, <2>3, Zenon DEF ConfigIn, UnitIn
    <3>2. VideoHolds(codec, type, <<>>, <<>>)
      BY <2>3, Zenon DEF VideoHolds
    <3>3. UnmarshalMessage(r) = Packet(<<>>, <<>>)
      BY <1>2, <1>3, <1>6, <1>8, <2>3, Zenon
    <3> QED
      BY <3>1, <3>2, <3>3, Zenon
  <2> QED
    BY <1>5, <2>1, <2>2, <2>3, Zenon
<1> QED
  BY <1>7, <1>8, Zenon DEF r, len, rest, type, delta, Packet

\* The front of a packet: two bytes and a delta.
PacketFront(head, type, delta) == <<head, type>> \o DeltaBytes(delta)

LEMMA PacketParts ==
  ASSUME NEW head \in Byte, NEW type \in Byte, NEW delta \in Shift, NEW rest \in Seq(Byte)
  PROVE  LET body == PacketFront(head, type, delta) \o rest
         IN /\ body \in Seq(Byte) /\ Len(body) = 5 + Len(rest) /\ Drop(body, 5) = rest
            /\ body[1] = head /\ body[2] = type /\ DeltaOf(SubSeq(body, 3, 5)) = delta
            /\ \A n \in 5..(5 + Len(rest)) :
                 SubSeq(body, 1, n) = PacketFront(head, type, delta) \o SubSeq(rest, 1, n - 5)
<1> DEFINE bytes == DeltaBytes(delta)
           front == PacketFront(head, type, delta)
           body == front \o rest
           lf == Len(front)
           lr == Len(rest)
<1>1. bytes \in Seq(Byte) /\ Len(bytes) = 3 /\ DeltaOf(bytes) = delta
  BY DeltaWritten
<1>2. /\ front \in Seq(Byte) /\ lf = 5 /\ front[1] = head /\ front[2] = type
      /\ \A i \in 1..3 : front[2 + i] = bytes[i]
  <2> DEFINE two == <<head, type>>
             lt == Len(two)
             lb == Len(bytes)
  <2>1. two \in Seq(Byte) /\ lt = 2 /\ two[1] = head /\ two[2] = type
    OBVIOUS
  <2>2. bytes \in Seq(Byte) /\ lb = 3
    BY <1>1
  <2> HIDE DEF two, bytes
  <2>3. /\ two \o bytes \in Seq(Byte) /\ Len(two \o bytes) = lt + lb
        /\ \A i \in 1..lt : (two \o bytes)[i] = two[i]
        /\ \A i \in (lt + 1)..(lt + lb) : (two \o bytes)[i] = bytes[i - lt]
    BY <2>1, <2>2, Joined
  <2>4. front = two \o bytes
    BY DEF PacketFront, two, bytes
  <2> HIDE DEF lt, lb, front
  <2>5. lf = 5
    BY <2>1, <2>2, <2>3, <2>4
  <2> HIDE DEF lf
  <2>6. front[1] = head /\ front[2] = type
    BY <2>1, <2>2, <2>3, <2>4
  <2>7. ASSUME NEW i \in 1..3 PROVE front[2 + i] = bytes[i]
    <3>1. 2 + i \in (lt + 1)..(lt + lb) /\ (2 + i) - lt = i
      BY <2>1, <2>2
    <3> QED
      BY <2>3, <2>4, <3>1, Zenon
  <2> QED
    BY <2>3, <2>4, <2>5, <2>6, <2>7, Zenon
<1> HIDE DEF front, bytes, lf
<1>3. /\ body \in Seq(Byte) /\ Len(body) = lf + lr /\ Drop(body, lf) = rest
      /\ \A i \in 1..lf : body[i] = front[i]
  <2>1. front \in Seq(Byte)
    BY <1>2
  <2> QED
    BY <2>1, Joined DEF lf
<1>4. lr \in Nat
  BY LenProperties
<1> HIDE DEF lr
<1>5. ASSUME NEW n \in 5..(5 + lr)
      PROVE  SubSeq(body, 1, n) = front \o SubSeq(rest, 1, n - 5)
  <2>1. lf <= n /\ n <= lf + lr /\ n - lf = n - 5 /\ n \in Nat
    BY <1>2, <1>4, <1>5
  <2>2. Len(front) <= n /\ n <= Len(front) + Len(rest) /\ n - Len(front) = n - 5
    BY <2>1 DEF lf, lr
  <2>3. front \in Seq(Byte)
    BY <1>2
  <2>4. SubSeq(front \o rest, 1, n) = front \o SubSeq(rest, 1, n - Len(front))
    BY <2>1, <2>2, <2>3, CutBehind
  <2> QED
    BY <2>2, <2>4, Zenon
<1> HIDE DEF body
<1>6. Len(body) = 5 + lr /\ Drop(body, 5) = rest /\ body[1] = head /\ body[2] = type
  BY <1>2, <1>3
<1>7. SubSeq(body, 3, 5) = bytes
  <2>1. \A i \in 3..5 : body[i] \in Byte
    BY <1>3, <1>4, <1>6, ByteAt
  <2>2. /\ SubSeq(body, 3, 5) \in Seq(Byte) /\ Len(SubSeq(body, 3, 5)) = 3
        /\ \A i \in 1..3 : SubSeq(body, 3, 5)[i] = body[3 + i - 1]
    BY <2>1, SubSeqProperties
  <2>3. \A i \in 1..3 : body[2 + i] = bytes[i]
    BY <1>2, <1>3
  <2>4. \A i \in 1..3 : SubSeq(body, 3, 5)[i] = bytes[i]
    BY <2>2, <2>3
  <2> QED
    BY <1>1, <2>2, <2>4, SeqEqual
<1> QED
  BY <1>1, <1>3, <1>5, <1>6, <1>7, Zenon DEF body, front, lr

\* A message that is read, with another configuration and another access unit.
Repacked(m, config, au) ==
  VideoOf(m.from, m.dts, FrameTypeOf(m), 0, m.codec, PacketTypeOf(m), m.delta, config, au)

LEMMA VideoShortened ==
  ASSUME NEW m, NEW config, NEW au, NEW short, NEW unit, IsPrefix(short, config), IsPrefix(unit, au)
  PROVE  /\ Shortened(Repacked(m, short, unit), Repacked(m, config, au))
         /\ "wrapped" \notin DOMAIN Repacked(m, short, unit)
<1> DEFINE from == m.from
           dts == m.dts
           type == FrameTypeOf(m)
           key == (type = KeyFrame)
           codec == m.codec
           packet == PacketTypeOf(m)
           delta == m.delta
           Of(c, a) == [kind |-> "Video", from |-> from, dts |-> dts, frameType |-> type,
                        isKeyFrame |-> key, command |-> 0, codec |-> codec,
                        packetType |-> packet, type |-> packet, delta |-> delta, config |-> c, au |-> a]
<1>1. \A c, a : Repacked(m, c, a) = Of(c, a)
  BY Zenon DEF Repacked, VideoOf
<1> DEFINE fields == {"kind", "from", "dts", "frameType", "isKeyFrame", "command", "codec", "packetType", "type",
                      "delta", "config", "au"}
<1> HIDE DEF from, dts, type, key, codec, packet, delta
<1>2. \A c, a : DOMAIN Of(c, a) = fields /\ Of(c, a).config = c /\ Of(c, a).au = a
  OBVIOUS
<1>3. ASSUME NEW x \in fields, x \notin {"config", "au"}
      PROVE  Of(short, unit)[x] = Of(config, au)[x]
  BY <1>3
<1>4. ASSUME NEW x \in fields
      PROVE  IF x \in Tails THEN IsPrefix(Of(short, unit)[x], Of(config, au)[x])
                            ELSE Of(short, unit)[x] = Of(config, au)[x]
  <2>1. CASE x \in {"config", "au"}
    <3>1. x \in Tails
      BY <2>1 DEF Tails
    <3>2. IsPrefix(Of(short, unit)[x], Of(config, au)[x])
      BY <1>2, <2>1
    <3> QED
      BY <3>1, <3>2, Zenon
  <2>2. CASE x \notin {"config", "au"}
    <3>1. x \notin Tails
      BY <2>2 DEF Tails
    <3> QED
      BY <1>3, <2>2, <3>1, Zenon
  <2> QED
    BY <2>1, <2>2
<1> HIDE DEF Of
<1>5. "wrapped" \notin fields
  OBVIOUS
<1> HIDE DEF fields
<1>6. Shortened(Of(short, unit), Of(config, au))
  BY <1>2, <1>4, Zenon DEF Shortened
<1> QED
  BY <1>1, <1>2, <1>5, <1>6, Zenon

FrameMade(from, dts, frameType, isKeyFrame, codec, packetType, type, delta, config, au) ==
  [kind |-> "Video", from |-> from, dts |-> dts, frameType |-> frameType,
   isKeyFrame |-> isKeyFrame, command |-> 0, codec |-> codec,
   packetType |-> packetType, type |-> type, delta |-> delta, config |-> config, au |-> au]
Retyped(m, frameType, key, packetType) ==
  [m EXCEPT !.frameType = frameType, !.isKeyFrame = key, !.packetType = packetType, !.type = packetType]

LEMMA FrameFilled ==
  ASSUME NEW from, NEW dts, NEW frameType, NEW isKeyFrame, NEW codec, NEW packetType, NEW type,
         NEW delta, NEW config, NEW au, NEW ft, NEW key, NEW pt
  PROVE  Retyped(FrameMade(from, dts, frameType, isKeyFrame, codec, packetType, type, delta, config, au), ft, key, pt)
           = FrameMade(from, dts, ft, key, codec, pt, pt, delta, config, au)
<1> DEFINE m == FrameMade(from, dts, frameType, isKeyFrame, codec, packetType, type, delta, config, au)
           a == Retyped(m, ft, key, pt)
           b == FrameMade(from, dts, ft, key, codec, pt, pt, delta, config, au)
<1>0. DOMAIN m = {"kind", "from", "dts", "frameType", "isKeyFrame", "command", "codec", "packetType", "type",
               "delta", "config", "au"}
  BY DEF FrameMade, Retyped
<1>1. DOMAIN a = DOMAIN m /\ a = [x \in DOMAIN m |-> a[x]]
  BY DEF FrameMade, Retyped
<1>2. DOMAIN b = DOMAIN m /\ b = [x \in DOMAIN m |-> b[x]]
  BY DEF FrameMade, Retyped
<1>3. /\ a.kind = "Video" /\ a.from = from /\ a.dts = dts /\ a.frameType = ft /\ a.isKeyFrame = key
      /\ a.command = 0 /\ a.codec = codec /\ a.packetType = pt /\ a.type = pt /\ a.delta = delta
      /\ a.config = config /\ a.au = au
  BY DEF FrameMade, Retyped
<1>4. /\ b.kind = "Video" /\ b.from = from /\ b.dts = dts /\ b.frameType = ft /\ b.isKeyFrame = key
      /\ b.command = 0 /\ b.codec = codec /\ b.packetType = pt /\ b.type = pt /\ b.delta = delta
      /\ b.config = config /\ b.au = au
  BY DEF FrameMade, Retyped
<1> HIDE DEF m, a, b
<1>5. \A x \in DOMAIN m : a[x] = b[x]
  BY <1>0, <1>3, <1>4
<1> QED
  BY <1>1, <1>2, <1>5 DEF a, b, m

LEMMA FrameAsRead ==
  ASSUME NEW m \in Videos, m.frameType # Command
  PROVE  /\ AsRead(m) = Repacked(m, m.config, m.au)
         /\ FrameTypeOf(m) \in {KeyFrame, InterFrame} /\ PacketTypeOf(m) \in 0..2
         /\ m.codec \in {CodecH264, CodecH265}
         /\ VideoHolds(m.codec, PacketTypeOf(m), m.config, m.au)
<1>1. /\ m \in [kind : {"Video"}, from : Address, dts : Time, frameType : {0, KeyFrame, InterFrame, Command},
               isKeyFrame : BOOLEAN, command : {0, 1}, codec : {0, CodecH264, CodecH265},
               packetType : 0..2, type : 0..2, delta : Shift, config : Seq(Byte), au : Seq(Byte)]
      /\ m.command = 0 /\ m.codec # 0 /\ VideoHolds(m.codec, PacketTypeOf(m), m.config, m.au)
  BY Zenon DEF Videos
<1>2. m.codec \in {CodecH264, CodecH265} /\ m.kind = "Video"
  BY <1>1
<1>3. FrameTypeOf(m) \in {KeyFrame, InterFrame}
  <2>1. m.frameType \in {0, KeyFrame, InterFrame} /\ m.isKeyFrame \in BOOLEAN
    BY <1>1
  <2>2. CASE m.frameType = 0 /\ m.isKeyFrame
    BY <2>2, Zenon DEF FrameTypeOf
  <2>3. CASE m.frameType = 0 /\ ~m.isKeyFrame
    BY <2>3, Zenon DEF FrameTypeOf
  <2>4. CASE m.frameType # 0
    <3>1. FrameTypeOf(m) = m.frameType
      BY <2>4, Zenon DEF FrameTypeOf
    <3> QED
      BY <2>1, <2>4, <3>1, Zenon
  <2> QED
    BY <2>1, <2>2, <2>3, <2>4, Zenon
<1>4. PacketTypeOf(m) \in 0..2
  BY <1>1 DEF PacketTypeOf
<1>5. AsRead(m) = Repacked(m, m.config, m.au)
  <2> DEFINE ft == FrameTypeOf(m)
             key == (ft = KeyFrame)
             pt == PacketTypeOf(m)
  <2>1. AsRead(m) = [m EXCEPT !.frameType = ft, !.isKeyFrame = key, !.packetType = pt, !.type = pt]
    BY <1>2, Zenon DEF AsRead
  <2>2. Repacked(m, m.config, m.au) =
          [kind |-> "Video", from |-> m.from, dts |-> m.dts, frameType |-> ft,
           isKeyFrame |-> key, command |-> 0, codec |-> m.codec,
           packetType |-> pt, type |-> pt, delta |-> m.delta, config |-> m.config, au |-> m.au]
    BY Zenon DEF Repacked, VideoOf
  <2> HIDE DEF ft, key, pt
  <2>3. [m EXCEPT !.frameType = ft, !.isKeyFrame = key, !.packetType = pt, !.type = pt] =
          [kind |-> "Video", from |-> m.from, dts |-> m.dts, frameType |-> ft,
           isKeyFrame |-> key, command |-> 0, codec |-> m.codec,
           packetType |-> pt, type |-> pt, delta |-> m.delta, config |-> m.config, au |-> m.au]
    <3>1. m = [kind |-> "Video", from |-> m.from, dts |-> m.dts, frameType |-> m.frameType,
               isKeyFrame |-> m.isKeyFrame, command |-> m.command, codec |-> m.codec,
               packetType |-> m.packetType, type |-> m.type, delta |-> m.delta, config |-> m.config, au |-> m.au]
      BY <1>1
    <3> DEFINE from == m.from
               dts == m.dts
               codec == m.codec
               delta == m.delta
               config == m.config
               au == m.au
               frameType == m.frameType
               isKeyFrame == m.isKeyFrame
               packetType == m.packetType
               type == m.type
    <3>2. m = FrameMade(from, dts, frameType, isKeyFrame, codec, packetType, type, delta, config, au)
      BY <1>1, <3>1, Zenon DEF FrameMade
    <3> HIDE DEF from, dts, codec, delta, config, au, frameType, isKeyFrame, packetType, type
    <3>3. Retyped(FrameMade(from, dts, frameType, isKeyFrame, codec, packetType, type, delta, config, au), ft, key, pt)
            = FrameMade(from, dts, ft, key, codec, pt, pt, delta, config, au)
      BY FrameFilled
    <3>4. Retyped(m, ft, key, pt) = FrameMade(from, dts, ft, key, codec, pt, pt, delta, config, au)
      BY <3>2, <3>3, Zenon
    <3> QED
      BY <3>4, Zenon DEF Retyped, FrameMade, from, dts, codec, delta, config, au
  <2> QED
    BY <2>1, <2>2, <2>3, Zenon
<1> QED
  BY <1>1, <1>2, <1>3, <1>4, <1>5

LEMMA PacketCut ==
  ASSUME NEW head \in Byte, NEW type \in Byte, NEW delta \in Shift, NEW rest \in Seq(Byte),
         NEW n \in 5..(5 + Len(rest))
  PROVE  SubSeq(PacketFront(head, type, delta) \o rest, 1, n) = PacketFront(head, type, delta) \o SubSeq(rest, 1, n - 5)
BY PacketParts

LEMMA DeliverVideoCommand ==
  ASSUME NEW m \in Videos, m.frameType = Command
  PROVE  Delivered(m)
<1> DEFINE head == Command * 16
           body == <<head, m.command>>
           R(b) == Raw(m.from, TypeVideo, m.dts, b)
<1>1. /\ m \in [kind : {"Video"}, from : Address, dts : Time, frameType : {0, KeyFrame, InterFrame, Command},
               isKeyFrame : BOOLEAN, command : {0, 1}, codec : {0, CodecH264, CodecH265},
               packetType : 0..2, type : 0..2, delta : Shift, config : Seq(Byte), au : Seq(Byte)]
      /\ ~m.isKeyFrame /\ m.codec = 0 /\ m.packetType = 0 /\ m.type = 0
      /\ m.delta = 0 /\ m.config = <<>> /\ m.au = <<>>
  BY Zenon DEF Videos
<1>2. m.kind = "Video" /\ m.from \in Address /\ m.dts \in Time /\ m.command \in {0, 1}
  BY <1>1
<1>3. VideoOf(m.from, m.dts, Command, m.command, 0, 0, 0, <<>>, <<>>) = m
  <2>1. VideoOf(m.from, m.dts, Command, m.command, 0, 0, 0, <<>>, <<>>) =
          [kind |-> "Video", from |-> m.from, dts |-> m.dts, frameType |-> Command,
           isKeyFrame |-> FALSE, command |-> m.command, codec |-> 0,
           packetType |-> 0, type |-> 0, delta |-> 0, config |-> <<>>, au |-> <<>>]
    <3>1. (Command = KeyFrame) = FALSE
      BY DEF Command, KeyFrame
    <3> QED
      BY <3>1, Zenon DEF VideoOf
  <2>2. m = [kind |-> "Video", from |-> m.from, dts |-> m.dts, frameType |-> m.frameType,
             isKeyFrame |-> m.isKeyFrame, command |-> m.command, codec |-> m.codec,
             packetType |-> m.packetType, type |-> m.type, delta |-> m.delta, config |-> m.config, au |-> m.au]
    BY <1>1
  <2>3. m.isKeyFrame = FALSE
    BY <1>1
  <2> QED
    BY <1>1, <2>1, <2>2, <2>3, Zenon
<1>4. AsRead(m) = m
  BY Zenon DEF AsRead
<1>5. MarshalMessage(m) = R(body)
  <2>1. FrameTypeOf(m) = Command
    <3>1. Command # 0
      BY DEF Command
    <3> QED
      BY <3>1, Zenon DEF FrameTypeOf
  <2> QED
    BY <1>2, <2>1, MarshalledBy, Zenon DEF MarshalVideo
<1>6. head \in Byte /\ m.command \in Byte /\ head < VideoExMark /\ head \div 16 = Command
  BY <1>2 DEF Command, Byte, VideoExMark
<1>7. body \in Seq(Byte) /\ Len(body) = 2 /\ body[1] = head /\ body[2] = m.command
  BY <1>6
<1> HIDE DEF head, body
<1>8. UnmarshalMessage(R(body)) = AsRead(m)
  <2> DEFINE len == Len(body)
  <2>1. len = 2
    BY <1>7
  <2> HIDE DEF len
  <2>2. len >= 1 /\ len >= 2
    BY <2>1
  <2>3. body \in Seq(Byte) /\ Len(body) >= 1 /\ Len(body) >= 2 /\ body[1] < VideoExMark /\ body[1] \div 16 = Command
    BY <1>6, <1>7, <2>2, Zenon DEF len
  <2>4. UnmarshalMessage(R(body)) =
          IF body[2] \in {0, 1} THEN VideoOf(m.from, m.dts, Command, body[2], 0, 0, 0, <<>>, <<>>) ELSE Refused
    BY <2>3, VideoRead
  <2> QED
    BY <1>2, <1>3, <1>4, <1>7, <2>4, Zenon
<1>9. ASSUME NEW n \in 0..(Len(body) - 1)
      PROVE  LET cut == R(SubSeq(body, 1, n)) IN Lacking(UnmarshalMessage(cut), cut, m)
  <2> DEFINE b == SubSeq(body, 1, n)
             cut == R(b)
  <2>1. b \in Seq(Byte) /\ Len(b) = n /\ n \in Nat /\ (n >= 1 => b[1] = body[1])
    <3>1. body \in Seq(Byte)
      BY <1>7
    <3> QED
      BY <3>1, PartOf
  <2>2. n = 0 \/ n = 1
    BY <1>7, <2>1
  <2>3. CASE n = 0
    <3>1. b = <<>>
      BY <2>1, <2>3, WhenEmpty
    <3> QED
      BY <3>1, LacksAll
  <2>4. CASE n = 1
    <3>1. b \in Seq(Byte) /\ Len(b) >= 1 /\ Len(b) = 1 /\ b[1] < VideoExMark
      BY <1>6, <1>7, <2>1, <2>4
    <3> HIDE DEF b
    <3>2. UnmarshalMessage(cut) = Refused
      BY <3>1, VideoRead
    <3> QED
      BY <3>2, Zenon DEF Lacking, b
  <2> QED
    BY <2>2, <2>3, <2>4
<1>10. TypeVideo \in Byte /\ body \in Seq(Byte)
  BY <1>7 DEF TypeVideo, Byte
<1> QED
  BY <1>2, <1>5, <1>8, <1>9, <1>10, DeliveredIf

LEMMA DeliverVideoFrame ==
  ASSUME NEW m \in Videos, m.frameType # Command
  PROVE  Delivered(m)
<1> DEFINE frameType == FrameTypeOf(m)
           type == PacketTypeOf(m)
           codec == m.codec
           delta == m.delta
           head == frameType * 16 + codec
           tail == CASE type = PacketTypeConfig -> m.config
                     [] type = PacketTypeAU -> m.au
                     [] OTHER -> <<>>
           body == PacketFront(head, type, delta) \o tail
           R(b) == Raw(m.from, TypeVideo, m.dts, b)
           good(part) == VideoHolds(codec, type, ConfigIn(type, part), UnitIn(type, part))
           Made(part) == Repacked(m, ConfigIn(type, part), UnitIn(type, part))
<1>1. /\ m.kind = "Video" /\ m.from \in Address /\ m.dts \in Time /\ delta \in Shift
      /\ m.config \in Seq(Byte) /\ m.au \in Seq(Byte)
  BY DEF Videos
<1>2. /\ AsRead(m) = Repacked(m, m.config, m.au)
      /\ frameType \in {KeyFrame, InterFrame} /\ type \in 0..2 /\ codec \in {CodecH264, CodecH265}
      /\ VideoHolds(codec, type, m.config, m.au)
  BY FrameAsRead
<1>3. frameType # Command
  BY <1>2 DEF KeyFrame, InterFrame, Command
<1>4. MarshalMessage(m) = R(body)
  <2>1. MarshalMessage(m) = MarshalVideo(m)
    BY <1>1, MarshalledBy, Zenon
  <2> QED
    BY <1>3, <2>1, Zenon DEF MarshalVideo, PacketFront
<1>5. /\ head \in Byte /\ type \in Byte /\ head < VideoExMark
      /\ head \div 16 = frameType /\ head % 16 = codec
  <2> HIDE DEF frameType, type, codec
  <2> QED
    BY <1>2 DEF KeyFrame, InterFrame, CodecH264, CodecH265, Byte, VideoExMark
<1>6. tail \in Seq(Byte) /\ ConfigIn(type, tail) = m.config /\ UnitIn(type, tail) = m.au
  <2>1. PacketTypeConfig # PacketTypeAU /\ PacketTypeConfig # PacketTypeEOS /\ PacketTypeAU # PacketTypeEOS
    BY DEF PacketTypeConfig, PacketTypeAU, PacketTypeEOS
  <2>2. <<>> \in Seq(Byte)
    BY EmptySeq
  <2> HIDE DEF type, codec
  <2>3. \/ type = PacketTypeConfig /\ m.au = <<>>
        \/ type = PacketTypeAU /\ m.config = <<>>
        \/ type = PacketTypeEOS /\ m.config = <<>> /\ m.au = <<>>
    BY <1>2, Zenon DEF VideoHolds
  <2> QED
    BY <1>1, <2>1, <2>2, <2>3, Zenon DEF ConfigIn, UnitIn
<1> HIDE DEF frameType, type, codec, delta, head, tail
<1>7. ASSUME NEW part \in Seq(Byte)
      PROVE  UnmarshalMessage(R(PacketFront(head, type, delta) \o part)) = IF good(part) THEN Made(part) ELSE Refused
  <2> DEFINE b == PacketFront(head, type, delta) \o part
             len == Len(b)
  <2>1. /\ b \in Seq(Byte) /\ len = 5 + Len(part) /\ Drop(b, 5) = part
        /\ b[1] = head /\ b[2] = type /\ DeltaOf(SubSeq(b, 3, 5)) = delta
    <3>1. head \in Byte /\ type \in Byte /\ delta \in Shift /\ part \in Seq(Byte)
      BY <1>1, <1>5
    <3> QED
      BY <3>1, PacketParts
  <2>2. Len(part) \in Nat
    BY LenProperties
  <2> HIDE DEF b, len
  <2>3. len >= 2 /\ len >= 5
    BY <2>1, <2>2
  <2>4. /\ Len(b) >= 2 /\ Len(b) >= 5 /\ b[1] < VideoExMark /\ b[1] \div 16 = frameType /\ b[1] % 16 = codec
        /\ b[2] \in 0..2
    BY <1>2, <1>5, <2>1, <2>3, Zenon DEF len
  <2>5. UnmarshalMessage(R(b)) =
          IF VideoHolds(codec, b[2], ConfigIn(b[2], Drop(b, 5)), UnitIn(b[2], Drop(b, 5)))
          THEN VideoOf(m.from, m.dts, frameType, 0, codec, b[2], DeltaOf(SubSeq(b, 3, 5)),
                       ConfigIn(b[2], Drop(b, 5)), UnitIn(b[2], Drop(b, 5)))
          ELSE Refused
    BY <1>2, <2>1, <2>4, VideoFrameRead
  <2>6. \A config, au : Repacked(m, config, au) = VideoOf(m.from, m.dts, frameType, 0, codec, type, delta, config, au)
    BY Zenon DEF Repacked, frameType, codec, type, delta
  <2> QED
    BY <2>1, <2>5, <2>6, Zenon DEF b
<1>8. ASSUME NEW part, IsPrefix(part, tail)
      PROVE  Shortened(Made(part), AsRead(m)) /\ "wrapped" \notin DOMAIN Made(part)
  <2>1. IsPrefix(<<>>, <<>>)
    BY EmptySeq, PrefixOfItself
  <2>2. IsPrefix(ConfigIn(type, part), m.config) /\ IsPrefix(UnitIn(type, part), m.au)
    BY <1>6, <1>8, <2>1, Zenon DEF ConfigIn, UnitIn
  <2> QED
    BY <1>2, <2>2, VideoShortened, Zenon
<1>9. /\ body \in Seq(Byte) /\ Len(body) = 5 + Len(tail) /\ body[1] = head /\ body[2] = type
      /\ \A n \in 5..(5 + Len(tail)) : SubSeq(body, 1, n) = PacketFront(head, type, delta) \o SubSeq(tail, 1, n - 5)
  <2>1. head \in Byte /\ type \in Byte /\ delta \in Shift /\ tail \in Seq(Byte)
    BY <1>1, <1>5, <1>6
  <2>2. body \in Seq(Byte) /\ Len(body) = 5 + Len(tail) /\ body[1] = head /\ body[2] = type
    BY <2>1, PacketParts
  <2>3. ASSUME NEW n \in 5..(5 + Len(tail))
        PROVE  SubSeq(body, 1, n) = PacketFront(head, type, delta) \o SubSeq(tail, 1, n - 5)
    BY <2>1, PacketCut, Zenon
  <2> QED
    BY <2>2, <2>3
<1> HIDE DEF good, Made
<1>10. UnmarshalMessage(R(body)) = AsRead(m)
  <2>1. good(tail) /\ Made(tail) = AsRead(m)
    BY <1>2, <1>6, Zenon DEF good, Made
  <2> QED
    BY <1>6, <1>7, <2>1, Zenon
<1> HIDE DEF body
<1>11. ASSUME NEW n \in 0..(Len(body) - 1)
       PROVE  LET cut == R(SubSeq(body, 1, n)) IN Lacking(UnmarshalMessage(cut), cut, m)
  <2> DEFINE b == SubSeq(body, 1, n)
             cut == R(b)
  <2>1. b \in Seq(Byte) /\ Len(b) = n /\ n \in Nat /\ n < Len(body) /\ \A i \in 1..n : b[i] = body[i]
    <3>1. body \in Seq(Byte)
      BY <1>9
    <3> QED
      BY <3>1, PartOf
  <2>2. CASE n = 0
    <3>1. b = <<>>
      BY <2>1, <2>2, WhenEmpty
    <3> QED
      BY <3>1, LacksAll
  <2>3. CASE n = 1
    <3>1. b \in Seq(Byte) /\ Len(b) >= 1 /\ Len(b) = 1 /\ b[1] < VideoExMark
      BY <1>5, <1>9, <2>1, <2>3
    <3> HIDE DEF b
    <3>2. UnmarshalMessage(cut) = Refused
      BY <3>1, VideoRead
    <3> QED
      BY <3>2, Zenon DEF Lacking, b
  <2>4. CASE n \in 2..4
    <3>1. Len(b) >= 2 /\ Len(b) < 5 /\ b[1] = head /\ b[2] = type
      BY <1>9, <2>1, <2>4
    <3>2. b \in Seq(Byte) /\ b[1] < VideoExMark /\ b[1] \div 16 = frameType /\ b[1] % 16 = codec /\ b[2] \in 0..2
      BY <1>2, <1>5, <2>1, <3>1
    <3> HIDE DEF b
    <3>3. UnmarshalMessage(cut) = Refused
      BY <1>2, <3>1, <3>2, VideoFrameRead
    <3> QED
      BY <3>3, Zenon DEF Lacking, b
  <2>5. CASE n >= 5
    <3> DEFINE part == SubSeq(tail, 1, n - 5)
    <3>0. Len(tail) \in Nat
      BY <1>6, LenProperties
    <3>1. n - 5 \in 0..Len(tail) /\ n \in 5..(5 + Len(tail))
      BY <1>9, <2>1, <2>5, <3>0
    <3>2. part \in Seq(Byte) /\ IsPrefix(part, tail)
      BY <1>6, <3>1, Take
    <3>3. b = PacketFront(head, type, delta) \o part
      BY <1>9, <3>1
    <3> HIDE DEF part, b
    <3>4. UnmarshalMessage(cut) = IF good(part) THEN Made(part) ELSE Refused
      BY <1>7, <3>2, <3>3, Zenon
    <3>5. Shortened(Made(part), AsRead(m)) /\ "wrapped" \notin DOMAIN Made(part)
      BY <1>8, <3>2
    <3> QED
      BY <3>4, <3>5, Zenon DEF Lacking, b
  <2> QED
    BY <2>1, <2>2, <2>3, <2>4, <2>5
<1>12. TypeVideo \in Byte /\ body \in Seq(Byte)
  BY <1>9 DEF TypeVideo, Byte
<1> QED
  BY <1>1, <1>4, <1>10, <1>11, <1>12, DeliveredIf

LEMMA DeliverVideo ==
  ASSUME NEW m \in Videos
  PROVE  Delivered(m)
BY DeliverVideoCommand, DeliverVideoFrame, Zenon

LEMMA DeliverData ==
  ASSUME AmfFaithful, NEW m \in DataMessages
  PROVE  Delivered(m)
<1> DEFINE from == m.from
           data == m.data
           body == MarshalAmf0(data)
           R(b) == Raw(from, TypeDataAMF0, 0, b)
           Of(values) == [kind |-> "DataAMF0", from |-> from, data |-> values]
<1>1. m.kind = "DataAMF0" /\ from \in Address /\ data \in Seq(Amf0Data) /\ m = Of(data)
  BY DEF DataMessages
<1>2. body \in Seq(Byte) /\ UnmarshalAmf0(body) = Got(data, <<>>)
  BY <1>1, AmfNothing, Zenon
<1> HIDE DEF from, data
<1>3. MarshalMessage(m) = R(body)
  BY <1>1, MarshalledBy, Zenon DEF MarshalDataAMF0, from, data
<1>4. ASSUME NEW b
      PROVE  UnmarshalMessage(R(b)) = IF UnmarshalAmf0(b).ok THEN Of(UnmarshalAmf0(b).item) ELSE Refused
  <2>1. R(b).type = TypeDataAMF0 /\ R(b).body = b /\ R(b).from = from
    BY DEF Raw
  <2> HIDE DEF R
  <2> QED
    BY <2>1, UnmarshalledBy, Zenon DEF UnmarshalDataAMF0, Provided
<1>5. AsRead(m) = m /\ "wrapped" \notin DOMAIN m
  <2>1. m.kind # "Video"
    BY <1>1
  <2>2. "wrapped" \notin DOMAIN Of(data)
    OBVIOUS
  <2> HIDE DEF Of
  <2> QED
    BY <1>1, <2>1, <2>2, Steady, Zenon
<1>6. UnmarshalMessage(R(body)) = AsRead(m)
  <2>1. UnmarshalAmf0(body).ok /\ UnmarshalAmf0(body).item = data
    BY <1>2 DEF Got
  <2> HIDE DEF body, R, Of
  <2> QED
    BY <1>1, <1>4, <1>5, <2>1, Zenon
<1>7. ASSUME NEW front, IsPrefix(front, data)
      PROVE  Shortened(Of(front), m)
  <2>1. \A x \in DOMAIN Of(front) : IF x \in Tails THEN x = "data" ELSE Of(front)[x] = Of(data)[x]
    BY DEF Tails
  <2>2. DOMAIN Of(front) = DOMAIN Of(data) /\ Of(front).data = front /\ Of(data).data = data
    OBVIOUS
  <2> HIDE DEF Of
  <2>3. Shortened(Of(front), Of(data))
    BY <1>7, <2>1, <2>2, Zenon DEF Shortened
  <2> QED
    BY <1>1, <2>3, Zenon
<1>8. ASSUME NEW n \in 0..(Len(body) - 1)
      PROVE  LET cut == R(SubSeq(body, 1, n)) IN Lacking(UnmarshalMessage(cut), cut, m)
  <2> DEFINE b == SubSeq(body, 1, n)
             part == UnmarshalAmf0(b)
             cut == R(b)
  <2>1. n \in 0..Len(body)
    BY <1>2, LenProperties
  <2>2. \/ ~part.ok
        \/ \E front \in Seq(Amf0Data) : part.ok /\ part.item = front /\ IsPrefix(front, data)
    BY <1>1, <2>1, AmfPart
  <2> HIDE DEF b, R, Of, part
  <2>3. UnmarshalMessage(cut) = IF part.ok THEN Of(part.item) ELSE Refused
    BY <1>4, Zenon DEF part
  <2>4. UnmarshalMessage(cut) = Refused \/ Shortened(UnmarshalMessage(cut), m)
    BY <1>7, <2>2, <2>3, Zenon
  <2>5. CASE UnmarshalMessage(cut) = Refused
    BY <2>5, Zenon DEF Lacking, b
  <2>6. CASE Shortened(UnmarshalMessage(cut), m)
    BY <1>5, <2>6, LacksEnd, Zenon DEF b
  <2> QED
    BY <2>4, <2>5, <2>6
<1>9. TypeDataAMF0 \in Byte /\ 0 \in Time /\ body \in Seq(Byte) /\ from \in Address
  BY <1>1, <1>2 DEF TypeDataAMF0, Byte, Time
<1> HIDE DEF body
<1> QED
  BY <1>3, <1>6, <1>8, <1>9, DeliveredIf

\* A part of a sequence that has two values in front has them too.
LEMMA PartBehindTwo ==
  ASSUME NEW S, NEW a \in S, NEW b \in S, NEW rest \in Seq(S), NEW front \in Seq(S), Len(front) >= 2,
         IsPrefix(front, <<a, b>> \o rest)
  PROVE  front[1] = a /\ front[2] = b /\ Drop(front, 2) \in Seq(S) /\ IsPrefix(Drop(front, 2), rest)
<1> DEFINE all == <<a, b>> \o rest
           n == Len(front)
           lr == Len(rest)
           part == SubSeq(rest, 1, n - 2)
<1>1. /\ all \in Seq(S) /\ Len(all) = 2 + lr
      /\ \A k \in 2..(2 + lr) : SubSeq(all, 1, k) = <<a, b>> \o SubSeq(rest, 1, k - 2)
  BY TwoInFront
<1>2. n \in Nat /\ lr \in Nat
  BY LenProperties
<1>3. n <= Len(all) /\ SubSeq(front, 1, n) = SubSeq(all, 1, n)
  BY DEF IsPrefix
<1>4. SubSeq(front, 1, n) = front
  BY SubSeqFull
<1> HIDE DEF n, lr, all
<1>5. n \in 2..(2 + lr) /\ n - 2 \in 0..lr
  <2>1. n >= 2
    BY DEF n
  <2> QED
    BY <1>1, <1>2, <1>3, <2>1
<1>6. front = <<a, b>> \o part
  BY <1>1, <1>3, <1>4, <1>5, Zenon
<1>7. part \in Seq(S) /\ IsPrefix(part, rest)
  <2>1. n - 2 \in 0..Len(rest)
    BY <1>5 DEF lr
  <2> QED
    BY <2>1, Take
<1> HIDE DEF part
<1>8. Drop(<<a, b>> \o part, 2) = part /\ (<<a, b>> \o part)[1] = a /\ (<<a, b>> \o part)[2] = b
  <2>1. part \in Seq(S)
    BY <1>7
  <2> QED
    BY <2>1, TwoInFront
<1> QED
  BY <1>6, <1>7, <1>8, Zenon

LEMMA DeliverCommand ==
  ASSUME AmfFaithful, NEW m \in CommandMessages
  PROVE  Delivered(m)
<1> DEFINE from == m.from
           name == m.name
           id == m.commandID
           data == m.data
           first == StringOf(name)
           second == NumberOf(FloatOf(id))
           values == <<first, second>> \o data
           body == MarshalAmf0(values)
           R(b) == Raw(from, TypeCommandAMF0, 0, b)
           Of(text, n, rest) == [kind |-> "CommandAMF0", from |-> from, name |-> text, commandID |-> n, data |-> rest]
           Opens(front) == Len(front) >= 3 /\ front[1].marker = String /\ front[2].marker = Number
           Made(front) == Of(front[1].text, IntOf(front[2].bits), Drop(front, 2))
<1>1. /\ m.kind = "CommandAMF0" /\ from \in Address /\ name \in Text /\ id \in Byte
      /\ data \in Seq(Amf0Data) /\ data # <<>> /\ m = Of(name, id, data)
  BY DEF CommandMessages
<1> HIDE DEF from, name, id, data
<1>2. first \in Amf0Data /\ second \in Amf0Data
  <2>1. FloatOf(id) \in Bits
    BY <1>1 DEF FloatOf, Bits, Byte
  <2> QED
    BY <1>1, <2>1, Zenon DEF AmfFaithful
<1>3. /\ first.marker = String /\ first.text = name /\ second.marker = Number
      /\ IntOf(second.bits) = id
  BY DEF StringOf, NumberOf, IntOf, FloatOf
<1>4. MarshalMessage(m) = R(body)
  BY <1>1, MarshalledBy, Zenon DEF MarshalCommandAMF0, from, name, id, data
<1> HIDE DEF first, second
<1>5. /\ values \in Seq(Amf0Data) /\ Len(values) = 2 + Len(data) /\ Drop(values, 2) = data
      /\ values[1] = first /\ values[2] = second
  BY <1>1, <1>2, TwoInFront
<1>6. Opens(values)
  <2> DEFINE len == Len(values)
             ld == Len(data)
  <2>1. ld \in Nat /\ ld # 0 /\ len = 2 + ld
    BY <1>1, <1>5, WhenEmpty
  <2> HIDE DEF len, ld
  <2>2. len >= 3
    BY <2>1
  <2> QED
    BY <1>3, <1>5, <2>2, Zenon DEF len
<1>7. ASSUME NEW front \in Seq(Amf0Data), IsPrefix(front, values), Opens(front)
      PROVE  Made(front) = Of(name, id, Drop(front, 2)) /\ IsPrefix(Drop(front, 2), data)
  <2>1. Len(front) >= 2
    <3> DEFINE len == Len(front)
    <3>1. len \in Nat /\ len >= 3
      BY <1>7, LenProperties
    <3> HIDE DEF len
    <3>2. len >= 2
      BY <3>1
    <3> QED
      BY <3>2 DEF len
  <2>2. front[1] = first /\ front[2] = second /\ IsPrefix(Drop(front, 2), data)
    <3>1. data \in Seq(Amf0Data)
      BY <1>1
    <3> QED
      BY <1>2, <1>7, <2>1, <3>1, PartBehindTwo
  <2> HIDE DEF Of
  <2> QED
    BY <1>3, <2>2, Zenon
<1> HIDE DEF values
<1>8. body \in Seq(Byte) /\ UnmarshalAmf0(body) = Got(values, <<>>)
  BY <1>5, AmfNothing, Zenon
<1>9. ASSUME NEW b
      PROVE  LET part == UnmarshalAmf0(b)
             IN UnmarshalMessage(R(b)) = IF part.ok /\ Opens(part.item) THEN Made(part.item) ELSE Refused
  <2>1. R(b).type = TypeCommandAMF0 /\ R(b).body = b /\ R(b).from = from
    BY DEF Raw
  <2> HIDE DEF R
  <2> QED
    BY <2>1, UnmarshalledBy, Zenon DEF UnmarshalCommandAMF0, Provided
<1>10. AsRead(m) = m /\ "wrapped" \notin DOMAIN m
  <2>1. m.kind # "Video"
    BY <1>1
  <2>2. "wrapped" \notin DOMAIN Of(name, id, data)
    OBVIOUS
  <2> HIDE DEF Of
  <2> QED
    BY <1>1, <2>1, <2>2, Steady, Zenon
<1>11. Made(values) = m
  <2> HIDE DEF Of
  <2> QED
    BY <1>1, <1>3, <1>5, Zenon
<1>12. ASSUME NEW rest, IsPrefix(rest, data)
       PROVE  Shortened(Of(name, id, rest), m)
  <2>1. \A x \in DOMAIN Of(name, id, rest) :
          IF x \in Tails THEN x = "data" ELSE Of(name, id, rest)[x] = Of(name, id, data)[x]
    BY DEF Tails
  <2>2. /\ DOMAIN Of(name, id, rest) = DOMAIN Of(name, id, data)
        /\ Of(name, id, rest).data = rest /\ Of(name, id, data).data = data
    OBVIOUS
  <2> HIDE DEF Of
  <2>3. Shortened(Of(name, id, rest), Of(name, id, data))
    BY <1>12, <2>1, <2>2, Zenon DEF Shortened
  <2> QED
    BY <1>1, <2>3, Zenon
<1> HIDE DEF Opens, Made, Of
<1>13. UnmarshalMessage(R(body)) = AsRead(m)
  <2>1. UnmarshalAmf0(body).ok /\ UnmarshalAmf0(body).item = values
    BY <1>8 DEF Got
  <2> HIDE DEF body, R
  <2> QED
    BY <1>6, <1>9, <1>10, <1>11, <2>1, Zenon
<1>14. ASSUME NEW n \in 0..(Len(body) - 1)
       PROVE  LET cut == R(SubSeq(body, 1, n)) IN Lacking(UnmarshalMessage(cut), cut, m)
  <2> DEFINE b == SubSeq(body, 1, n)
             part == UnmarshalAmf0(b)
             cut == R(b)
  <2>1. n \in 0..Len(body)
    BY <1>8, LenProperties
  <2>2. \/ ~part.ok
        \/ \E front \in Seq(Amf0Data) : part.ok /\ part.item = front /\ IsPrefix(front, values)
    BY <1>5, <2>1, AmfPart
  <2> HIDE DEF b, R, part
  <2>3. UnmarshalMessage(cut) = IF part.ok /\ Opens(part.item) THEN Made(part.item) ELSE Refused
    BY <1>9, Zenon DEF part
  <2>4. UnmarshalMessage(cut) = Refused \/ Shortened(UnmarshalMessage(cut), m)
    BY <1>7, <1>12, <2>2, <2>3, Zenon
  <2>5. CASE UnmarshalMessage(cut) = Refused
    BY <2>5, Zenon DEF Lacking, b
  <2>6. CASE Shortened(UnmarshalMessage(cut), m)
    BY <1>10, <2>6, LacksEnd, Zenon DEF b
  <2> QED
    BY <2>4, <2>5, <2>6
<1>15. TypeCommandAMF0 \in Byte /\ 0 \in Time /\ body \in Seq(Byte) /\ from \in Address
  BY <1>1, <1>8 DEF TypeCommandAMF0, Byte, Time
<1> HIDE DEF body
<1> QED
  BY <1>4, <1>13, <1>14, <1>15, DeliveredIf

LEMMA Delivery ==
  ASSUME AmfFaithful, NEW m \in Writable
  PROVE  Delivered(m)
<1>1. /\ m \in Uint32Messages => Delivered(m)
      /\ m \in UserControls => Delivered(m)
      /\ m \in SetPeerBandwidths => Delivered(m)
      /\ m \in SetBufferLengths => Delivered(m)
  BY DeliverUint32, DeliverUserControl, DeliverSetPeerBandwidth, DeliverSetBufferLength, Zenon
<1>2. m \in CommandMessages => Delivered(m)
  BY DeliverCommand, Zenon
<1>3. m \in DataMessages => Delivered(m)
  BY DeliverData, Zenon
<1>4. (m \in Audios => Delivered(m)) /\ (m \in Videos => Delivered(m))
  BY DeliverAudio, DeliverVideo, Zenon
<1>5. (m \in AudioExs => Delivered(m)) /\ (m \in VideoExs => Delivered(m))
  BY DeliverAudioEx, DeliverVideoEx, Zenon
<1>6. m \in VideoExMetadatas => Delivered(m)
  BY DeliverVideoExMetadata, Zenon
<1>7. (m \in AudioExMultitracks => Delivered(m)) /\ (m \in VideoExMultitracks => Delivered(m))
  BY DeliverAudioExMultitrack, DeliverVideoExMultitrack, Zenon
<1> QED
  BY <1>1, <1>2, <1>3, <1>4, <1>5, <1>6, <1>7, Zenon DEF Writable

-----------------------------------------------------------------------------
(* The path of a message: where it is, what is known of it there.          *)

\* What is left of a body that is cut.
Cuts(m) ==
  {[MarshalMessage(m) EXCEPT !.body = SubSeq(MarshalMessage(m).body, 1, n)] :
     n \in 0..(Len(MarshalMessage(m).body) - 1)}

\* On its way it is what the first Writer made of it, or that without its end, or
\* some raw message.
OnItsWay ==
  stage \in {"written", "read"} =>
    /\ sent \in Messages /\ raw \in RawMessages
    /\ way = "ours" => raw = MarshalMessage(sent)
    /\ way = "cut" => raw \in Cuts(sent)
Taken == stage = "read" => got = UnmarshalMessage(raw)
PassedOn ==
  stage = "republished" => got \in Readable(Writable) /\ reread = UnmarshalMessage(MarshalMessage(got))

Inv == OnItsWay /\ Taken /\ PassedOn

LEMMA MessagesAre ==
  Messages \subseteq Writable /\ Marks \subseteq Byte /\ Others \subseteq Byte /\ Types \subseteq Byte
<1>1. /\ Messages \subseteq Writable /\ Marks \subseteq 0..255 /\ Others \subseteq 0..255
      /\ Types \subseteq 0..255
  BY MessagePathAssumption
<1> QED
  BY <1>1 DEF Byte

LEMMA InvInit == Init => Inv
<1> SUFFICES ASSUME Init PROVE Inv
  OBVIOUS
<1>1. stage = "start"
  BY DEF Init
<1> QED
  BY <1>1 DEF Inv, OnItsWay, Taken, PassedOn

LEMMA InvWrite ==
  ASSUME AmfFaithful, Write
  PROVE  Inv'
<1>1. PICK m \in Messages : sent' = m /\ raw' = MarshalMessage(m)
  BY Zenon DEF Write
<1>2. stage' = "written" /\ way' = "ours"
  BY DEF Write
<1>3. MarshalMessage(m) \in RawMessages
  BY MessagesAre, Delivery, Zenon DEF Delivered
<1> QED
  BY <1>1, <1>2, <1>3 DEF Inv, OnItsWay, Taken, PassedOn

\* A body of another program is one too.
LEMMA ForeignRaw ==
  ASSUME NEW r \in RawMessages, NEW body \in Seq(Byte), NEW type \in Byte
  PROVE  [r EXCEPT !.body = body, !.type = type] \in RawMessages
BY DEF RawMessages

LEMMA OneAltered ==
  ASSUME NEW body \in Seq(Byte), NEW i \in DOMAIN body, NEW b \in Byte
  PROVE  [body EXCEPT ![i] = b] \in Seq(Byte)
<1>1. i \in 1..Len(body)
  BY LenProperties
<1> QED
  BY <1>1, ExceptSeq

LEMMA InvCut ==
  ASSUME Inv, Cut
  PROVE  Inv'
<1>1. PICK n \in 0..(Len(raw.body) - 1) : Foreign(SubSeq(raw.body, 1, n), raw.type)
  BY Zenon DEF Cut
<1>2. way' = "cut"
  BY DEF Cut
<1>3. /\ stage = "written" /\ way = "ours" /\ stage' = stage /\ sent' = sent
      /\ raw' = [raw EXCEPT !.body = SubSeq(raw.body, 1, n), !.type = raw.type]
  BY <1>1 DEF Foreign
<1>4. sent \in Messages /\ raw \in RawMessages /\ raw = MarshalMessage(sent)
  BY <1>3 DEF Inv, OnItsWay
<1>5. SubSeq(raw.body, 1, n) \in Seq(Byte) /\ raw.type \in Byte
  <2>1. raw.body \in Seq(Byte) /\ raw.type \in Byte
    BY <1>4, RawFields
  <2>2. SubSeq(raw.body, 1, n) \in Seq(Byte)
    BY <2>1, PartOf
  <2> QED
    BY <2>1, <2>2
<1>6. raw' \in RawMessages
  BY <1>3, <1>4, <1>5, ForeignRaw, Zenon
<1>7. raw' \in Cuts(sent)
  <2>1. ASSUME NEW r \in RawMessages, NEW b
        PROVE  [r EXCEPT !.body = b, !.type = r.type] = [r EXCEPT !.body = b]
    BY DEF RawMessages
  <2>2. raw' = [raw EXCEPT !.body = SubSeq(raw.body, 1, n)]
    BY <1>3, <1>4, <2>1, Zenon
  <2> QED
    BY <1>1, <1>4, <2>2, Zenon DEF Cuts
<1> QED
  BY <1>2, <1>3, <1>4, <1>6, <1>7 DEF Inv, OnItsWay, Taken, PassedOn

LEMMA InvAlter ==
  ASSUME Inv, Alter
  PROVE  Inv'
<1>1. way' = "altered"
  BY DEF Alter
<1>2. PICK body, type : /\ Foreign(body, type)
                        /\ \/ /\ type = raw.type
                              /\ \E i \in DOMAIN raw.body : \E b \in Marks \cup Others :
                                   body = [raw.body EXCEPT ![i] = b]
                           \/ body = raw.body /\ type \in Types
  <2>1. CASE \E i \in DOMAIN raw.body : \E b \in IF i = 1 THEN Marks ELSE Others :
               Foreign([raw.body EXCEPT ![i] = b], raw.type)
    <3>0. PICK i \in DOMAIN raw.body : \E b \in IF i = 1 THEN Marks ELSE Others :
            Foreign([raw.body EXCEPT ![i] = b], raw.type)
      BY <2>1, Zenon
    <3>1. PICK b \in IF i = 1 THEN Marks ELSE Others : Foreign([raw.body EXCEPT ![i] = b], raw.type)
      BY <3>0, Zenon
    <3>2. b \in Marks \cup Others
      BY Zenon
    <3> QED
      BY <3>1, <3>2, Zenon
  <2>2. CASE \E type \in Types : Foreign(raw.body, type)
    BY <2>2, Zenon
  <2> QED
    BY <2>1, <2>2, Zenon DEF Alter
<1>3. /\ stage = "written" /\ stage' = stage /\ sent' = sent
      /\ raw' = [raw EXCEPT !.body = body, !.type = type]
  BY <1>2 DEF Foreign
<1>4. sent \in Messages /\ raw \in RawMessages
  BY <1>3 DEF Inv, OnItsWay
<1>5. raw.body \in Seq(Byte) /\ raw.type \in Byte
  BY <1>4, RawFields
<1>6. body \in Seq(Byte) /\ type \in Byte
  BY <1>2, <1>5, MessagesAre, OneAltered, Zenon
<1>7. raw' \in RawMessages
  BY <1>3, <1>4, <1>6, ForeignRaw, Zenon
<1> QED
  BY <1>1, <1>3, <1>4, <1>7 DEF Inv, OnItsWay, Taken, PassedOn

LEMMA InvRead ==
  ASSUME Inv, Read
  PROVE  Inv'
<1>1. /\ stage = "written" /\ stage' = "read" /\ got' = UnmarshalMessage(raw)
      /\ way' = way /\ sent' = sent /\ raw' = raw
  BY DEF Read
<1> QED
  BY <1>1 DEF Inv, OnItsWay, Taken, PassedOn

\* What a Reader gives an application is a message that it may write, or one of
\* which it knows nothing.
LEMMA GotRead ==
  ASSUME AmfFaithful, Inv, stage = "read"
  PROVE  got \in Readable(Writable) \cup {Refused, Undocumented}
<1>1. raw \in RawMessages /\ got = UnmarshalMessage(raw)
  BY DEF Inv, OnItsWay, Taken
<1> QED
  BY <1>1, ReadMessage, Zenon

LEMMA InvRepublish ==
  ASSUME AmfFaithful, Inv, Republish
  PROVE  Inv'
<1>1. /\ stage = "read" /\ got # Refused /\ got.kind # "UserControlUndocumented"
      /\ raw' = MarshalMessage(got) /\ reread' = UnmarshalMessage(raw')
      /\ stage' = "republished" /\ got' = got
  BY DEF Republish
<1>2. got # Undocumented
  <2>1. Undocumented.kind = "UserControlUndocumented"
    BY DEF Undocumented
  <2> QED
    BY <1>1, <2>1, Zenon
<1>3. got \in Readable(Writable)
  BY <1>1, <1>2, GotRead, Zenon
<1> QED
  BY <1>1, <1>3 DEF Inv, OnItsWay, Taken, PassedOn

LEMMA Kept ==
  ASSUME AmfFaithful
  PROVE  Inv /\ [Next]_vars => Inv'
<1> SUFFICES ASSUME Inv, [Next]_vars PROVE Inv'
  OBVIOUS
<1>1. CASE UNCHANGED vars
  BY <1>1 DEF vars, Inv, OnItsWay, Taken, PassedOn
<1>2. CASE Next
  BY <1>2, InvWrite, InvCut, InvAlter, InvRead, InvRepublish, Zenon DEF Next
<1> QED
  BY <1>1, <1>2

-----------------------------------------------------------------------------
(* What the runs check.                                                    *)

\* A message written by a Writer of this library is read by a Reader as it was
\* (marshal and unmarshal of every message type of pkg/message).
THEOREM RoundTripHolds ==
  ASSUME AmfFaithful
  PROVE  Spec => []RoundTrip
<1>1. Inv => RoundTrip
  <2> SUFFICES ASSUME Inv, stage = "read", way = "ours" PROVE got = AsRead(sent)
    BY DEF RoundTrip
  <2>1. sent \in Messages /\ raw = MarshalMessage(sent) /\ got = UnmarshalMessage(raw)
    BY DEF Inv, OnItsWay, Taken
  <2>2. Delivered(sent)
    BY <2>1, MessagesAre, Delivery, Zenon
  <2> QED
    BY <2>1, <2>2, Zenon DEF Delivered
<1> QED
  BY <1>1, InvInit, Kept, PTL DEF Spec

\* What a Reader has accepted from any other program, the next Reader makes the same
\* of, once a Writer has passed it on (Reader.Read, then Writer.Write).
THEOREM RepublishedHolds ==
  ASSUME AmfFaithful
  PROVE  Spec => []Republished
<1>1. Inv => Republished
  <2> SUFFICES ASSUME Inv, stage = "republished" PROVE reread = got
    BY DEF Republished
  <2>1. got \in Writable /\ AsRead(got) = got /\ reread = UnmarshalMessage(MarshalMessage(got))
    BY Zenon DEF Inv, PassedOn, Readable
  <2>2. Delivered(got)
    BY <2>1, Delivery, Zenon
  <2> QED
    BY <2>1, <2>2, Zenon DEF Delivered
<1> QED
  BY <1>1, InvInit, Kept, PTL DEF Spec

\* Of a body that lacks its end a Reader makes the message without the end of what
\* comes last, or nothing (the length checks of every unmarshal).
THEOREM CutShortHolds ==
  ASSUME AmfFaithful
  PROVE  Spec => []CutShort
<1>1. Inv => CutShort
  <2> SUFFICES ASSUME Inv, stage = "read", way = "cut" PROVE Lacking(got, raw, sent)
    BY Zenon DEF CutShort, Lacking
  <2>1. sent \in Messages /\ raw \in Cuts(sent) /\ got = UnmarshalMessage(raw)
    BY DEF Inv, OnItsWay, Taken
  <2>2. Delivered(sent)
    BY <2>1, MessagesAre, Delivery, Zenon
  <2>3. PICK n \in 0..(Len(MarshalMessage(sent).body) - 1) :
          raw = [MarshalMessage(sent) EXCEPT !.body = SubSeq(MarshalMessage(sent).body, 1, n)]
    BY <2>1, Zenon DEF Cuts
  <2> QED
    BY <2>1, <2>2, <2>3, Zenon DEF Delivered
<1> QED
  BY <1>1, InvInit, Kept, PTL DEF Spec

-----------------------------------------------------------------------------
(* Configurations: what was found in one is there.                         *)

LEMMA FoundH264 ==
  ASSUME NEW config, AVCConfigFound(config)
  PROVE  HasH264Parameters(config)
<1> DEFINE avcc == AVCConfigs[config[1]]
<1>1. H264FindParams(avcc)
  BY Zenon DEF AVCConfigFound
<1> HIDE DEF avcc
<1>2. \A sizes \in {avcc.sps, avcc.pps} : Len(sizes) = 1 /\ sizes[1] > 0
  BY <1>1, Zenon DEF H264FindParams
<1>3. ASSUME NEW sizes, Len(sizes) = 1, sizes[1] > 0
      PROVE  HasFirst(sizes)
  <2>1. Len(<<>>) # 1
    OBVIOUS
  <2> QED
    BY <1>3, <2>1, Zenon DEF HasFirst
<1>4. HasFirst(avcc.sps) /\ HasFirst(avcc.pps)
  BY <1>2, <1>3, Zenon
<1> QED
  BY <1>4, Zenon DEF HasH264Parameters, avcc

LEMMA FoundH265 ==
  ASSUME NEW config, HEVCConfigFound(config)
  PROVE  HasH265Parameters(config)
<1> DEFINE hvcc == HEVCConfigs[config[1]]
<1>1. H265FindParams(hvcc)
  BY Zenon DEF HEVCConfigFound
<1> HIDE DEF hvcc
<1>2. ASSUME NEW sizes, Len(sizes) = 1, sizes[1] > 0
      PROVE  HasFirst(sizes)
  <2>1. Len(<<>>) # 1
    OBVIOUS
  <2> QED
    BY <1>2, <2>1, Zenon DEF HasFirst
<1>3. ASSUME NEW type \in {VPS, SPS, PPS}
      PROVE  \E i \in DOMAIN hvcc : LET arr == hvcc[i] IN arr.type = type /\ HasFirst(arr.sizes)
  <2>1. PICK i \in DOMAIN hvcc :
          /\ ArraysOf(hvcc, type) = {i}
          /\ Len(hvcc[i].sizes) = 1 /\ hvcc[i].sizes[1] > 0
    BY <1>1, Zenon DEF H265FindParams
  <2>2. hvcc[i].type = type
    BY <2>1, Zenon DEF ArraysOf
  <2>3. HasFirst(hvcc[i].sizes)
    BY <1>2, <2>1, Zenon
  <2> QED
    BY <2>2, <2>3, Zenon
<1> QED
  BY <1>3, Zenon DEF HasH265Parameters, hvcc

\* What the application is promised of one message.
Complete(m) ==
  /\ m.kind = "Video" /\ m.config # <<>> =>
       IF m.codec = CodecH264 THEN HasH264Parameters(m.config) ELSE HasH265Parameters(m.config)
  /\ m.kind = "VideoExSequenceStart" =>
       /\ m.fourCC = FourCCAVC => HasH264Parameters(m.config)
       /\ m.fourCC = FourCCHEVC => HasH265Parameters(m.config)

LEMMA CompleteVideo ==
  ASSUME NEW m \in Videos
  PROVE  Complete(m)
<1>1. m.kind # "VideoExSequenceStart"
  BY DEF Videos
<1>2. ASSUME m.config # <<>>
      PROVE  IF m.codec = CodecH264 THEN HasH264Parameters(m.config) ELSE HasH265Parameters(m.config)
  <2>1. m.frameType # Command
    BY <1>2, Zenon DEF Videos
  <2>2. VideoHolds(m.codec, PacketTypeOf(m), m.config, m.au)
    BY <2>1, FrameAsRead
  <2>3. \/ m.codec = CodecH264 /\ AVCConfigFound(m.config)
        \/ m.codec = CodecH265 /\ HEVCConfigFound(m.config)
    BY <1>2, <2>2, Zenon DEF VideoHolds
  <2>4. CodecH264 # CodecH265
    BY DEF CodecH264, CodecH265
  <2> QED
    BY <2>3, <2>4, FoundH264, FoundH265, Zenon
<1> QED
  BY <1>1, <1>2, Zenon DEF Complete

LEMMA CompleteStart ==
  ASSUME NEW m \in VideoExSequenceStarts
  PROVE  Complete(m)
<1>1. m.kind # "Video"
  BY DEF VideoExSequenceStarts
<1>2. \/ m.fourCC \in {FourCCAV1, FourCCVP9}
      \/ m.fourCC = FourCCHEVC /\ HEVCConfigFound(m.config)
      \/ m.fourCC = FourCCAVC /\ AVCConfigFound(m.config)
  BY Zenon DEF VideoExSequenceStarts
<1>3. FourCCAVC \notin {FourCCAV1, FourCCVP9, FourCCHEVC} /\ FourCCHEVC \notin {FourCCAV1, FourCCVP9, FourCCAVC}
  BY DEF FourCCAV1, FourCCVP9, FourCCHEVC, FourCCAVC
<1>4. m.fourCC = FourCCAVC => HasH264Parameters(m.config)
  BY <1>2, <1>3, FoundH264, Zenon
<1>5. m.fourCC = FourCCHEVC => HasH265Parameters(m.config)
  BY <1>2, <1>3, FoundH265, Zenon
<1> QED
  BY <1>1, <1>4, <1>5, Zenon DEF Complete

\* The other kinds of messages hold no such configuration, and but two wrap no message.
LEMMA OtherKinds ==
  /\ \A m \in Plainly \ VideoExSequenceStarts : m.kind # "VideoExSequenceStart"
  /\ \A m \in Writable \ (AudioExMultitracks \cup VideoExMultitracks) : "wrapped" \notin DOMAIN m
  /\ \A m \in AudioExMultitracks \cup VideoExMultitracks : m.wrapped \in AudioExs \cup VideoExs
<1>1. \A m \in Uint32Messages \cup UserControls \cup SetPeerBandwidths \cup SetBufferLengths :
        m.kind # "VideoExSequenceStart" /\ "wrapped" \notin DOMAIN m
  BY Kinds DEF Uint32Messages, UserControls, SetPeerBandwidths, SetBufferLengths
<1>2. \A m \in CommandMessages \cup DataMessages : m.kind # "VideoExSequenceStart" /\ "wrapped" \notin DOMAIN m
  BY DEF CommandMessages, DataMessages
<1>3. \A m \in Audios \cup Videos : m.kind # "VideoExSequenceStart" /\ "wrapped" \notin DOMAIN m
  <2>1. \A m \in Audios : m.kind # "VideoExSequenceStart" /\ "wrapped" \notin DOMAIN m
    BY DEF Audios
  <2>2. \A m \in Videos : m.kind # "VideoExSequenceStart" /\ "wrapped" \notin DOMAIN m
    BY DEF Videos
  <2> QED
    BY <2>1, <2>2
<1>4. \A m \in AudioExs : m.kind # "VideoExSequenceStart" /\ "wrapped" \notin DOMAIN m
  BY DEF AudioExs, AudioExSequenceStarts, AudioExCodedFrames, AudioExSequenceEnds, AudioExMultichannelConfigs
<1>5. \A m \in VideoExCodedFrames \cup VideoExFramesX \cup VideoExSequenceEnds :
        m.kind # "VideoExSequenceStart" /\ "wrapped" \notin DOMAIN m
  BY DEF VideoExCodedFrames, VideoExFramesX, VideoExSequenceEnds
<1>6. \A m \in VideoExSequenceStarts : "wrapped" \notin DOMAIN m
  BY DEF VideoExSequenceStarts
<1>7. \A m \in VideoExMetadatas : m.kind # "VideoExSequenceStart" /\ "wrapped" \notin DOMAIN m
  BY DEF VideoExMetadatas
<1>8. \A m \in AudioExMultitracks \cup VideoExMultitracks :
        m.kind # "VideoExSequenceStart" /\ m.wrapped \in AudioExs \cup VideoExs
  BY DEF AudioExMultitracks, VideoExMultitracks
<1>9. \A m \in Plainly \ VideoExSequenceStarts : m.kind # "VideoExSequenceStart"
  BY <1>1, <1>2, <1>3, <1>4, <1>5, <1>7, <1>8, Zenon DEF Plainly, VideoExs
<1>10. \A m \in Writable \ (AudioExMultitracks \cup VideoExMultitracks) : "wrapped" \notin DOMAIN m
  BY <1>1, <1>2, <1>3, <1>4, <1>5, <1>6, <1>7, Zenon DEF Writable, VideoExs
<1> QED
  BY <1>8, <1>9, <1>10

LEMMA CompleteWritable ==
  ASSUME NEW m \in Writable
  PROVE  Complete(m)
<1>1. CASE m \in Videos
  BY <1>1, CompleteVideo
<1>2. CASE m \in VideoExSequenceStarts
  BY <1>2, CompleteStart
<1>3. CASE m \notin Videos /\ m \notin VideoExSequenceStarts
  <2>1. m \in Plainly \ VideoExSequenceStarts
    BY <1>3, Zenon DEF Writable, Plainly
  <2> QED
    BY <2>1, PlainKinds, OtherKinds, Zenon DEF Complete
<1> QED
  BY <1>1, <1>2, <1>3

\* Every H264 or H265 configuration that reaches an application has its parameter
\* sets (h264FindParams and h265FindParams, in legacy, extended and multitrack
\* messages), whoever encoded it.
THEOREM ConfigsAreComplete ==
  ASSUME AmfFaithful
  PROVE  Spec => []ConfigsComplete
<1>1. Inv => ConfigsComplete
  <2> SUFFICES ASSUME Inv, stage \in {"read", "republished"},
                      NEW m \in {got} \cup (IF "wrapped" \in DOMAIN got THEN {got.wrapped} ELSE {})
               PROVE  Complete(m)
    BY Zenon DEF ConfigsComplete, Complete
  <2>1. got \in Writable \cup {Refused, Undocumented}
    <3>1. stage = "read" => got \in Readable(Writable) \cup {Refused, Undocumented}
      BY GotRead
    <3>2. stage = "republished" => got \in Readable(Writable)
      BY DEF Inv, PassedOn
    <3> QED
      BY <3>1, <3>2, Zenon DEF Readable
  <2>2. CASE got \in {Refused, Undocumented}
    <3>1. "wrapped" \notin DOMAIN got /\ got.kind \notin {"Video", "VideoExSequenceStart"}
      BY <2>2 DEF Refused, Undocumented
    <3> QED
      BY <3>1, Zenon DEF Complete
  <2>3. CASE got \in Writable
    <3>1. CASE m = got
      BY <2>3, <3>1, CompleteWritable
    <3>2. CASE m # got
      <4>1. "wrapped" \in DOMAIN got /\ m = got.wrapped
        BY <3>2, Zenon
      <4>2. m \in AudioExs \cup VideoExs
        BY <2>3, <4>1, OtherKinds, Zenon
      <4>3. m \in Writable
        BY <4>2, Zenon DEF Writable
      <4> QED
        BY <4>3, CompleteWritable
    <3> QED
      BY <3>1, <3>2
  <2> QED
    BY <2>1, <2>2, <2>3
<1> QED
  BY <1>1, InvInit, Kept, PTL DEF Spec
===============================================================================
