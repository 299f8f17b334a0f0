---------------------------- MODULE Publish_proofs ----------------------------
(***************************************************************************)
(* Proofs about TrackReader and about Publish, which extends it.           *)
(*                                                                         *)
(* TrackReader, for any peer and any limits: types; that what is read      *)
(* reaches the application completely and in order; that an access unit is *)
(* of one instant and has the SEI sent before it; and that a message is    *)
(* refused for want of its track only when nothing that was analyzed       *)
(* announced it.                                                           *)
(*                                                                         *)
(* Publish: what the callbacks of a Reader are given is what the           *)
(* application of the Writer wrote, and what the Reader refuses of it has  *)
(* a cause that the application of the Writer gave, for any tracks, as     *)
(* long as their ids fit in a byte, and any frames.                        *)
(***************************************************************************)
EXTENDS Publish, FiniteSetTheorems, TLAPS

(***************************************************************************)
(* Sequences.                                                              *)
(***************************************************************************)
LEMMA LargerSet ==
  ASSUME NEW S, NEW T, S \subseteq T, NEW q \in Seq(S)
  PROVE  q \in Seq(T)
OBVIOUS

\* What Append adds and leaves.
LEMMA Appended ==
  ASSUME NEW S, NEW q \in Seq(S), NEW x \in S
  PROVE  /\ Append(q, x) \in Seq(S) /\ Len(q) \in Nat /\ Len(Append(q, x)) = Len(q) + 1
         /\ Append(q, x) # <<>> /\ Append(q, x)[Len(q) + 1] = x
         /\ \A i \in 1..Len(q) : Append(q, x)[i] = q[i]
         /\ DOMAIN Append(q, x) = 1..(Len(q) + 1)
<1>1. /\ Append(q, x) \in Seq(S) /\ Len(q) \in Nat /\ Len(Append(q, x)) = Len(q) + 1
      /\ Append(q, x)[Len(q) + 1] = x
      /\ \A i \in 1..Len(q) : Append(q, x)[i] = q[i]
      /\ DOMAIN Append(q, x) = 1..(Len(q) + 1)
  OBVIOUS
<1>2. Len(Append(q, x)) # 0 /\ Len(<<>>) = 0
  BY <1>1
<1> QED
  BY <1>1, <1>2

\* What Head and Tail are of.
LEMMA Rest ==
  ASSUME NEW S, NEW q \in Seq(S), q # <<>>
  PROVE  /\ Head(q) \in S /\ Tail(q) \in Seq(S) /\ Len(q) \in Nat
         /\ Len(Tail(q)) = Len(q) - 1
OBVIOUS

(***************************************************************************)
(* Access units.                                                           *)
(***************************************************************************)
Units == [time : Int \X Int, of : Seq(Nat)]
TrackType == [out : Seq(Units), held : Units]

\* The messages that unit u is made of have its time, in the record rec.
Fits(u, rec) ==
  \A j \in DOMAIN u.of : u.of[j] \in 1..Len(rec) /\ Time(rec[u.of[j]]) = u.time

GoodTrack(tr, rec) ==
  /\ tr \in TrackType
  /\ Len(tr.held.of) <= MaxUnits
  /\ Fits(tr.held, rec)
  /\ \A i \in DOMAIN tr.out : Fits(tr.out[i], rec)

\* Nothing held fits any record.
LEMMA NoUnitFits == \A rec : NoUnit \in Units /\ Fits(NoUnit, rec) /\ NoUnit.of = <<>>
BY DEF NoUnit, Units, Fits

LEMMA MessageTime ==
  ASSUME NEW m \in Messages
  PROVE  Time(m) \in Int \X Int
BY TrackReaderAssumption DEF Time

\* A unit with one more message of its time.
LEMMA FitsMore ==
  ASSUME NEW rec \in Seq(Messages), NEW n \in 1..Len(rec), NEW u \in Units, Fits(u, rec),
         u.of = <<>> \/ u.time = Time(rec[n])
  PROVE  /\ Unit(Time(rec[n]), Append(u.of, n)) \in Units
         /\ Fits(Unit(Time(rec[n]), Append(u.of, n)), rec)
         /\ Len(Append(u.of, n)) = Len(u.of) + 1
<1> DEFINE q == u.of
           t == Time(rec[n])
<1>1. q \in Seq(Nat) /\ n \in Nat /\ t \in Int \X Int
  BY MessageTime DEF Units
<1>2. \A j \in DOMAIN q : q[j] \in 1..Len(rec) /\ Time(rec[q[j]]) = t
  BY DEF Fits
<1> HIDE DEF q, t
<1>3. /\ Append(q, n) \in Seq(Nat) /\ Len(q) \in Nat /\ Len(Append(q, n)) = Len(q) + 1
      /\ Append(q, n)[Len(q) + 1] = n /\ \A i \in 1..Len(q) : Append(q, n)[i] = q[i]
      /\ DOMAIN Append(q, n) = 1..(Len(q) + 1)
  BY <1>1, Appended
<1>4. ASSUME NEW j \in DOMAIN Append(q, n)
      PROVE  Append(q, n)[j] \in 1..Len(rec) /\ Time(rec[Append(q, n)[j]]) = t
  <2>1. CASE j = Len(q) + 1
    BY <1>3, <2>1 DEF t
  <2>2. CASE j # Len(q) + 1
    <3>1. j \in 1..Len(q) /\ j \in DOMAIN q
      BY <1>1, <1>3, <2>2
    <3> QED
      BY <1>2, <1>3, <3>1
  <2> QED
    BY <2>1, <2>2
<1>5. Unit(t, Append(q, n)) \in Units /\ Fits(Unit(t, Append(q, n)), rec)
  BY <1>1, <1>3, <1>4 DEF Unit, Units, Fits
<1> QED
  BY <1>3, <1>5 DEF q, t

\* A unit of one message.
LEMMA FitsOne ==
  ASSUME NEW rec \in Seq(Messages), NEW n \in 1..Len(rec)
  PROVE  /\ Unit(Time(rec[n]), <<n>>) \in Units
         /\ Fits(Unit(Time(rec[n]), <<n>>), rec)
<1>1. Append(NoUnit.of, n) = <<n>>
  BY DEF NoUnit
<1> QED
  BY <1>1, FitsMore, NoUnitFits

\* A longer record has the same messages.
LEMMA FitsLonger ==
  ASSUME NEW rec \in Seq(Messages), NEW m \in Messages, NEW u, Fits(u, rec)
  PROVE  Fits(u, Append(rec, m))
BY Appended DEF Fits

\* So a track stays good when a message comes.
LEMMA GoodLonger ==
  ASSUME NEW rec \in Seq(Messages), NEW m \in Messages, NEW tr, GoodTrack(tr, rec)
  PROVE  GoodTrack(tr, Append(rec, m))
BY FitsLonger DEF GoodTrack

(***************************************************************************)
(* The callbacks.                                                          *)
(***************************************************************************)
\* A unit that fits may be given, whether or not what is held goes with it.
LEMMA GiveGood ==
  ASSUME NEW rec, NEW tr, GoodTrack(tr, rec), NEW u \in Units, Fits(u, rec)
  PROVE  /\ GoodTrack(Give(tr, u), rec)
         /\ GoodTrack([Give(tr, u) EXCEPT !.held = NoUnit], rec)
<1>1. tr.out \in Seq(Units) /\ tr.held \in Units
  BY DEF GoodTrack, TrackType
<1>2. /\ Give(tr, u).out = Append(tr.out, u) /\ Give(tr, u).held = tr.held
      /\ Append(tr.out, u) \in Seq(Units) /\ Give(tr, u) \in TrackType
  BY <1>1, Appended DEF GoodTrack, TrackType, Give
<1>3. \A i \in DOMAIN Append(tr.out, u) : Fits(Append(tr.out, u)[i], rec)
  <2> TAKE i \in DOMAIN Append(tr.out, u)
  <2>1. i \in 1..(Len(tr.out) + 1) /\ Len(tr.out) \in Nat /\ DOMAIN tr.out = 1..Len(tr.out)
    BY <1>1, Appended
  <2>2. CASE i = Len(tr.out) + 1
    BY <1>1, <2>2, Appended
  <2>3. CASE i # Len(tr.out) + 1
    <3>1. i \in 1..Len(tr.out)
      BY <2>1, <2>3
    <3> QED
      BY <1>1, <2>1, <3>1, Appended DEF GoodTrack
  <2> QED
    BY <2>2, <2>3
<1>4. GoodTrack(Give(tr, u), rec)
  BY <1>2, <1>3 DEF GoodTrack
<1> DEFINE e == [Give(tr, u) EXCEPT !.held = NoUnit]
<1>5. e.out = Append(tr.out, u) /\ e.held = NoUnit /\ e \in TrackType
  BY <1>2, NoUnitFits DEF TrackType
<1> HIDE DEF e
<1>6. Len(NoUnit.of) <= MaxUnits
  BY TrackReaderAssumption DEF NoUnit
<1>7. GoodTrack(e, rec)
  BY <1>3, <1>5, <1>6, NoUnitFits DEF GoodTrack
<1> QED
  BY <1>4, <1>7 DEF e

\* After a flush nothing is held.
LEMMA FlushGood ==
  ASSUME NEW rec, NEW tr, GoodTrack(tr, rec)
  PROVE  GoodTrack(FlushPending(tr), rec) /\ FlushPending(tr).held.of = <<>>
<1>1. CASE tr.held.of # <<>>
  <2>1. FlushPending(tr) = [Give(tr, tr.held) EXCEPT !.held = NoUnit]
    BY <1>1 DEF FlushPending
  <2>2. tr.held \in Units /\ Fits(tr.held, rec)
    BY DEF GoodTrack, TrackType
  <2>3. FlushPending(tr).held = NoUnit
    BY <2>1 DEF Give, GoodTrack, TrackType
  <2> QED
    BY <2>1, <2>2, <2>3, GiveGood, NoUnitFits
<1>2. CASE tr.held.of = <<>>
  BY <1>2 DEF FlushPending
<1> QED
  BY <1>1, <1>2

\* Holding a SEI, and joining what is held to an access unit, keep the instant.
LEMMA HoldGood ==
  ASSUME NEW rec \in Seq(Messages), NEW n \in 1..Len(rec), NEW tr, GoodTrack(tr, rec)
  PROVE  GoodTrack(Hold(tr, rec[n], n).tr, rec)
<1> DEFINE m == rec[n]
           t == IF tr.held.of # <<>> /\ tr.held.time # Time(m) THEN FlushPending(tr) ELSE tr
           u == Unit(Time(m), Append(t.held.of, n))
<1>1. GoodTrack(t, rec) /\ (t.held.of = <<>> \/ t.held.time = Time(m))
  BY FlushGood
<1>2. t.held \in Units /\ Fits(t.held, rec) /\ Len(t.held.of) \in Nat
  BY <1>1 DEF GoodTrack, TrackType, Units
<1>3. u \in Units /\ Fits(u, rec) /\ Len(Append(t.held.of, n)) = Len(t.held.of) + 1
  BY <1>1, <1>2, FitsMore
<1>4. Hold(tr, m, n) = IF Len(t.held.of) + 1 > MaxUnits THEN Refused(t)
                                                       ELSE Done([t EXCEPT !.held = u])
  <2>1. t \in TrackType
    BY <1>1 DEF GoodTrack
  <2> QED
    BY <2>1 DEF Hold, Unit, TrackType
<1> HIDE DEF t
<1>5. CASE Len(t.held.of) + 1 > MaxUnits
  BY <1>1, <1>4, <1>5 DEF Refused
<1>6. CASE ~(Len(t.held.of) + 1 > MaxUnits)
  <2>1. u.of = Append(t.held.of, n)
    BY DEF Unit
  <2> HIDE DEF u
  <2> DEFINE e == [t EXCEPT !.held = u]
  <2>2. e \in TrackType /\ e.held = u /\ e.out = t.out
    BY <1>1, <1>3 DEF GoodTrack, TrackType
  <2>3. Len(u.of) <= MaxUnits
    BY <1>2, <1>3, <1>6, <2>1, TrackReaderAssumption
  <2> HIDE DEF e
  <2>4. GoodTrack(e, rec)
    BY <1>1, <1>3, <2>2, <2>3 DEF GoodTrack
  <2> QED
    BY <1>4, <1>6, <2>4 DEF Done, e
<1> QED
  BY <1>5, <1>6

LEMMA JoinGood ==
  ASSUME NEW rec \in Seq(Messages), NEW n \in 1..Len(rec), NEW tr, GoodTrack(tr, rec)
  PROVE  GoodTrack(Join(tr, rec[n], n).tr, rec)
<1> DEFINE m == rec[n]
           u == Unit(Time(m), Append(tr.held.of, n))
           v == Unit(Time(m), <<n>>)
<1>1. tr.held \in Units /\ Fits(tr.held, rec)
  BY DEF GoodTrack, TrackType
<1>2. CASE tr.held.of # <<>> /\ tr.held.time = Time(m)
  <2>1. GoodTrack([Give(tr, u) EXCEPT !.held = NoUnit], rec)
    <3>1. u \in Units /\ Fits(u, rec)
      BY <1>1, <1>2, FitsMore
    <3> HIDE DEF u
    <3> QED
      BY <3>1, GiveGood
  <2> QED
    BY <1>2, <2>1 DEF Join, Refused, Done
<1>3. CASE ~(tr.held.of # <<>> /\ tr.held.time = Time(m))
  <2>1. GoodTrack(Give(FlushPending(tr), v), rec)
    <3>1. v \in Units /\ Fits(v, rec)
      BY FitsOne
    <3>2. GoodTrack(FlushPending(tr), rec)
      BY FlushGood
    <3> HIDE DEF v
    <3> QED
      BY <3>1, <3>2, GiveGood
  <2>2. Join(tr, m, n) = Done(Give(FlushPending(tr), v))
    BY <1>3 DEF Join
  <2> QED
    BY <2>1, <2>2 DEF Done
<1> QED
  BY <1>2, <1>3

Errors == {"none", "limit", "undecodable", "panic"}

\* Every callback leaves its track good, whatever the message and the codec.
LEMMA CallbackGood ==
  ASSUME NEW rec \in Seq(Messages), NEW n \in 1..Len(rec), NEW tr, GoodTrack(tr, rec),
         NEW codec
  PROVE  /\ GoodTrack(Callback(codec, tr, rec[n], n).tr, rec)
         /\ Callback(codec, tr, rec[n], n).err \in Errors
<1> DEFINE m == rec[n]
           u == Unit(Time(m), <<n>>)
<1>1. u \in Units /\ Fits(u, rec)
  BY FitsOne
<1>2. GoodTrack(FlushPending(tr), rec)
  BY FlushGood
<1>3. GoodTrack(Give(tr, u), rec) /\ GoodTrack(Give(FlushPending(tr), u), rec)
  <2> HIDE DEF u
  <2> QED
    BY <1>1, <1>2, GiveGood
<1>4. /\ GoodTrack(Hold(tr, m, n).tr, rec) /\ Hold(tr, m, n).err \in Errors
      /\ GoodTrack(Join(tr, m, n).tr, rec) /\ Join(tr, m, n).err \in Errors
  <2>1. Hold(tr, m, n).err \in Errors /\ Join(tr, m, n).err \in Errors
    BY DEF Hold, Join, Refused, Done, Errors
  <2> QED
    BY <2>1, HoldGood, JoinGood
<1>5. GoodTrack(OnDataH264(tr, m, n).tr, rec) /\ OnDataH264(tr, m, n).err \in Errors
  BY <1>2, <1>3, <1>4 DEF OnDataH264, Done, Undecodable, Errors
<1>6. GoodTrack(OnDataH265(tr, m, n).tr, rec) /\ OnDataH265(tr, m, n).err \in Errors
  BY <1>3 DEF OnDataH265, Done, Undecodable, Errors
<1>7. GoodTrack(OnDataFrames(tr, m, n).tr, rec) /\ OnDataFrames(tr, m, n).err \in Errors
  BY <1>3 DEF OnDataFrames, Done, Errors
<1>8. GoodTrack(OnDataAV1(tr, m, n).tr, rec) /\ OnDataAV1(tr, m, n).err \in Errors
  BY <1>7 DEF OnDataAV1, Undecodable, Errors
<1>9. GoodTrack(OnDataSamples(tr, m, n).tr, rec) /\ OnDataSamples(tr, m, n).err \in Errors
  BY <1>3 DEF OnDataSamples, Done, Errors
<1>10. GoodTrack(OnDataMPEG4Audio(tr, m, n).tr, rec) /\ OnDataMPEG4Audio(tr, m, n).err \in Errors
  BY <1>3 DEF OnDataMPEG4Audio, Done, Errors
<1>11. GoodTrack(OnDataMPEG1Audio(tr, m, n).tr, rec) /\ OnDataMPEG1Audio(tr, m, n).err \in Errors
  BY <1>3 DEF OnDataMPEG1Audio, Done, Errors
<1> HIDE DEF m
<1>12. /\ GoodTrack(Callback(codec, tr, m, n).tr, rec)
       /\ Callback(codec, tr, m, n).err \in Errors
  BY <1>5, <1>6, <1>7, <1>8, <1>9, <1>10, <1>11 DEF Callback
<1> QED
  BY <1>12 DEF m

(***************************************************************************)
(* The analysis: what is up stays up, and a message that announces a track *)
(* makes it be up, or fails.                                               *)
(***************************************************************************)
VideoMap == [TrackIDs -> VideoCodecs \cup {"absent", "nil"}]
AudioMap == [TrackIDs -> AudioCodecs \cup {"absent", "nil"}]
FoundType ==
  [video : VideoMap, audio : AudioMap, starts : [TrackIDs -> Codecs \cup {"none"}],
   first : BOOLEAN, start : Int, cur : Int, failed : BOOLEAN]

AnnouncesVideo(m) == m.kind = "videoStart" \/ (m.kind = "video" /\ m.packet = "config")
AnnouncesAudio(m) ==
  m.kind = "audioFrames" \/ (m.kind = "audio" /\ (m.codec = "aac" => m.packet = "config"))

Up(f, m) ==
  /\ AnnouncesVideo(m) => IsUp(f.video, m.id)
  /\ AnnouncesAudio(m) => IsUp(f.audio, m.id)

\* Every track of f is one of g.
StaysUp(f, g) ==
  \A id \in TrackIDs : /\ IsUp(f.video, id) => IsUp(g.video, id)
                       /\ IsUp(f.audio, id) => IsUp(g.audio, id)

\* The assumption, field by field.
LEMMA MessageFields ==
  ASSUME NEW m \in Messages
  PROVE  /\ m.kind \in Kinds /\ m.id \in TrackIDs /\ m.codec \in Codecs
         /\ m.dts \in Int /\ m.pts \in Int /\ 0 \in TrackIDs
         /\ m.kind \in LegacyKinds => m.id = 0
         /\ m.kind \in VideoKinds => m.codec \in VideoCodecs
         /\ m.kind \in AudioKinds => m.codec \in AudioCodecs
BY TrackReaderAssumption

\* An absent or nil entry is not up.
LEMMA Absent == "absent" \notin Codecs /\ "nil" \notin Codecs /\ VideoCodecs \subseteq Codecs
                /\ AudioCodecs \subseteq Codecs
BY DEF Codecs, VideoCodecs, AudioCodecs

\* The clock leaves the tracks alone.
LEMMA ClockType ==
  ASSUME NEW f \in FoundType, NEW m \in Messages
  PROVE  /\ Clock(f, m) \in FoundType /\ Clock(f, m).video = f.video
         /\ Clock(f, m).audio = f.audio /\ Clock(f, m).starts = f.starts
         /\ Clock(f, m).failed = f.failed
BY MessageFields DEF Clock, FoundType

\* A nil entry takes the place of no track.
LEMMA NoticedType ==
  ASSUME NEW map, NEW m \in Messages, NEW S,
         map \in [TrackIDs -> S \cup {"absent", "nil"}]
  PROVE  /\ Noticed(map, m) \in [TrackIDs -> S \cup {"absent", "nil"}]
         /\ \A id \in TrackIDs : IsUp(map, id) => IsUp(Noticed(map, m), id)
BY MessageFields, Absent DEF Noticed, IsUp

\* One turn of readTracks on the messages of a video track.
LEMMA AnalyzedVideo ==
  ASSUME NEW f \in FoundType, NEW m \in Messages, m.kind \in VideoKinds
  PROVE  /\ Analyzed(f, m) \in FoundType
         /\ StaysUp(f, Analyzed(f, m))
         /\ ~Analyzed(f, m).failed => Up(Analyzed(f, m), m)
<1> USE MessageFields, Absent
<1>1. CASE m.kind = "video"
  <2> DEFINE c == Clock(f, m)
  <2>1. /\ c \in FoundType /\ c.video = f.video /\ c.audio = f.audio /\ c.failed = f.failed
        /\ m.id = 0
    BY <1>1, ClockType DEF LegacyKinds
  <2>2. Analyzed(f, m) = IF m.packet = "config" /\ ~IsUp(f.video, 0)
                         THEN [c EXCEPT !.video[0] = m.codec] ELSE c
    BY <1>1 DEF Analyzed, OnVideo
  <2> HIDE DEF c
  <2>3. CASE m.packet = "config" /\ ~IsUp(f.video, 0)
    <3> DEFINE g == [c EXCEPT !.video[0] = m.codec]
    <3>1. /\ g \in FoundType /\ g.video = [f.video EXCEPT ![0] = m.codec] /\ g.audio = f.audio
      BY <1>1, <2>1 DEF FoundType, VideoMap, VideoKinds
    <3> HIDE DEF g
    <3>2. StaysUp(f, g) /\ Up(g, m)
      BY <1>1, <2>1, <3>1 DEF StaysUp, Up, IsUp, FoundType, VideoMap, VideoKinds, AnnouncesVideo,
                              AnnouncesAudio
    <3> QED
      BY <2>2, <2>3, <3>1, <3>2 DEF g
  <2>4. CASE ~(m.packet = "config" /\ ~IsUp(f.video, 0))
    BY <1>1, <2>1, <2>2, <2>4 DEF StaysUp, Up, AnnouncesVideo, AnnouncesAudio
  <2> QED
    BY <2>3, <2>4
<1>2. CASE m.kind = "videoStart"
  <2>1. Analyzed(f, m) = IF IsUp(f.video, m.id) \/ (m.codec = "av1" /\ m.packet = "bad")
                         THEN [f EXCEPT !.failed = TRUE] ELSE [f EXCEPT !.video[m.id] = m.codec]
    BY <1>2 DEF Analyzed, OnVideoStart
  <2>2. CASE IsUp(f.video, m.id) \/ (m.codec = "av1" /\ m.packet = "bad")
    BY <2>1, <2>2 DEF FoundType, StaysUp
  <2>3. CASE ~(IsUp(f.video, m.id) \/ (m.codec = "av1" /\ m.packet = "bad"))
    <3> DEFINE g == [f EXCEPT !.video[m.id] = m.codec]
    <3>1. /\ g \in FoundType /\ g.video = [f.video EXCEPT ![m.id] = m.codec] /\ g.audio = f.audio
      BY <1>2 DEF FoundType, VideoMap, VideoKinds
    <3> HIDE DEF g
    <3>2. StaysUp(f, g) /\ Up(g, m)
      BY <1>2, <3>1 DEF StaysUp, Up, IsUp, FoundType, VideoMap, VideoKinds, AnnouncesVideo,
                        AnnouncesAudio
    <3> QED
      BY <2>1, <2>3, <3>1, <3>2 DEF g
  <2> QED
    BY <2>2, <2>3
<1>3. CASE m.kind = "videoFrames"
  <2> DEFINE c == Clock(f, m)
             v == Noticed(f.video, m)
  <2>1. /\ c \in FoundType /\ c.audio = f.audio
        /\ v \in VideoMap /\ \A id \in TrackIDs : IsUp(f.video, id) => IsUp(v, id)
    BY ClockType, NoticedType DEF FoundType, VideoMap
  <2>2. Analyzed(f, m) = [c EXCEPT !.video = v]
    BY <1>3 DEF Analyzed, OnVideoFrames
  <2> HIDE DEF c, v
  <2> QED
    BY <1>3, <2>1, <2>2 DEF FoundType, StaysUp, Up, AnnouncesVideo, AnnouncesAudio
<1>4. CASE m.kind = "videoEnd"
  <2> DEFINE v == Noticed(f.video, m)
  <2>1. v \in VideoMap /\ \A id \in TrackIDs : IsUp(f.video, id) => IsUp(v, id)
    BY NoticedType DEF FoundType, VideoMap
  <2>2. Analyzed(f, m) = [f EXCEPT !.video = v]
    BY <1>4 DEF Analyzed
  <2> HIDE DEF v
  <2> QED
    BY <1>4, <2>1, <2>2 DEF FoundType, StaysUp, Up, AnnouncesVideo, AnnouncesAudio
<1> QED
  BY <1>1, <1>2, <1>3, <1>4 DEF VideoKinds

\* One turn of readTracks on the messages of an audio track.
LEMMA AnalyzedAudio ==
  ASSUME NEW f \in FoundType, NEW m \in Messages, m.kind \in AudioKinds
  PROVE  /\ Analyzed(f, m) \in FoundType
         /\ StaysUp(f, Analyzed(f, m))
         /\ ~Analyzed(f, m).failed => Up(Analyzed(f, m), m)
<1> USE MessageFields, Absent
<1> DEFINE c == Clock(f, m)
           a == Noticed(f.audio, m)
<1>1. /\ c \in FoundType /\ c.video = f.video /\ c.audio = f.audio /\ c.failed = f.failed
  BY ClockType
<1>2. a \in AudioMap /\ \A id \in TrackIDs : IsUp(f.audio, id) => IsUp(a, id)
  BY NoticedType DEF FoundType, AudioMap
<1>3. CASE m.kind = "audio"
  <2>1. Analyzed(f, m) = IF ~IsUp(f.audio, 0) /\ (m.codec = "aac" => m.packet = "config")
                         THEN [c EXCEPT !.audio[0] = m.codec] ELSE c
    BY <1>3 DEF Analyzed, OnAudio
  <2>2. m.id = 0 /\ m.codec \in AudioCodecs
    BY <1>3 DEF LegacyKinds, AudioKinds
  <2> HIDE DEF c
  <2>3. CASE ~IsUp(f.audio, 0) /\ (m.codec = "aac" => m.packet = "config")
    <3> DEFINE g == [c EXCEPT !.audio[0] = m.codec]
    <3>1. /\ g \in FoundType /\ g.audio = [f.audio EXCEPT ![0] = m.codec] /\ g.video = f.video
      BY <1>1, <2>2 DEF FoundType, AudioMap
    <3> HIDE DEF g
    <3>2. StaysUp(f, g) /\ Up(g, m)
      BY <1>3, <2>2, <3>1 DEF StaysUp, Up, IsUp, FoundType, AudioMap, AnnouncesVideo,
                              AnnouncesAudio
    <3> QED
      BY <2>1, <2>3, <3>1, <3>2 DEF g
  <2>4. CASE ~(~IsUp(f.audio, 0) /\ (m.codec = "aac" => m.packet = "config"))
    BY <1>1, <1>3, <2>1, <2>2, <2>4 DEF StaysUp, Up, AnnouncesVideo, AnnouncesAudio
  <2> QED
    BY <2>3, <2>4
<1>4. CASE m.kind = "audioStart"
  <2> DEFINE g == [f EXCEPT !.audio = a]
  <2>1. Analyzed(f, m) = IF f.starts[m.id] # "none" THEN [g EXCEPT !.failed = TRUE]
                                                    ELSE [g EXCEPT !.starts[m.id] = m.codec]
    BY <1>4 DEF Analyzed, OnAudioStart
  <2> HIDE DEF a
  <2>2. g \in FoundType /\ g.video = f.video /\ g.audio = a
    BY <1>2 DEF FoundType
  <2> HIDE DEF g
  <2>3. Analyzed(f, m) \in FoundType /\ Analyzed(f, m).video = f.video /\ Analyzed(f, m).audio = a
    <3>1. CASE f.starts[m.id] # "none"
      BY <2>1, <2>2, <3>1 DEF FoundType
    <3>2. CASE f.starts[m.id] = "none"
      <4>1. [g EXCEPT !.starts[m.id] = m.codec] \in FoundType
        BY <2>2 DEF FoundType
      <4> QED
        BY <2>1, <2>2, <3>2, <4>1 DEF FoundType
    <3> QED
      BY <3>1, <3>2
  <2> QED
    BY <1>2, <1>4, <2>3 DEF StaysUp, Up, AnnouncesVideo, AnnouncesAudio
<1>5. CASE m.kind = "audioFrames"
  <2> DEFINE g == [c EXCEPT !.audio = a]
  <2>1. \/ Analyzed(f, m) = g /\ IsUp(f.audio, m.id)
        \/ Analyzed(f, m) = [g EXCEPT !.failed = TRUE]
        \/ Analyzed(f, m) = [g EXCEPT !.audio[m.id] = m.codec]
    <3>1. Analyzed(f, m) = OnAudioFrames(f, m)
      BY <1>5 DEF Analyzed
    <3>2. CASE IsUp(f.audio, m.id)
      <4>1. IsUp(g.audio, m.id)
        BY <1>1, <1>2, <3>2 DEF FoundType
      <4> QED
        BY <3>1, <3>2, <4>1 DEF OnAudioFrames
    <3>3. CASE ~IsUp(f.audio, m.id)
      BY <3>1, <3>3 DEF OnAudioFrames
    <3> QED
      BY <3>2, <3>3
  <2> HIDE DEF a, c
  <2>2. g \in FoundType /\ g.video = f.video /\ g.audio = a
    BY <1>1, <1>2 DEF FoundType
  <2> HIDE DEF g
  <2>3. m.codec \in AudioCodecs
    BY <1>5 DEF AudioKinds
  <2>4. CASE Analyzed(f, m) = g /\ IsUp(f.audio, m.id)
    BY <1>2, <1>5, <2>2, <2>4 DEF StaysUp, Up, AnnouncesVideo, AnnouncesAudio
  <2>5. CASE Analyzed(f, m) = [g EXCEPT !.failed = TRUE]
    BY <1>2, <2>2, <2>5 DEF FoundType, StaysUp
  <2>6. CASE Analyzed(f, m) = [g EXCEPT !.audio[m.id] = m.codec]
    <3> DEFINE h == Analyzed(f, m)
    <3>1. h \in FoundType /\ h.video = f.video /\ h.audio = [a EXCEPT ![m.id] = m.codec]
      BY <2>2, <2>3, <2>6 DEF FoundType, AudioMap
    <3> HIDE DEF h
    <3>2. StaysUp(f, h) /\ Up(h, m)
      BY <1>2, <1>5, <2>3, <3>1 DEF StaysUp, Up, IsUp, AudioMap, AnnouncesVideo, AnnouncesAudio
    <3> QED
      BY <3>1, <3>2 DEF h
  <2> QED
    BY <2>1, <2>4, <2>5, <2>6
<1>6. CASE m.kind = "audioEnd"
  <2>1. Analyzed(f, m) = [f EXCEPT !.audio = a]
    BY <1>6 DEF Analyzed
  <2> HIDE DEF a
  <2> QED
    BY <1>2, <1>6, <2>1 DEF FoundType, StaysUp, Up, AnnouncesVideo, AnnouncesAudio
<1> QED
  BY <1>3, <1>4, <1>5, <1>6 DEF AudioKinds

LEMMA AnalyzedKeeps ==
  ASSUME NEW f \in FoundType, NEW m \in Messages
  PROVE  /\ Analyzed(f, m) \in FoundType
         /\ StaysUp(f, Analyzed(f, m))
         /\ ~Analyzed(f, m).failed => Up(Analyzed(f, m), m)
<1>1. CASE m.kind \in VideoKinds
  BY <1>1, AnalyzedVideo
<1>2. CASE m.kind \in AudioKinds
  BY <1>2, AnalyzedAudio
<1>3. CASE m.kind \notin VideoKinds \cup AudioKinds
  BY <1>3 DEF Analyzed, StaysUp, Up, AnnouncesVideo, AnnouncesAudio, VideoKinds, AudioKinds
<1> QED
  BY <1>1, <1>2, <1>3

(***************************************************************************)
(* The inductive invariant.                                                *)
(***************************************************************************)
Phases == {"analyzing", "ready", "ended", "unpublished", "failed", "notSetUp",
           "limit", "undecodable", "panic"}

Types ==
  /\ phase \in Phases
  /\ received \in Seq(Messages)
  /\ entries \in Seq(1..Len(received)) /\ Len(entries) <= MaxRecordedSize
  /\ recorded \in 0..Len(received)
  /\ found \in FoundType
  /\ taken \in Seq(Nat)

\* What was given, and what is held, is of messages that came.
Given ==
  /\ tracks \in [Streams -> TrackType]
  /\ \A s \in Streams : GoodTrack(tracks[s], received)

\* All that was recorded is analyzed.
AnalyzedAll ==
  /\ phase = "analyzing" => recorded = Len(received)
  /\ phase # "failed" => \A i \in 1..recorded : Up(found, received[i])

MapOf(m) == IF m.kind \in {"video", "videoFrames"} THEN found.video ELSE found.audio

\* Why the last message was refused.
Refusal ==
  phase = "notSetUp" =>
    /\ Last(taken) \in 1..Len(received)
    /\ received[Last(taken)].kind \in LegacyKinds \cup FrameKinds
    /\ ~IsUp(MapOf(received[Last(taken)]), received[Last(taken)].id)

Inv == Types /\ Given /\ AnalyzedAll /\ Refusal

LEMMA InitInv == Init => Inv
<1> SUFFICES ASSUME Init PROVE Inv
  OBVIOUS
<1>1. \A S : <<>> \in Seq(S)
  OBVIOUS
<1>2. Len(<<>>) = 0 /\ 0 <= MaxRecordedSize /\ 0 <= MaxUnits
  BY TrackReaderAssumption
<1>3. found \in FoundType
  BY DEF Init, FoundType, VideoMap, AudioMap
<1>4. Types
  BY <1>1, <1>2, <1>3 DEF Init, Types, Phases
<1>5. \A rec : GoodTrack(NewTrack, rec)
  <2>1. NewTrack \in TrackType /\ NewTrack.out = <<>> /\ NewTrack.held = NoUnit
    BY <1>1, NoUnitFits DEF NewTrack, TrackType
  <2>2. DOMAIN <<>> = {}
    OBVIOUS
  <2> QED
    BY <1>2, <2>1, <2>2, NoUnitFits DEF GoodTrack, NoUnit
<1>6. Given
  BY <1>5 DEF Init, Given, GoodTrack
<1>7. AnalyzedAll /\ Refusal
  BY <1>2 DEF Init, AnalyzedAll, Refusal
<1> QED
  BY <1>4, <1>6, <1>7 DEF Inv

\* One more message has come.
LEMMA OneMore ==
  ASSUME Inv, NEW m \in Messages, received' = Append(received, m)
  PROVE  /\ received' \in Seq(Messages) /\ Len(received) \in Nat
         /\ Len(received') = Len(received) + 1 /\ received'[N] = m
         /\ \A i \in 1..Len(received) : received'[i] = received[i]
         /\ entries \in Seq(1..Len(received'))
         /\ N \in 1..Len(received')
         /\ \A s \in Streams : GoodTrack(tracks[s], received')
<1>1. /\ received' \in Seq(Messages) /\ Len(received) \in Nat
      /\ Len(received') = Len(received) + 1 /\ received'[Len(received) + 1] = m
      /\ \A i \in 1..Len(received) : received'[i] = received[i]
  BY Appended DEF Inv, Types
<1>2. entries \in Seq(1..Len(received'))
  <2>1. 1..Len(received) \subseteq 1..Len(received')
    BY <1>1
  <2> QED
    BY <2>1, LargerSet DEF Inv, Types
<1>3. \A s \in Streams : GoodTrack(tracks[s], received')
  BY GoodLonger DEF Inv, Types, Given
<1>4. Len(received) + 1 \in 1..Len(received')
  BY <1>1
<1> QED
  BY <1>1, <1>2, <1>3, <1>4 DEF N

LEMMA AnalyzeKeeps ==
  ASSUME Inv, NEW m \in Messages, Analyze(m)
  PROVE  Inv'
<1> DEFINE f == Analyzed(found, m)
<1>1. /\ phase = "analyzing" /\ received' = Append(received, m) /\ UNCHANGED <<tracks, taken>>
  BY DEF Analyze
<1>2. /\ received' \in Seq(Messages) /\ Len(received) \in Nat
      /\ Len(received') = Len(received) + 1 /\ received'[N] = m /\ N = Len(received')
      /\ \A i \in 1..Len(received) : received'[i] = received[i]
      /\ entries \in Seq(1..Len(received')) /\ N \in 1..Len(received')
  BY <1>1, OneMore DEF N
<1>3. Given'
  BY <1>1, OneMore DEF Inv, Given
<1>4. CASE RecordFull(entries) /\ phase' = "failed" /\ UNCHANGED <<entries, recorded, found>>
  <2>1. Types'
    BY <1>1, <1>2, <1>4 DEF Inv, Types, Phases
  <2>2. AnalyzedAll' /\ Refusal'
    BY <1>4 DEF AnalyzedAll, Refusal
  <2> QED
    BY <1>3, <2>1, <2>2 DEF Inv
<1>5. CASE /\ ~RecordFull(entries) /\ entries' = Append(entries, N) /\ recorded' = N
           /\ found' = f
           /\ phase' \in {"analyzing", "ready", "failed"}
           /\ phase' # "failed" => ~f.failed
  <2>1. f \in FoundType /\ StaysUp(found, f) /\ (~f.failed => Up(f, m))
    BY AnalyzedKeeps DEF Inv, Types
  <2> HIDE DEF f
  <2>2. /\ entries' \in Seq(1..Len(received')) /\ Len(entries') = Len(entries) + 1
        /\ Len(entries) \in Nat
    BY <1>2, <1>5, Appended
  <2>3. Len(entries') <= MaxRecordedSize
    BY <1>5, <2>2, TrackReaderAssumption DEF RecordFull
  <2>4. Types'
    BY <1>1, <1>2, <1>5, <2>1, <2>2, <2>3 DEF Inv, Types, Phases
  <2>5. ASSUME phase' # "failed", NEW i \in 1..recorded'
        PROVE  Up(found', received'[i])
    <3>1. CASE i = N
      BY <1>2, <1>5, <2>1, <2>5, <3>1
    <3>2. CASE i # N
      <4>1. i \in 1..Len(received) /\ recorded = Len(received)
        BY <1>1, <1>2, <1>5, <3>2 DEF Inv, AnalyzedAll
      <4>2. Up(found, received[i]) /\ received'[i] = received[i] /\ received[i] \in Messages
        BY <1>1, <1>2, <4>1 DEF Inv, AnalyzedAll, Types
      <4> QED
        BY <1>5, <2>1, <4>2, MessageFields DEF Up, StaysUp
    <3> QED
      BY <3>1, <3>2
  <2>6. AnalyzedAll'
    BY <1>2, <1>5, <2>5 DEF AnalyzedAll
  <2>7. Refusal'
    BY <1>5 DEF Refusal
  <2> QED
    BY <1>3, <2>4, <2>6, <2>7 DEF Inv
<1> QED
  BY <1>4, <1>5 DEF Analyze, Recorded

\* What Read does with message n, the record being rec.
LEMMA DispatchKeeps ==
  ASSUME Types, phase = "ready", NEW rec \in Seq(Messages), NEW n \in 1..Len(rec),
         tracks \in [Streams -> TrackType], \A s \in Streams : GoodTrack(tracks[s], rec),
         Dispatch(n, rec[n])
  PROVE  /\ tracks' \in [Streams -> TrackType]
         /\ \A s \in Streams : GoodTrack(tracks'[s], rec)
         /\ taken' \in Seq(Nat) /\ Last(taken') = n
         /\ phase' \in Phases \ {"analyzing", "failed", "ended"}
         /\ phase' = "notSetUp" => /\ rec[n].kind \in LegacyKinds \cup FrameKinds
                                   /\ ~IsUp(MapOf(rec[n]), rec[n].id)
         /\ phase' = "ready" /\ rec[n].kind \in LegacyKinds \cup FrameKinds =>
              IsUp(MapOf(rec[n]), rec[n].id)
<1> DEFINE m == rec[n]
           s == <<IF m.kind \in {"video", "videoFrames"} THEN "video" ELSE "audio", m.id>>
           map == IF s[1] = "video" THEN found.video ELSE found.audio
           res == Callback(map[m.id], tracks[s], m, n)
<1>1. m \in Messages /\ m.id \in TrackIDs
  BY MessageFields
<1>2. s \in Streams /\ map = MapOf(m)
  BY <1>1 DEF Streams, MapOf
<1>3. GoodTrack(res.tr, rec) /\ res.err \in Errors
  BY <1>2, CallbackGood
<1>4. taken' \in Seq(Nat) /\ Last(taken') = n
  <2>1. taken' = Append(taken, n) /\ taken \in Seq(Nat) /\ n \in Nat
    BY DEF Dispatch, Types
  <2> QED
    BY <2>1, Appended DEF Last
<1>5. \/ phase' = "unpublished" /\ UNCHANGED tracks
      \/ /\ m.kind \in LegacyKinds \cup FrameKinds /\ ~IsUp(map, m.id)
         /\ phase' = "notSetUp" /\ UNCHANGED tracks
      \/ /\ tracks' = [tracks EXCEPT ![s] = res.tr] /\ IsUp(map, m.id)
         /\ phase' = IF res.err = "none" THEN phase ELSE res.err
      \/ UNCHANGED <<phase, tracks>> /\ m.kind \notin LegacyKinds \cup FrameKinds
  BY DEF Dispatch
<1> HIDE DEF m, s, map, res
<1>6. CASE phase' = "unpublished" /\ UNCHANGED tracks
  BY <1>4, <1>6 DEF Phases
<1>7. CASE /\ m.kind \in LegacyKinds \cup FrameKinds /\ ~IsUp(map, m.id)
           /\ phase' = "notSetUp" /\ UNCHANGED tracks
  BY <1>2, <1>4, <1>7 DEF Phases, m
<1>8. CASE /\ tracks' = [tracks EXCEPT ![s] = res.tr] /\ IsUp(map, m.id)
           /\ phase' = IF res.err = "none" THEN phase ELSE res.err
  <2>1. res.tr \in TrackType
    BY <1>3 DEF GoodTrack
  <2>2. tracks' \in [Streams -> TrackType] /\ \A z \in Streams : GoodTrack(tracks'[z], rec)
    BY <1>2, <1>3, <1>8, <2>1
  <2>3. phase' \in Phases \ {"analyzing", "failed", "ended"} /\ phase' # "notSetUp"
    BY <1>3, <1>8 DEF Phases, Errors
  <2> QED
    BY <1>2, <1>4, <1>8, <2>2, <2>3 DEF m
<1>9. CASE UNCHANGED <<phase, tracks>> /\ m.kind \notin LegacyKinds \cup FrameKinds
  BY <1>4, <1>9 DEF Phases, m
<1> QED
  BY <1>5, <1>6, <1>7, <1>8, <1>9

LEMMA ReadRecordedKeeps ==
  ASSUME Inv, ReadRecorded
  PROVE  Inv' /\ phase' \in Phases \ {"analyzing", "failed", "ended"}
<1>1. /\ phase = "ready" /\ entries # <<>> /\ entries' = Tail(entries)
      /\ Dispatch(Head(entries), received[Head(entries)])
      /\ UNCHANGED <<received, recorded, found>>
      /\ received \in Seq(Messages) /\ entries \in Seq(1..Len(received))
      /\ Len(entries) <= MaxRecordedSize
  BY DEF ReadRecorded, FromRecord, Inv, Types
<1> DEFINE n == Head(entries)
<1>2. /\ n \in 1..Len(received) /\ Tail(entries) \in Seq(1..Len(received))
      /\ Len(entries) \in Nat /\ Len(Tail(entries)) = Len(entries) - 1
  BY <1>1, Rest
<1>3. Len(Tail(entries)) <= MaxRecordedSize
  BY <1>1, <1>2, TrackReaderAssumption
<1>4. /\ tracks' \in [Streams -> TrackType]
      /\ \A s \in Streams : GoodTrack(tracks'[s], received)
      /\ taken' \in Seq(Nat) /\ Last(taken') = n
      /\ phase' \in Phases \ {"analyzing", "failed", "ended"}
      /\ phase' = "notSetUp" => /\ received[n].kind \in LegacyKinds \cup FrameKinds
                                /\ ~IsUp(MapOf(received[n]), received[n].id)
  <2>1. Dispatch(n, received[n])
    BY <1>1
  <2> HIDE DEF n
  <2> QED
    BY <1>1, <1>2, <2>1, DispatchKeeps DEF Inv, Given
<1> HIDE DEF n
<1>5. Types'
  BY <1>1, <1>2, <1>3, <1>4 DEF Inv, Types
<1>6. Given'
  BY <1>1, <1>4 DEF Given
<1>7. AnalyzedAll'
  BY <1>1, <1>4 DEF Inv, AnalyzedAll
<1>8. Refusal'
  BY <1>1, <1>2, <1>4 DEF Refusal, MapOf
<1> QED
  BY <1>4, <1>5, <1>6, <1>7, <1>8 DEF Inv

LEMMA ReadNewKeeps ==
  ASSUME Inv, NEW m \in Messages, ReadNew(m)
  PROVE  Inv' /\ phase' \in Phases \ {"analyzing", "failed", "ended"}
<1>1. /\ phase = "ready" /\ received' = Append(received, m) /\ Dispatch(N, m)
      /\ UNCHANGED <<entries, recorded, found>>
  BY DEF ReadNew
<1>2. /\ received' \in Seq(Messages) /\ Len(received) \in Nat
      /\ Len(received') = Len(received) + 1 /\ received'[N] = m
      /\ \A i \in 1..Len(received) : received'[i] = received[i]
      /\ entries \in Seq(1..Len(received')) /\ N \in 1..Len(received')
      /\ \A s \in Streams : GoodTrack(tracks[s], received')
  BY <1>1, OneMore
<1> DEFINE rec == received'
           n == N
<1>3. rec \in Seq(Messages) /\ n \in 1..Len(rec) /\ Dispatch(n, rec[n]) /\ rec[n] = m
      /\ \A s \in Streams : GoodTrack(tracks[s], rec)
  BY <1>1, <1>2
<1>4. /\ tracks' \in [Streams -> TrackType]
      /\ \A s \in Streams : GoodTrack(tracks'[s], rec)
      /\ taken' \in Seq(Nat) /\ Last(taken') = n
      /\ phase' \in Phases \ {"analyzing", "failed", "ended"}
      /\ phase' = "notSetUp" => /\ rec[n].kind \in LegacyKinds \cup FrameKinds
                                /\ ~IsUp(MapOf(rec[n]), rec[n].id)
  <2> HIDE DEF rec, n
  <2> QED
    BY <1>1, <1>3, DispatchKeeps DEF Inv, Given
<1>5. Types'
  BY <1>1, <1>2, <1>4 DEF Inv, Types
<1>6. Given'
  BY <1>4 DEF Given
<1>7. AnalyzedAll'
  <2>1. \A i \in 1..recorded : i \in 1..Len(received)
    BY <1>2 DEF Inv, Types
  <2> QED
    BY <1>1, <1>2, <1>4, <2>1 DEF Inv, AnalyzedAll
<1>8. Refusal'
  BY <1>1, <1>3, <1>4 DEF Refusal, MapOf
<1> QED
  BY <1>4, <1>5, <1>6, <1>7, <1>8 DEF Inv

LEMMA ConnEndsKeeps == Inv /\ ConnEnds => Inv'
<1> SUFFICES ASSUME Inv, ConnEnds PROVE Inv'
  OBVIOUS
<1>1. /\ UNCHANGED <<received, entries, recorded, found, taken>>
      /\ phase' = "failed" \/ (phase = "ready" /\ phase' = "ended")
  BY DEF ConnEnds
<1>2. Types'
  BY <1>1 DEF Inv, Types, Phases
<1>3. AnalyzedAll' /\ Refusal'
  BY <1>1 DEF Inv, AnalyzedAll, Refusal
<1>4. Given'
  <2>1. CASE UNCHANGED tracks
    BY <1>1, <2>1 DEF Inv, Given
  <2>2. CASE tracks' = [s \in Streams |-> IF found[s[1]][s[2]] = "h264"
                                          THEN FlushPending(tracks[s]) ELSE tracks[s]]
    <3>1. \A s \in Streams : GoodTrack(tracks'[s], received)
      BY <2>2, FlushGood DEF Inv, Given
    <3> QED
      BY <1>1, <2>2, <3>1 DEF Given, GoodTrack
  <2> QED
    BY <2>1, <2>2 DEF ConnEnds
<1> QED
  BY <1>2, <1>3, <1>4 DEF Inv

LEMMA StutterKeeps == Inv /\ UNCHANGED vars => Inv'
BY DEF Inv, Types, Given, AnalyzedAll, Refusal, MapOf, vars

LEMMA InvKept == Inv /\ [Next]_vars => Inv'
BY AnalyzeKeeps, ReadRecordedKeeps, ReadNewKeeps, ConnEndsKeeps, StutterKeeps DEF Next, Receive

\* The invariant holds in every reachable state.
LEMMA Invariance == Spec => []Inv
BY InitInv, InvKept, PTL DEF Spec

(***************************************************************************)
(* Once and in order.  Numbers of messages in sequences, and in the units  *)
(* of a track.                                                             *)
(***************************************************************************)
Increasing(q) == \A k, l \in DOMAIN q : k < l => q[k] < q[l]
Before(p, q) == \A k \in DOMAIN p, l \in DOMAIN q : p[k] < q[l]
Among(x, q) == \E k \in DOMAIN q : q[k] = x

Sorted(tr) ==
  /\ Increasing(tr.held.of)
  /\ \A i \in DOMAIN tr.out : Increasing(tr.out[i].of) /\ Before(tr.out[i].of, tr.held.of)
  /\ \A i, j \in DOMAIN tr.out : i < j => Before(tr.out[i].of, tr.out[j].of)

IsOut(tr, x) == \E i \in DOMAIN tr.out : Among(x, tr.out[i].of)
Holds(tr, x) == Among(x, tr.held.of) \/ IsOut(tr, x)

\* From tr to tr2, n is added if yes holds, nothing else.
Takes(tr, tr2, n, yes) ==
  /\ Sorted(tr2)
  /\ \A x \in Nat : Holds(tr2, x) <=> Holds(tr, x) \/ (yes /\ x = n)

LEMMA EmptyAmong == DOMAIN <<>> = {} /\ (\A x : ~Among(x, <<>>)) /\ Increasing(<<>>)
                    /\ \A p : Before(p, <<>>)
BY DEF Among, Increasing, Before

\* A number past all those of a sequence.
LEMMA AppendSorted ==
  ASSUME NEW q \in Seq(Nat), NEW n \in Nat, Increasing(q), \A x \in Nat : Among(x, q) => x < n
  PROVE  /\ Append(q, n) \in Seq(Nat) /\ Increasing(Append(q, n))
         /\ \A x : Among(x, Append(q, n)) <=> Among(x, q) \/ x = n
<1>1. /\ Append(q, n) \in Seq(Nat) /\ Len(q) \in Nat /\ DOMAIN q = 1..Len(q)
      /\ DOMAIN Append(q, n) = 1..(Len(q) + 1) /\ Append(q, n)[Len(q) + 1] = n
      /\ \A i \in 1..Len(q) : Append(q, n)[i] = q[i] /\ q[i] \in Nat
  BY Appended
<1>2. \A k \in 1..(Len(q) + 1) : k = Len(q) + 1 \/ k \in 1..Len(q)
  BY <1>1
<1>3. \A i \in 1..Len(q) : q[i] < n
  BY <1>1 DEF Among
<1>4. Increasing(Append(q, n))
  <2> SUFFICES ASSUME NEW k \in 1..(Len(q) + 1), NEW l \in 1..(Len(q) + 1), k < l
               PROVE  Append(q, n)[k] < Append(q, n)[l]
    BY <1>1 DEF Increasing
  <2>1. k \in 1..Len(q)
    BY <1>1
  <2>2. CASE l = Len(q) + 1
    BY <1>1, <1>3, <2>1, <2>2
  <2>3. CASE l \in 1..Len(q)
    BY <1>1, <2>1, <2>3 DEF Increasing
  <2> QED
    BY <1>2, <2>2, <2>3
<1>5. ASSUME NEW x PROVE Among(x, Append(q, n)) <=> Among(x, q) \/ x = n
  <2>1. Len(q) + 1 \in 1..(Len(q) + 1) /\ \A i \in 1..Len(q) : i \in 1..(Len(q) + 1)
    BY <1>1
  <2> QED
    BY <1>1, <1>2, <2>1 DEF Among
<1> QED
  BY <1>1, <1>4, <1>5

\* A unit given after those given before, nothing being held then.
LEMMA GiveSorted ==
  ASSUME NEW tr \in TrackType, NEW tr2 \in TrackType, NEW u \in Units, Sorted(tr),
         Increasing(u.of), \A i \in DOMAIN tr.out : Before(tr.out[i].of, u.of),
         tr2.out = Append(tr.out, u), tr2.held.of = <<>>
  PROVE  Sorted(tr2) /\ \A x : Holds(tr2, x) <=> Among(x, u.of) \/ IsOut(tr, x)
<1> DEFINE o == tr.out
           p == Append(tr.out, u)
<1>1. /\ Len(o) \in Nat /\ DOMAIN o = 1..Len(o)
      /\ DOMAIN p = 1..(Len(o) + 1) /\ p[Len(o) + 1] = u
      /\ \A i \in 1..Len(o) : p[i] = o[i]
  BY Appended DEF TrackType
<1>2. \A k \in 1..(Len(o) + 1) : k = Len(o) + 1 \/ k \in 1..Len(o)
  BY <1>1
<1>3. Len(o) + 1 \in 1..(Len(o) + 1) /\ \A i \in 1..Len(o) : i \in 1..(Len(o) + 1)
  BY <1>1
<1>4. \A i \in DOMAIN p : Increasing(p[i].of)
  BY <1>1, <1>2 DEF Sorted
<1>5. ASSUME NEW i \in DOMAIN p, NEW j \in DOMAIN p, i < j
      PROVE  Before(p[i].of, p[j].of)
  <2>1. i \in 1..Len(o)
    BY <1>1, <1>5
  <2>2. CASE j = Len(o) + 1
    BY <1>1, <2>1, <2>2
  <2>3. CASE j \in 1..Len(o)
    BY <1>1, <1>5, <2>1, <2>3 DEF Sorted
  <2> QED
    BY <1>1, <1>2, <2>2, <2>3
<1>6. Sorted(tr2)
  BY <1>4, <1>5, EmptyAmong DEF Sorted
<1>7. ASSUME NEW x PROVE Holds(tr2, x) <=> Among(x, u.of) \/ IsOut(tr, x)
  BY <1>1, <1>2, <1>3, EmptyAmong DEF Holds, IsOut
<1> QED
  BY <1>6, <1>7

\* What is held may be given.
LEMMA FlushSorted ==
  ASSUME NEW tr \in TrackType, Sorted(tr)
  PROVE  /\ FlushPending(tr) \in TrackType /\ Sorted(FlushPending(tr))
         /\ FlushPending(tr).held.of = <<>>
         /\ \A x : Holds(FlushPending(tr), x) <=> Holds(tr, x)
<1>1. CASE tr.held.of # <<>>
  <2> DEFINE f == [Give(tr, tr.held) EXCEPT !.held = NoUnit]
  <2>1. FlushPending(tr) = f
    BY <1>1 DEF FlushPending
  <2>2. tr.held \in Units /\ tr.out \in Seq(Units)
    BY DEF TrackType
  <2>3. f \in TrackType /\ f.out = Append(tr.out, tr.held) /\ f.held = NoUnit
    <3>1. Append(tr.out, tr.held) \in Seq(Units)
      BY <2>2, Appended
    <3> QED
      BY <2>2, <3>1, NoUnitFits DEF TrackType, Give
  <2> HIDE DEF f
  <2>4. Sorted(f) /\ \A x : Holds(f, x) <=> Among(x, tr.held.of) \/ IsOut(tr, x)
    BY <2>2, <2>3, NoUnitFits, GiveSorted DEF Sorted
  <2> QED
    BY <2>1, <2>3, <2>4, NoUnitFits DEF Holds
<1>2. CASE tr.held.of = <<>>
  BY <1>2 DEF FlushPending
<1> QED
  BY <1>1, <1>2

\* Everything that tr holds came before message n.
Past(tr, n) == \A x \in Nat : Holds(tr, x) => x < n

\* A message may be added to what is held, and that may be given with it.
LEMMA TakesHeld ==
  ASSUME NEW tr \in TrackType, NEW n \in Nat, NEW t \in Int \X Int, Sorted(tr), Past(tr, n),
         NEW u, u = Unit(t, Append(tr.held.of, n))
  PROVE  /\ Takes(tr, [tr EXCEPT !.held = u], n, TRUE)
         /\ Takes(tr, [Give(tr, u) EXCEPT !.held = NoUnit], n, TRUE)
<1> DEFINE q == Append(tr.held.of, n)
<1>1. tr.held.of \in Seq(Nat) /\ tr.out \in Seq(Units) /\ Increasing(tr.held.of)
  BY DEF TrackType, Units, Sorted
<1>2. q \in Seq(Nat) /\ Increasing(q) /\ \A x : Among(x, q) <=> Among(x, tr.held.of) \/ x = n
  <2>1. \A x \in Nat : Among(x, tr.held.of) => x < n
    BY DEF Past, Holds
  <2> QED
    BY <1>1, <2>1, AppendSorted
<1> HIDE DEF q
<1>3. u \in Units /\ u.of = q
  BY <1>2 DEF Unit, Units, q
<1>4. ASSUME NEW i \in DOMAIN tr.out PROVE Before(tr.out[i].of, u.of)
  <2> SUFFICES ASSUME NEW k \in DOMAIN tr.out[i].of, NEW l \in DOMAIN q
               PROVE  tr.out[i].of[k] < q[l]
    BY <1>3 DEF Before
  <2>1. tr.out[i].of[k] \in Nat
    <3>1. tr.out[i] \in Units
      BY <1>1
    <3> HIDE DEF Units
    <3>2. tr.out[i].of \in Seq(Nat)
      BY <3>1 DEF Units
    <3> QED
      BY <3>2
  <2>2. tr.out[i].of[k] < n
    BY <2>1 DEF Past, Holds, IsOut, Among
  <2>3. Among(q[l], tr.held.of) \/ q[l] = n
    BY <1>2 DEF Among
  <2>4. CASE Among(q[l], tr.held.of)
    BY <2>4 DEF Sorted, Before, Among
  <2> QED
    BY <2>2, <2>3, <2>4
<1>5. Takes(tr, [tr EXCEPT !.held = u], n, TRUE)
  <2> DEFINE e == [tr EXCEPT !.held = u]
  <2>1. e.out = tr.out /\ e.held = u
    BY DEF TrackType
  <2> HIDE DEF e
  <2>2. Sorted(e)
    BY <1>2, <1>3, <1>4, <2>1 DEF Sorted
  <2>3. ASSUME NEW x \in Nat PROVE Holds(e, x) <=> Holds(tr, x) \/ x = n
    BY <1>2, <1>3, <2>1 DEF Holds, IsOut
  <2>4. Takes(tr, e, n, TRUE)
    BY <2>2, <2>3 DEF Takes
  <2> QED
    BY <2>4 DEF e
<1>6. Takes(tr, [Give(tr, u) EXCEPT !.held = NoUnit], n, TRUE)
  <2> DEFINE e == [Give(tr, u) EXCEPT !.held = NoUnit]
  <2>1. e \in TrackType /\ e.out = Append(tr.out, u) /\ e.held = NoUnit
    <3>1. Append(tr.out, u) \in Seq(Units)
      BY <1>1, <1>3, Appended
    <3> QED
      BY <3>1, NoUnitFits DEF TrackType, Give
  <2> HIDE DEF e
  <2>2. Sorted(e) /\ \A x : Holds(e, x) <=> Among(x, u.of) \/ IsOut(tr, x)
    BY <1>2, <1>3, <1>4, <2>1, NoUnitFits, GiveSorted
  <2>3. ASSUME NEW x \in Nat PROVE Holds(e, x) <=> Holds(tr, x) \/ x = n
    BY <1>2, <1>3, <2>2 DEF Holds
  <2>4. Takes(tr, e, n, TRUE)
    BY <2>2, <2>3 DEF Takes
  <2> QED
    BY <2>4 DEF e
<1> QED
  BY <1>5, <1>6

\* A message is given on its own when nothing is held.
LEMMA TakesOne ==
  ASSUME NEW tr \in TrackType, NEW n \in Nat, NEW t \in Int \X Int, Sorted(tr), Past(tr, n),
         tr.held.of = <<>>
  PROVE  /\ Takes(tr, Give(tr, Unit(t, <<n>>)), n, TRUE)
         /\ Give(tr, Unit(t, <<n>>)).held.of = <<>>
<1> DEFINE u == Unit(t, Append(tr.held.of, n))
           g == Give(tr, Unit(t, <<n>>))
           e == [Give(tr, u) EXCEPT !.held = NoUnit]
<1>1. Append(tr.held.of, n) = <<n>>
  OBVIOUS
<1>2. /\ g.out = e.out /\ g.held.of = <<>> /\ e.held.of = <<>>
  BY <1>1, NoUnitFits DEF TrackType, Give
<1>3. Takes(tr, e, n, TRUE)
  BY TakesHeld
<1> HIDE DEF e, g
<1>4. Takes(tr, g, n, TRUE)
  BY <1>2, <1>3 DEF Takes, Sorted, Holds, IsOut
<1> QED
  BY <1>2, <1>4 DEF g

\* Nothing but what is held may change its place.
LEMMA TakesNone ==
  ASSUME NEW tr \in TrackType, NEW n \in Nat, Sorted(tr)
  PROVE  Takes(tr, tr, n, FALSE) /\ Takes(tr, FlushPending(tr), n, FALSE)
BY FlushSorted DEF Takes

\* What is held is given, and then the message.
LEMMA TakesAfterFlush ==
  ASSUME NEW tr \in TrackType, NEW n \in Nat, NEW t \in Int \X Int, Sorted(tr), Past(tr, n)
  PROVE  LET f == FlushPending(tr)
         IN /\ Takes(tr, Give(f, Unit(t, <<n>>)), n, TRUE)
            /\ Takes(tr, [f EXCEPT !.held = Unit(t, Append(f.held.of, n))], n, TRUE)
<1> DEFINE f == FlushPending(tr)
<1>1. f \in TrackType /\ Sorted(f) /\ f.held.of = <<>> /\ \A x : Holds(f, x) <=> Holds(tr, x)
  BY FlushSorted
<1> HIDE DEF f
<1>2. Past(f, n)
  BY <1>1 DEF Past
<1>3. /\ Takes(f, Give(f, Unit(t, <<n>>)), n, TRUE)
      /\ Takes(f, [f EXCEPT !.held = Unit(t, Append(f.held.of, n))], n, TRUE)
  BY <1>1, <1>2, TakesOne, TakesHeld
<1>4. \A e : Takes(f, e, n, TRUE) => Takes(tr, e, n, TRUE)
  BY <1>1 DEF Takes
<1> QED
  BY <1>3, <1>4 DEF f

LEMMA HoldTakes ==
  ASSUME NEW tr \in TrackType, NEW m \in Messages, NEW n \in Nat, Sorted(tr), Past(tr, n),
         Hold(tr, m, n).err = "none"
  PROVE  Takes(tr, Hold(tr, m, n).tr, n, TRUE)
<1> DEFINE t == IF tr.held.of # <<>> /\ tr.held.time # Time(m) THEN FlushPending(tr) ELSE tr
           u == Unit(Time(m), Append(t.held.of, n))
<1>1. Time(m) \in Int \X Int /\ t \in TrackType
  BY MessageTime, FlushSorted
<1>2. Hold(tr, m, n) = IF Len(t.held.of) + 1 > MaxUnits THEN Refused(t)
                                                       ELSE Done([t EXCEPT !.held = u])
  BY <1>1 DEF Hold, Unit, TrackType
<1>3. Takes(tr, [t EXCEPT !.held = u], n, TRUE)
  BY <1>1, TakesHeld, TakesAfterFlush
<1> HIDE DEF t, u
<1>4. Hold(tr, m, n).tr = [t EXCEPT !.held = u]
  BY <1>2 DEF Refused, Done
<1> QED
  BY <1>3, <1>4

LEMMA JoinTakes ==
  ASSUME NEW tr \in TrackType, NEW m \in Messages, NEW n \in Nat, Sorted(tr), Past(tr, n),
         Join(tr, m, n).err = "none"
  PROVE  Takes(tr, Join(tr, m, n).tr, n, TRUE)
<1>1. Time(m) \in Int \X Int
  BY MessageTime
<1>2. CASE tr.held.of # <<>> /\ tr.held.time = Time(m)
  <2> DEFINE u == Unit(Time(m), Append(tr.held.of, n))
  <2>1. Takes(tr, [Give(tr, u) EXCEPT !.held = NoUnit], n, TRUE)
    BY <1>1, TakesHeld
  <2>2. Join(tr, m, n).tr = [Give(tr, u) EXCEPT !.held = NoUnit]
    BY <1>2 DEF Join, Refused, Done
  <2> QED
    BY <2>1, <2>2
<1>3. CASE ~(tr.held.of # <<>> /\ tr.held.time = Time(m))
  <2>1. Join(tr, m, n).tr = Give(FlushPending(tr), Unit(Time(m), <<n>>))
    BY <1>3 DEF Join, Done
  <2> QED
    BY <1>1, <2>1, TakesAfterFlush
<1> QED
  BY <1>2, <1>3

\* The fields of a message, more of them.
LEMMA MessagePackets ==
  ASSUME NEW m \in Messages
  PROVE  /\ m.packet \in Packets
         /\ m.kind = "videoFrames" => m.packet \in {"au", "sei", "empty", "bad"}
         /\ m.packet = "bare" /\ m.kind \in {"video", "videoFrames"} => m.codec = "h264"
BY TrackReaderAssumption DEF VideoKinds, VideoCodecs

\* An H264 track takes what is for it and nothing else.
LEMMA H264Takes ==
  ASSUME NEW tr \in TrackType, NEW m \in Messages, NEW n \in Nat, Sorted(tr), Past(tr, n),
         m.kind \in {"video", "videoFrames"}, OnDataH264(tr, m, n).err = "none"
  PROVE  Takes(tr, OnDataH264(tr, m, n).tr, n, VideoFor("h264", m))
<1> DEFINE res == OnDataH264(tr, m, n)
<1>1. Time(m) \in Int \X Int /\ m.packet \in {"config", "bare", "au", "sei", "empty", "bad", "eos"}
  BY MessageTime, MessagePackets DEF Packets
<1>2. CASE m.packet \in {"sei", "au"}
  <2>1. Takes(tr, res.tr, n, TRUE)
    BY <1>2, HoldTakes, JoinTakes DEF OnDataH264
  <2>2. VideoFor("h264", m)
    BY <1>2 DEF VideoFor
  <2> HIDE DEF res
  <2>3. Takes(tr, res.tr, n, VideoFor("h264", m))
    BY <2>1, <2>2 DEF Takes
  <2> QED
    BY <2>3 DEF res
<1>3. CASE m.packet = "config" /\ m.codec = "h264"
  <2>1. res.tr = Give(FlushPending(tr), Unit(Time(m), <<n>>))
    BY <1>3 DEF OnDataH264, Done
  <2>2. Takes(tr, res.tr, n, TRUE)
    BY <1>1, <2>1, TakesAfterFlush
  <2>3. VideoFor("h264", m)
    BY <1>3 DEF VideoFor
  <2> HIDE DEF res
  <2>4. Takes(tr, res.tr, n, VideoFor("h264", m))
    BY <2>2, <2>3 DEF Takes
  <2> QED
    BY <2>4 DEF res
<1>4. CASE m.packet \in {"empty", "bare", "eos"} \/ (m.packet = "config" /\ m.codec # "h264")
  <2>1. res.tr \in {tr, FlushPending(tr)}
    BY <1>4 DEF OnDataH264, Done
  <2>2. ~VideoFor("h264", m)
    BY <1>4 DEF VideoFor
  <2> HIDE DEF res
  <2>3. Takes(tr, res.tr, n, FALSE)
    BY <2>1, TakesNone
  <2>4. Takes(tr, res.tr, n, VideoFor("h264", m))
    BY <2>2, <2>3 DEF Takes
  <2> QED
    BY <2>4 DEF res
<1>5. m.packet # "bad"
  BY DEF OnDataH264, Undecodable
<1> QED
  BY <1>1, <1>2, <1>3, <1>4, <1>5

\* Of a track that holds nothing, what its callback does is to give the message
\* or not.
Plain(codec, tr, m, n, yes) ==
  Callback(codec, tr, m, n).tr = IF yes THEN Give(tr, Unit(Time(m), <<n>>)) ELSE tr

LEMMA VideoGives ==
  ASSUME NEW m \in Messages, NEW tr, NEW n, NEW codec \in {"h265", "av1", "vp9"},
         m.kind \in {"video", "videoFrames"}, Callback(codec, tr, m, n).err = "none"
  PROVE  Plain(codec, tr, m, n, VideoFor(codec, m))
<1>1. /\ m.packet \in {"config", "bare", "au", "sei", "empty", "bad", "eos"}
      /\ m.kind = "videoFrames" => m.packet \in {"au", "sei", "empty", "bad"}
      /\ m.packet = "bare" => m.codec = "h264"
  BY MessagePackets DEF Packets
<1>2. CASE codec = "h265"
  <2>1. Callback(codec, tr, m, n) = OnDataH265(tr, m, n)
    BY <1>2 DEF Callback
  <2>2. CASE m.packet \in {"config", "bare"}
    <3>1. m.codec = "h265" /\ m.packet = "config"
      BY <1>1, <2>1, <2>2 DEF OnDataH265
    <3> QED
      BY <1>2, <2>1, <3>1 DEF OnDataH265, Done, Plain, VideoFor
  <2>3. CASE m.packet \in {"empty", "eos"}
    BY <1>2, <2>1, <2>3 DEF OnDataH265, Done, Plain, VideoFor
  <2>4. CASE m.packet = "bad"
    BY <2>1, <2>4 DEF OnDataH265, Undecodable
  <2>5. CASE m.packet \in {"au", "sei"}
    BY <1>2, <2>1, <2>5 DEF OnDataH265, Done, Plain, VideoFor
  <2> QED
    BY <1>1, <2>2, <2>3, <2>4, <2>5
<1>3. CASE codec = "av1"
  <2>1. Callback(codec, tr, m, n) = OnDataAV1(tr, m, n)
    BY <1>3 DEF Callback
  <2> QED
    BY <1>3, <2>1 DEF OnDataAV1, OnDataFrames, Undecodable, Done, Plain, VideoFor, FrameKinds
<1>4. CASE codec = "vp9"
  <2>1. Callback(codec, tr, m, n) = OnDataFrames(tr, m, n)
    BY <1>4 DEF Callback
  <2> QED
    BY <1>4, <2>1 DEF OnDataFrames, Done, Plain, VideoFor, FrameKinds
<1> QED
  BY <1>2, <1>3, <1>4

\* What an audio track takes: what is for it, and the configs of AAC that become
\* empty frames.
AudioGiven(codec, m) == AudioFor(codec, m) \/ (AACConfig(m) /\ codec \in WholeAudio)
Reaches(s, m) == Carries(s, m) \/ EmptyFrame(s, m)

LEMMA AudioGives ==
  ASSUME NEW m \in Messages, NEW tr, NEW n, NEW codec \in AudioCodecs,
         m.kind \in {"audio", "audioFrames"}
  PROVE  Plain(codec, tr, m, n, AudioGiven(codec, m))
<1>1. CASE codec \in {"g711", "lpcm"}
  <2>1. Callback(codec, tr, m, n) = OnDataSamples(tr, m, n)
    BY <1>1 DEF Callback
  <2> QED
    BY <1>1, <2>1 DEF OnDataSamples, Done, Plain, AudioGiven, AudioFor, AACConfig, WholeAudio
<1>2. CASE codec = "aac"
  <2>1. Callback(codec, tr, m, n) = OnDataMPEG4Audio(tr, m, n)
    BY <1>2 DEF Callback
  <2> QED
    BY <1>2, <2>1 DEF OnDataMPEG4Audio, Done, Plain, AudioGiven, AudioFor, AACConfig, WholeAudio
<1>3. CASE codec = "mp3"
  <2>1. Callback(codec, tr, m, n) = OnDataMPEG1Audio(tr, m, n)
    BY <1>3 DEF Callback
  <2> QED
    BY <1>3, <2>1 DEF OnDataMPEG1Audio, Done, Plain, AudioGiven, AudioFor, AACConfig, WholeAudio
<1>4. CASE codec \in {"opus", "flac", "ac3"}
  <2>1. Callback(codec, tr, m, n) = OnDataFrames(tr, m, n)
    BY <1>4 DEF Callback
  <2> QED
    BY <1>4, <2>1 DEF OnDataFrames, Done, Plain, AudioGiven, AudioFor, AACConfig, WholeAudio, FrameKinds
<1> QED
  BY <1>1, <1>2, <1>3, <1>4 DEF AudioCodecs

LEMMA PlainTakes ==
  ASSUME NEW tr \in TrackType, NEW m \in Messages, NEW n \in Nat, Sorted(tr), Past(tr, n),
         tr.held.of = <<>>, NEW codec, NEW yes \in BOOLEAN, Plain(codec, tr, m, n, yes)
  PROVE  /\ Takes(tr, Callback(codec, tr, m, n).tr, n, yes)
         /\ Callback(codec, tr, m, n).tr.held.of = <<>>
<1>1. Time(m) \in Int \X Int
  BY MessageTime
<1>2. CASE yes
  BY <1>1, <1>2, TakesOne DEF Plain
<1>3. CASE ~yes
  BY <1>3, TakesNone DEF Plain
<1> QED
  BY <1>2, <1>3

\* The stream that Read gives message m to.
StreamOfMessage(m) ==
  <<IF m.kind \in {"video", "videoFrames"} THEN "video" ELSE "audio", m.id>>

LEMMA ReachesOne ==
  ASSUME NEW s \in Streams, NEW m, Reaches(s, m)
  PROVE  s = StreamOfMessage(m) /\ m.kind \in LegacyKinds \cup FrameKinds
<1>1. s = <<s[1], s[2]>> /\ s[1] \in {"video", "audio"}
  BY DEF Streams
<1>2. CASE s[1] = "video"
  <2>1. m.id = s[2] /\ m.kind \in {"video", "videoFrames"}
    BY <1>2 DEF Reaches, EmptyFrame, Carries, VideoFor
  <2> QED
    BY <1>1, <1>2, <2>1 DEF StreamOfMessage, LegacyKinds, FrameKinds
<1>3. CASE s[1] = "audio"
  <2>1. m.id = s[2] /\ m.kind \in {"audio", "audioFrames"}
    BY <1>3 DEF Reaches, EmptyFrame, AACConfig, Carries, AudioFor
  <2> QED
    BY <1>1, <1>3, <2>1 DEF StreamOfMessage, LegacyKinds, FrameKinds
<1> QED
  BY <1>1, <1>2, <1>3

(***************************************************************************)
(* What is read is numbered in the order of arrival, recorded or not.      *)
(***************************************************************************)
Numbered ==
  /\ Len(taken) <= Len(received)
  /\ phase = "analyzing" => taken = <<>> /\ \A s \in Streams : tracks[s] = NewTrack
  /\ phase \in {"analyzing", "ready"} =>
       /\ Len(taken) + Len(entries) = Len(received)
       /\ \A i \in 1..Len(entries) : entries[i] = Len(taken) + i

\* The tracks trs hold, of the first messages of rec, exactly those for them.
Complete(trs, rec, top) ==
  \A s \in Streams :
    /\ Sorted(trs[s])
    /\ \A x \in Nat : Holds(trs[s], x) <=> x \in 1..top /\ Reaches(s, rec[x])

\* Only an H264 track ever holds anything.
HeldByH264(trs) ==
  \A id \in TrackIDs :
    /\ found.video[id] # "h264" => trs[<<"video", id>>].held.of = <<>>
    /\ trs[<<"audio", id>>].held.of = <<>>

Whole ==
  /\ Numbered
  /\ phase \in {"ready", "ended", "unpublished"} => Complete(tracks, received, Len(taken))
  /\ phase = "ready" => HeldByH264(tracks)

\* A callback that does not fail takes what is for its track, if it holds
\* something only where it may.
LEMMA CallbackTakes ==
  ASSUME found \in FoundType, NEW m \in Messages, NEW n \in Nat, NEW tr \in TrackType,
         Sorted(tr), Past(tr, n), m.kind \in LegacyKinds \cup FrameKinds,
         NEW codec, codec = MapOf(m)[m.id], IsUp(MapOf(m), m.id),
         ~(m.kind \in {"video", "videoFrames"} /\ codec = "h264") => tr.held.of = <<>>,
         NEW res, res = Callback(codec, tr, m, n), res.err = "none"
  PROVE  /\ Takes(tr, res.tr, n, Reaches(StreamOfMessage(m), m))
         /\ ~(m.kind \in {"video", "videoFrames"} /\ codec = "h264") => res.tr.held.of = <<>>
<1>1. m.id \in TrackIDs
  BY MessageFields
<1>2. CASE m.kind \in {"video", "videoFrames"}
  <2>1. /\ Reaches(StreamOfMessage(m), m) = VideoFor(codec, m) /\ codec \in VideoCodecs
        /\ VideoFor(codec, m) \in BOOLEAN
    BY <1>1, <1>2, Absent DEF Reaches, EmptyFrame, Carries, StreamOfMessage, MapOf, IsUp, FoundType, VideoMap, VideoFor,
                              VideoCodecs, Codecs, AudioCodecs
  <2>2. CASE codec = "h264"
    <3>1. res = OnDataH264(tr, m, n)
      BY <2>2 DEF Callback
    <3> QED
      BY <1>2, <2>1, <2>2, <3>1, H264Takes
  <2>3. CASE codec # "h264"
    <3>1. codec \in {"h265", "av1", "vp9"}
      BY <2>1, <2>3 DEF VideoCodecs
    <3>2. Plain(codec, tr, m, n, VideoFor(codec, m))
      BY <1>2, <3>1, VideoGives
    <3> QED
      BY <2>1, <2>3, <3>2, PlainTakes
  <2> QED
    BY <2>2, <2>3
<1>3. CASE m.kind \in {"audio", "audioFrames"}
  <2>1. /\ Reaches(StreamOfMessage(m), m) = AudioGiven(codec, m) /\ codec \in AudioCodecs
        /\ AudioGiven(codec, m) \in BOOLEAN
    BY <1>1, <1>3, Absent DEF Reaches, EmptyFrame, AudioGiven, Carries, StreamOfMessage, MapOf, IsUp,
                              FoundType, AudioMap, AudioFor, AACConfig, WholeAudio,
                              VideoCodecs, Codecs, AudioCodecs
  <2>2. Plain(codec, tr, m, n, AudioGiven(codec, m))
    BY <1>3, <2>1, AudioGives
  <2> QED
    BY <1>3, <2>1, <2>2, PlainTakes
<1> QED
  BY <1>2, <1>3 DEF LegacyKinds, FrameKinds

\* What Read does with the message that follows those it took.
LEMMA DispatchTakes ==
  ASSUME found \in FoundType, taken \in Seq(Nat), NEW rec \in Seq(Messages),
         NEW n \in 1..Len(rec), n = Len(taken) + 1, tracks \in [Streams -> TrackType],
         \A s \in Streams : GoodTrack(tracks[s], rec),
         Complete(tracks, rec, Len(taken)), HeldByH264(tracks), phase = "ready",
         Dispatch(n, rec[n]), phase' \in {"ready", "unpublished"}, UNCHANGED found
  PROVE  /\ Complete(tracks', rec, Len(taken')) /\ HeldByH264(tracks')
         /\ Len(taken') = Len(taken) + 1
<1> DEFINE m == rec[n]
           z == StreamOfMessage(m)
           codec == MapOf(m)[m.id]
           res == Callback(codec, tracks[z], m, n)
<1>1. m \in Messages /\ m.id \in TrackIDs /\ n \in Nat
  BY MessageFields
<1>2. z \in Streams /\ Len(taken) \in Nat
  BY <1>1 DEF Streams, StreamOfMessage
<1>3. taken' = Append(taken, n) /\ Len(taken') = n
  BY <1>1, Appended DEF Dispatch
<1>4. \/ UNCHANGED tracks /\ m.kind \notin LegacyKinds \cup FrameKinds
      \/ /\ m.kind \in LegacyKinds \cup FrameKinds /\ IsUp(MapOf(m), m.id)
         /\ tracks' = [tracks EXCEPT ![z] = res.tr] /\ res.err = "none"
  <2>1. z[1] = "video" <=> m.kind \in {"video", "videoFrames"}
    BY DEF StreamOfMessage
  <2>2. MapOf(m) = IF z[1] = "video" THEN found.video ELSE found.audio
    BY <2>1 DEF MapOf
  <2>3. "unpublish" \notin LegacyKinds \cup FrameKinds
    BY DEF LegacyKinds, FrameKinds
  <2>4. res.err \in {"none", "limit", "undecodable", "panic"}
    BY <1>1, <1>2, CallbackGood DEF Errors
  <2> QED
    BY <2>2, <2>3, <2>4 DEF Dispatch, StreamOfMessage
<1>5. n \notin 1..Len(taken) /\ \A x \in Nat : x \in 1..n <=> x \in 1..Len(taken) \/ x = n
  BY <1>2
<1> HIDE DEF m, z, codec, res
<1>6. CASE UNCHANGED tracks /\ m.kind \notin LegacyKinds \cup FrameKinds
  <2>1. \A s \in Streams : ~Reaches(s, m)
    BY <1>6, ReachesOne
  <2>2. Complete(tracks', rec, n)
    BY <1>2, <1>5, <1>6, <2>1 DEF Complete, m
  <2>3. HeldByH264(tracks')
    BY <1>6 DEF HeldByH264
  <2> QED
    BY <1>3, <2>2, <2>3
<1>7. CASE /\ m.kind \in LegacyKinds \cup FrameKinds /\ IsUp(MapOf(m), m.id)
           /\ tracks' = [tracks EXCEPT ![z] = res.tr] /\ res.err = "none"
  <2> DEFINE tr == tracks[z]
             video == m.kind \in {"video", "videoFrames"}
  <2>1. tr \in TrackType /\ Sorted(tr)
        /\ \A x \in Nat : Holds(tr, x) <=> x \in 1..Len(taken) /\ Reaches(z, rec[x])
    BY <1>2 DEF Complete
  <2>2. Past(tr, n)
    BY <1>2, <2>1 DEF Past
  <2>3. ~(video /\ codec = "h264") => tr.held.of = <<>>
    BY <1>1 DEF HeldByH264, z, codec, StreamOfMessage, MapOf
  <2>4. /\ Takes(tr, res.tr, n, Reaches(z, m))
        /\ ~(video /\ codec = "h264") => res.tr.held.of = <<>>
    BY <1>1, <1>7, <2>1, <2>2, <2>3, CallbackTakes DEF z, codec, res
  <2> HIDE DEF tr
  <2>5. tracks'[z] = res.tr /\ \A s \in Streams : s # z => tracks'[s] = tracks[s]
    BY <1>2, <1>7
  <2>6. ASSUME NEW s \in Streams
        PROVE  /\ Sorted(tracks'[s])
               /\ \A x \in Nat : Holds(tracks'[s], x) <=> x \in 1..n /\ Reaches(s, rec[x])
    <3>1. CASE s = z
      BY <1>5, <2>1, <2>4, <2>5, <3>1 DEF Takes, m
    <3>2. CASE s # z
      <4>1. ~Reaches(s, m)
        BY <3>2, ReachesOne DEF z
      <4> QED
        BY <1>5, <2>5, <3>2, <4>1 DEF Complete, m
    <3> QED
      BY <3>1, <3>2
  <2>7. Complete(tracks', rec, n)
    BY <2>6 DEF Complete
  <2>8. HeldByH264(tracks')
    <3> SUFFICES ASSUME NEW id \in TrackIDs
                 PROVE  /\ found'.video[id] # "h264" => tracks'[<<"video", id>>].held.of = <<>>
                        /\ tracks'[<<"audio", id>>].held.of = <<>>
      BY DEF HeldByH264
    <3>1. <<"video", id>> \in Streams /\ <<"audio", id>> \in Streams
      BY DEF Streams
    <3> QED
      BY <2>4, <2>5, <3>1 DEF HeldByH264, z, codec, StreamOfMessage, MapOf
  <2> QED
    BY <1>3, <2>7, <2>8
<1> QED
  BY <1>4, <1>6, <1>7

(***************************************************************************)
(* SEI.  Of the media messages ns of a track, numbered in rec: when a unit *)
(* ends with a SEI k and l comes next, l is not an access unit of the same *)
(* instant; a unit that was given after top messages has some l.           *)
(***************************************************************************)
MediaIn(rec, top, id) ==
  {n \in 1..top : rec[n].id = id /\ rec[n].kind \in {"video", "videoFrames"}}
EndsWithSei(u, k, rec) == Last(u.of) = k /\ rec[k].packet = "sei"
Elsewhere(k, l, rec) == rec[l].packet \notin {"au", "sei"} \/ Time(rec[l]) # Time(rec[k])
Lone(u, rec, ns, top) ==
  /\ Last(u.of) \in 1..top
  /\ \A k, l \in ns : NextOf(k, l, ns) /\ EndsWithSei(u, k, rec) => Elsewhere(k, l, rec)
Followed(u, rec, ns) == \A k \in ns : EndsWithSei(u, k, rec) => \E l \in ns : k < l
Settled(u, rec, ns, top) == Lone(u, rec, ns, top) /\ Followed(u, rec, ns)
AllSettled(tr, rec, ns, top) == \A i \in DOMAIN tr.out : Settled(tr.out[i], rec, ns, top)
HeldLone(tr, rec, ns, top) == tr.held.of # <<>> => Lone(tr.held, rec, ns, top)

\* A settled unit stays so when a media message comes.
LEMMA StaysSettled ==
  ASSUME NEW rec, NEW n \in Nat \ {0}, NEW ns \in SUBSET (1..(n - 1)), NEW u,
         Settled(u, rec, ns, n - 1)
  PROVE  Settled(u, rec, ns \cup {n}, n)
<1> DEFINE ns2 == ns \cup {n}
<1>1. (\A k \in ns : k \in Nat /\ k < n) /\ Last(u.of) # n /\ Last(u.of) \in 1..n
  BY DEF Settled, Lone
<1>2. ASSUME NEW k \in ns2, NEW l \in ns2, NextOf(k, l, ns2), EndsWithSei(u, k, rec)
      PROVE  Elsewhere(k, l, rec)
  <2>1. k < l /\ k \in ns /\ \A j \in ns : ~(k < j /\ j < l)
    BY <1>1, <1>2 DEF NextOf, EndsWithSei
  <2>2. CASE l = n
    <3>1. PICK j \in ns : k < j
      BY <1>2, <2>1 DEF Settled, Followed
    <3> QED
      BY <1>1, <2>1, <2>2, <3>1
  <2>3. CASE l \in ns
    BY <1>2, <2>1, <2>3 DEF Settled, Lone, NextOf
  <2> QED
    BY <2>2, <2>3
<1>3. ASSUME NEW k \in ns2, EndsWithSei(u, k, rec) PROVE \E l \in ns2 : k < l
  <2>1. k \in ns
    BY <1>1, <1>3 DEF EndsWithSei
  <2> QED
    BY <1>3, <2>1 DEF Settled, Followed
<1> QED
  BY <1>1, <1>2, <1>3 DEF Settled, Lone, Followed

\* A unit that does not go with the message that comes is settled then.
LEMMA SettlesThen ==
  ASSUME NEW rec, NEW n \in Nat \ {0}, NEW ns \in SUBSET (1..(n - 1)), NEW u,
         Lone(u, rec, ns, n - 1), Time(rec[Last(u.of)]) = u.time,
         rec[n].packet \notin {"au", "sei"} \/ Time(rec[n]) # u.time
  PROVE  Settled(u, rec, ns \cup {n}, n)
<1> DEFINE ns2 == ns \cup {n}
<1>1. (\A k \in ns : k \in Nat /\ k < n) /\ Last(u.of) # n /\ Last(u.of) \in 1..n
      /\ \A k \in ns2 : EndsWithSei(u, k, rec) => k \in ns
  <2>1. (\A k \in ns : k \in Nat /\ k < n) /\ Last(u.of) # n /\ Last(u.of) \in 1..n
    BY DEF Lone
  <2> QED
    BY <2>1 DEF EndsWithSei
<1>2. ASSUME NEW k \in ns2, NEW l \in ns2, NextOf(k, l, ns2), EndsWithSei(u, k, rec)
      PROVE  Elsewhere(k, l, rec)
  <2>1. k < l /\ k \in ns /\ \A j \in ns : ~(k < j /\ j < l)
    BY <1>1, <1>2 DEF NextOf
  <2>2. CASE l = n
    BY <1>2, <2>2 DEF EndsWithSei, Elsewhere
  <2>3. CASE l \in ns
    BY <1>2, <2>1, <2>3 DEF Lone, NextOf
  <2> QED
    BY <2>2, <2>3
<1>3. ASSUME NEW k \in ns2, EndsWithSei(u, k, rec) PROVE \E l \in ns2 : k < l
  BY <1>1, <1>3
<1> QED
  BY <1>1, <1>2, <1>3 DEF Settled, Lone, Followed

\* A unit that ends with the message that comes, and the same if it is not a SEI.
LEMMA EndsNow ==
  ASSUME NEW rec, NEW n \in Nat \ {0}, NEW ns \in SUBSET (1..(n - 1)), NEW u, Last(u.of) = n
  PROVE  /\ Lone(u, rec, ns \cup {n}, n)
         /\ rec[n].packet # "sei" => Settled(u, rec, ns \cup {n}, n)
<1> DEFINE ns2 == ns \cup {n}
<1>1. \A l \in ns2 : ~(n < l)
  OBVIOUS
<1>2. \A k \in ns2 : EndsWithSei(u, k, rec) => k = n
  BY DEF EndsWithSei
<1>3. Lone(u, rec, ns2, n)
  BY <1>1, <1>2 DEF Lone, NextOf
<1>4. rec[n].packet # "sei" => Followed(u, rec, ns2)
  BY <1>2 DEF Followed, EndsWithSei
<1> QED
  BY <1>3, <1>4 DEF Settled

LEMMA LastAppended ==
  ASSUME NEW q \in Seq(Nat), NEW n \in Nat, NEW t
  PROVE  Last(Unit(t, Append(q, n)).of) = n /\ Last(Unit(t, <<n>>).of) = n
BY Appended DEF Last, Unit

\* Giving settled units.
LEMMA GiveSettled ==
  ASSUME NEW tr \in TrackType, NEW u \in Units, NEW rec, NEW ns, NEW top,
         AllSettled(tr, rec, ns, top), Settled(u, rec, ns, top)
  PROVE  /\ AllSettled(Give(tr, u), rec, ns, top)
         /\ AllSettled([Give(tr, u) EXCEPT !.held = NoUnit], rec, ns, top)
         /\ Give(tr, u) \in TrackType /\ Give(tr, u).held = tr.held
         /\ [Give(tr, u) EXCEPT !.held = NoUnit] \in TrackType
         /\ [Give(tr, u) EXCEPT !.held = NoUnit].held = NoUnit
<1> DEFINE p == Append(tr.out, u)
           e == [Give(tr, u) EXCEPT !.held = NoUnit]
<1>1. /\ p \in Seq(Units) /\ Len(tr.out) \in Nat /\ DOMAIN tr.out = 1..Len(tr.out)
      /\ DOMAIN p = 1..(Len(tr.out) + 1) /\ p[Len(tr.out) + 1] = u
      /\ \A i \in 1..Len(tr.out) : p[i] = tr.out[i]
  BY Appended DEF TrackType
<1>2. /\ Give(tr, u).out = p /\ Give(tr, u).held = tr.held /\ e.out = p /\ e.held = NoUnit
      /\ Give(tr, u) \in TrackType /\ e \in TrackType
  BY <1>1, NoUnitFits DEF TrackType, Give
<1>3. \A i \in DOMAIN p : i = Len(tr.out) + 1 \/ i \in 1..Len(tr.out)
  BY <1>1
<1>4. \A i \in DOMAIN p : Settled(p[i], rec, ns, top)
  BY <1>1, <1>3 DEF AllSettled
<1> HIDE DEF p, e
<1>5. AllSettled(Give(tr, u), rec, ns, top) /\ AllSettled(e, rec, ns, top)
  BY <1>2, <1>4 DEF AllSettled
<1> QED
  BY <1>2, <1>5 DEF e

LEMMA FlushSettled ==
  ASSUME NEW tr \in TrackType, NEW rec, NEW ns, NEW top, AllSettled(tr, rec, ns, top),
         tr.held.of # <<>> => Settled(tr.held, rec, ns, top)
  PROVE  /\ AllSettled(FlushPending(tr), rec, ns, top) /\ FlushPending(tr) \in TrackType
         /\ FlushPending(tr).held.of = <<>>
<1>1. tr.held \in Units
  BY DEF TrackType
<1>2. CASE tr.held.of # <<>>
  BY <1>1, <1>2, GiveSettled, NoUnitFits DEF FlushPending
<1>3. CASE tr.held.of = <<>>
  BY <1>3 DEF FlushPending
<1> QED
  BY <1>2, <1>3

\* The callback of an H264 track on media message n.
LEMMA H264Settles ==
  ASSUME NEW rec \in Seq(Messages), NEW n \in 1..Len(rec), NEW ns \in SUBSET (1..(n - 1)),
         NEW tr, GoodTrack(tr, rec), AllSettled(tr, rec, ns, n - 1),
         HeldLone(tr, rec, ns, n - 1), NEW res, res = OnDataH264(tr, rec[n], n)
  PROVE  /\ AllSettled(res.tr, rec, ns \cup {n}, n)
         /\ res.err = "none" => HeldLone(res.tr, rec, ns \cup {n}, n)
<1> DEFINE m == rec[n]
           ns2 == ns \cup {n}
           one == Unit(Time(m), <<n>>)
           f == FlushPending(tr)
           Away == m.packet \notin {"au", "sei"} \/ Time(m) # tr.held.time
<1>1. /\ n \in Nat \ {0} /\ m \in Messages /\ Time(m) \in Int \X Int /\ tr \in TrackType
      /\ m.packet \in {"config", "bare", "au", "sei", "empty", "bad", "eos"}
      /\ one \in Units
  BY MessageTime, MessagePackets, FitsOne DEF GoodTrack, Packets
<1>2. AllSettled(tr, rec, ns2, n)
  BY <1>1, StaysSettled DEF AllSettled
<1>3. Away /\ tr.held.of # <<>> => Settled(tr.held, rec, ns2, n)
  <2> SUFFICES ASSUME Away, tr.held.of # <<>> PROVE Settled(tr.held, rec, ns2, n)
    OBVIOUS
  <2>1. tr.held.of \in Seq(Nat)
    BY <1>1 DEF TrackType, Units
  <2>2. Len(tr.held.of) \in DOMAIN tr.held.of
    BY <2>1
  <2>3. Time(rec[Last(tr.held.of)]) = tr.held.time
    BY <2>2 DEF GoodTrack, Fits, Last
  <2> QED
    BY <1>1, <2>3, SettlesThen DEF HeldLone
<1>4. Last(one.of) = n
  <2>1. <<>> \in Seq(Nat) /\ n \in Nat
    BY <1>1
  <2> QED
    BY <2>1, LastAppended
<1>5. m.packet # "sei" => Settled(one, rec, ns2, n)
  BY <1>1, <1>4, EndsNow
<1>6. Away => /\ AllSettled(f, rec, ns2, n) /\ f \in TrackType /\ f.held.of = <<>>
              /\ HeldLone(f, rec, ns2, n) /\ HeldLone(tr, rec, ns2, n)
  BY <1>1, <1>2, <1>3, FlushSettled DEF HeldLone, Settled
<1>7. Away /\ m.packet # "sei" => AllSettled(Give(f, one), rec, ns2, n)
                                  /\ HeldLone(Give(f, one), rec, ns2, n)
  BY <1>1, <1>5, <1>6, GiveSettled DEF HeldLone
<1>8. CASE m.packet = "sei"
  <2> DEFINE t == IF tr.held.of # <<>> /\ tr.held.time # Time(m) THEN f ELSE tr
             u == Unit(Time(m), Append(t.held.of, n))
  <2>1. t \in TrackType /\ AllSettled(t, rec, ns2, n)
    BY <1>1, <1>2, <1>6
  <2>2. t.held.of \in Seq(Nat) /\ Last(u.of) = n
    BY <1>1, <2>1, LastAppended DEF TrackType, Units
  <2>3. Lone(u, rec, ns2, n)
    BY <1>1, <2>2, EndsNow
  <2>4. res = IF Len(t.held.of) + 1 > MaxUnits THEN Refused(t) ELSE Done([t EXCEPT !.held = u])
    BY <1>8, <2>1 DEF OnDataH264, Hold, Unit, TrackType
  <2>5. [t EXCEPT !.held = u].out = t.out /\ [t EXCEPT !.held = u].held = u
    BY <2>1 DEF TrackType
  <2> HIDE DEF t, u
  <2>6. AllSettled([t EXCEPT !.held = u], rec, ns2, n) /\ HeldLone([t EXCEPT !.held = u], rec, ns2, n)
    BY <2>1, <2>3, <2>5 DEF AllSettled, HeldLone
  <2> QED
    BY <2>1, <2>4, <2>6 DEF Refused, Done
<1>9. CASE m.packet = "au"
  <2> DEFINE u == Unit(Time(m), Append(tr.held.of, n))
  <2>1. res = Join(tr, m, n)
    BY <1>9 DEF OnDataH264
  <2>2. CASE tr.held.of # <<>> /\ tr.held.time = Time(m)
    <3>1. tr.held.of \in Seq(Nat) /\ u \in Units
      <4>1. tr.held.of \in Seq(Nat)
        BY <1>1 DEF TrackType, Units
      <4> QED
        BY <1>1, <4>1, Appended DEF Unit, Units
    <3>2. Settled(u, rec, ns2, n)
      BY <1>1, <1>9, <3>1, LastAppended, EndsNow
    <3>3. res = IF Len(tr.held.of) + 1 > MaxUnits THEN Refused(tr)
                ELSE Done([Give(tr, u) EXCEPT !.held = NoUnit])
      BY <2>1, <2>2 DEF Join
    <3> HIDE DEF u
    <3>4. /\ AllSettled([Give(tr, u) EXCEPT !.held = NoUnit], rec, ns2, n)
          /\ HeldLone([Give(tr, u) EXCEPT !.held = NoUnit], rec, ns2, n)
      BY <1>1, <1>2, <3>1, <3>2, GiveSettled, NoUnitFits DEF HeldLone
    <3> QED
      BY <1>2, <3>3, <3>4 DEF Refused, Done
  <2>3. CASE tr.held.of # <<>> /\ tr.held.time # Time(m)
    BY <1>7, <1>9, <2>1, <2>3 DEF Join, Done
  <2>4. CASE tr.held.of = <<>>
    <3>1. f = tr
      BY <2>4 DEF FlushPending
    <3>2. AllSettled(Give(tr, one), rec, ns2, n) /\ HeldLone(Give(tr, one), rec, ns2, n)
      BY <1>1, <1>2, <1>5, <1>9, <2>4, GiveSettled DEF HeldLone
    <3> QED
      BY <2>1, <2>4, <3>1, <3>2 DEF Join, Done
  <2> QED
    BY <2>2, <2>3, <2>4
<1>10. CASE m.packet = "config" /\ m.codec = "h264"
  BY <1>7, <1>10 DEF OnDataH264, Done
<1>11. CASE m.packet \in {"empty", "bare", "eos"} \/ (m.packet = "config" /\ m.codec # "h264")
  BY <1>2, <1>6, <1>11 DEF OnDataH264, Done
<1>12. CASE m.packet = "bad"
  BY <1>2, <1>12 DEF OnDataH264, Undecodable
<1> QED
  BY <1>1, <1>8, <1>9, <1>10, <1>11, <1>12

\* The H264 tracks of trs after the first top messages of rec: what was given, and
\* what a Reader that goes on still has to give.
Fine(trs, rec, top, reading) ==
  \A id \in TrackIDs : found.video[id] = "h264" =>
    LET tr == trs[<<"video", id>>]
        ns == MediaIn(rec, top, id)
    IN /\ \A i \in DOMAIN tr.out : Lone(tr.out[i], rec, ns, top)
       /\ reading => AllSettled(tr, rec, ns, top) /\ HeldLone(tr, rec, ns, top)

\* One more message is or is not a media message of a track.
LEMMA MoreMedia ==
  ASSUME NEW rec, NEW n \in Nat \ {0}, NEW id
  PROVE  MediaIn(rec, n, id)
           = MediaIn(rec, n - 1, id)
             \cup (IF rec[n].id = id /\ rec[n].kind \in {"video", "videoFrames"} THEN {n} ELSE {})
<1>1. \A k : k \in 1..n <=> k \in 1..(n - 1) \/ k = n
  OBVIOUS
<1> QED
  BY <1>1 DEF MediaIn

\* What Read does with the message that follows those it took.
LEMMA DispatchSettles ==
  ASSUME found \in FoundType, taken \in Seq(Nat), NEW rec \in Seq(Messages),
         NEW n \in 1..Len(rec), n = Len(taken) + 1, tracks \in [Streams -> TrackType],
         \A s \in Streams : GoodTrack(tracks[s], rec),
         Fine(tracks, rec, Len(taken), TRUE), phase = "ready",
         Dispatch(n, rec[n]), UNCHANGED found
  PROVE  Fine(tracks', rec, n, phase' = "ready")
<1> DEFINE m == rec[n]
           z == StreamOfMessage(m)
           res == Callback(MapOf(m)[m.id], tracks[z], m, n)
<1>1. /\ m \in Messages /\ m.id \in TrackIDs /\ n \in Nat \ {0} /\ Len(taken) = n - 1
      /\ z \in Streams
  BY MessageFields DEF Streams, StreamOfMessage
<1>2. \/ UNCHANGED tracks
         /\ (m.kind \notin LegacyKinds \cup FrameKinds \/ ~IsUp(MapOf(m), m.id))
      \/ /\ m.kind \in LegacyKinds \cup FrameKinds /\ IsUp(MapOf(m), m.id)
         /\ tracks' = [tracks EXCEPT ![z] = res.tr] /\ (phase' = "ready" => res.err = "none")
  <2>1. z[1] = "video" <=> m.kind \in {"video", "videoFrames"}
    BY DEF StreamOfMessage
  <2>2. MapOf(m) = IF z[1] = "video" THEN found.video ELSE found.audio
    BY <2>1 DEF MapOf
  <2>3. "unpublish" \notin LegacyKinds \cup FrameKinds
    BY DEF LegacyKinds, FrameKinds
  <2>4. res.err \in {"none", "limit", "undecodable", "panic"}
    BY <1>1, CallbackGood DEF Errors
  <2> QED
    BY <2>2, <2>3, <2>4 DEF Dispatch, StreamOfMessage
<1> SUFFICES ASSUME NEW id \in TrackIDs, found.video[id] = "h264"
             PROVE  LET tr == tracks'[<<"video", id>>]
                        ns == MediaIn(rec, n, id)
                    IN /\ \A i \in DOMAIN tr.out : Lone(tr.out[i], rec, ns, n)
                       /\ phase' = "ready" => AllSettled(tr, rec, ns, n) /\ HeldLone(tr, rec, ns, n)
  BY DEF Fine
<1> DEFINE v == <<"video", id>>
           ns == MediaIn(rec, n - 1, id)
           media == m.id = id /\ m.kind \in {"video", "videoFrames"}
<1>3. /\ v \in Streams /\ ns \in SUBSET (1..(n - 1))
      /\ AllSettled(tracks[v], rec, ns, n - 1) /\ HeldLone(tracks[v], rec, ns, n - 1)
  BY <1>1 DEF Fine, Streams, MediaIn
<1>4. MediaIn(rec, n, id) = ns \cup (IF media THEN {n} ELSE {})
  BY <1>1, MoreMedia
<1>5. media => v = z /\ MapOf(m)[m.id] = "h264" /\ IsUp(MapOf(m), m.id)
               /\ m.kind \in LegacyKinds \cup FrameKinds
  BY DEF StreamOfMessage, MapOf, IsUp, Codecs, VideoCodecs, LegacyKinds, FrameKinds
<1>6. v = z /\ m.kind \in LegacyKinds \cup FrameKinds => media
  BY DEF StreamOfMessage, LegacyKinds, FrameKinds
<1> HIDE DEF ns, v, z, m
<1>7. CASE media
  <2>1. res = OnDataH264(tracks[v], m, n)
    BY <1>5, <1>7 DEF Callback
  <2>2. tracks'[v] = res.tr /\ (phase' = "ready" => res.err = "none")
    BY <1>2, <1>3, <1>5, <1>7
  <2>3. GoodTrack(tracks[v], rec)
    BY <1>3
  <2> HIDE DEF res
  <2>4. /\ AllSettled(res.tr, rec, ns \cup {n}, n)
        /\ res.err = "none" => HeldLone(res.tr, rec, ns \cup {n}, n)
    BY <1>3, <2>1, <2>3, H264Settles DEF m
  <2>5. \A i \in DOMAIN res.tr.out : Lone(res.tr.out[i], rec, ns \cup {n}, n)
    BY <2>4 DEF AllSettled, Settled
  <2>6. MediaIn(rec, n, id) = ns \cup {n}
    BY <1>4, <1>7
  <2> QED
    BY <2>2, <2>4, <2>5, <2>6 DEF v
<1>8. CASE ~media
  <2>1. tracks'[v] = tracks[v]
    BY <1>1, <1>2, <1>3, <1>6, <1>8
  <2>2. MediaIn(rec, n, id) = ns
    BY <1>4, <1>8
  <2>3. \A u : Lone(u, rec, ns, n - 1) => Lone(u, rec, ns, n)
    BY <1>1 DEF Lone
  <2>4. \A tr : AllSettled(tr, rec, ns, n - 1) => AllSettled(tr, rec, ns, n)
    BY <2>3 DEF AllSettled, Settled
  <2>5. \A tr : HeldLone(tr, rec, ns, n - 1) => HeldLone(tr, rec, ns, n)
    BY <2>3 DEF HeldLone
  <2>6. AllSettled(tracks[v], rec, ns, n) /\ HeldLone(tracks[v], rec, ns, n)
    BY <1>3, <2>4, <2>5
  <2>7. \A i \in DOMAIN tracks[v].out : Lone(tracks[v].out[i], rec, ns, n)
    BY <2>6 DEF AllSettled, Settled
  <2> QED
    BY <2>1, <2>2, <2>6, <2>7 DEF v
<1> QED
  BY <1>7, <1>8

\* A longer record changes nothing of what was taken.
LEMMA SameRecord ==
  ASSUME NEW trs, NEW top \in Nat, NEW rec, NEW rec2, \A k \in 1..top : rec2[k] = rec[k],
         NEW reading \in BOOLEAN
  PROVE  /\ Complete(trs, rec, top) => Complete(trs, rec2, top)
         /\ Fine(trs, rec, top, reading) => Fine(trs, rec2, top, reading)
<1>1. Complete(trs, rec, top) => Complete(trs, rec2, top)
  BY DEF Complete
<1>2. \A id : MediaIn(rec2, top, id) = MediaIn(rec, top, id) /\ MediaIn(rec, top, id) \subseteq 1..top
  BY DEF MediaIn
<1>3. \A ns \in SUBSET (1..top) : \A u :
         /\ Lone(u, rec, ns, top) => Lone(u, rec2, ns, top)
         /\ Followed(u, rec, ns) => Followed(u, rec2, ns)
  BY DEF Lone, Followed, EndsWithSei, Elsewhere
<1>4. \A ns \in SUBSET (1..top) : \A tr :
         /\ AllSettled(tr, rec, ns, top) => AllSettled(tr, rec2, ns, top)
         /\ HeldLone(tr, rec, ns, top) => HeldLone(tr, rec2, ns, top)
  BY <1>3 DEF AllSettled, Settled, HeldLone
<1>5. Fine(trs, rec, top, reading) => Fine(trs, rec2, top, reading)
  <2> SUFFICES ASSUME Fine(trs, rec, top, reading), NEW id \in TrackIDs, found.video[id] = "h264"
               PROVE  LET tr == trs[<<"video", id>>]
                          ns == MediaIn(rec2, top, id)
                      IN /\ \A i \in DOMAIN tr.out : Lone(tr.out[i], rec2, ns, top)
                         /\ reading => AllSettled(tr, rec2, ns, top) /\ HeldLone(tr, rec2, ns, top)
    BY DEF Fine
  <2> DEFINE ns == MediaIn(rec, top, id)
  <2>1. ns \in SUBSET (1..top) /\ MediaIn(rec2, top, id) = ns
    BY <1>2
  <2>2. LET tr == trs[<<"video", id>>]
        IN /\ \A i \in DOMAIN tr.out : Lone(tr.out[i], rec, ns, top)
           /\ reading => AllSettled(tr, rec, ns, top) /\ HeldLone(tr, rec, ns, top)
    BY DEF Fine
  <2> HIDE DEF ns
  <2> QED
    BY <1>3, <1>4, <2>1, <2>2
<1> QED
  BY <1>1, <1>5

(***************************************************************************)
(* The invariant, on top of Inv: the numbers of what is read, that it is   *)
(* given or held, and that no SEI is left alone.                           *)
(***************************************************************************)
WholeInv == Whole /\ Fine(tracks, received, Len(taken), phase = "ready")

\* A track before the first message.
LEMMA NewTrackEmpty ==
  /\ NewTrack.held.of = <<>> /\ DOMAIN NewTrack.out = {}
  /\ Sorted(NewTrack) /\ \A x : ~Holds(NewTrack, x)
  /\ \A x : x \notin 1..0
  /\ \A id \in TrackIDs : <<"video", id>> \in Streams /\ <<"audio", id>> \in Streams
<1>1. /\ NewTrack.held.of = <<>> /\ DOMAIN NewTrack.out = {}
      /\ \A x : ~Among(x, NewTrack.held.of)
  BY EmptyAmong DEF NewTrack, NoUnit
<1>2. Sorted(NewTrack) /\ \A x : ~Holds(NewTrack, x)
  BY <1>1, EmptyAmong DEF Sorted, Holds, IsOut
<1> QED
  BY <1>1, <1>2 DEF Streams

LEMMA InitWhole == Init => WholeInv
<1> SUFFICES ASSUME Init PROVE WholeInv
  OBVIOUS
<1>1. Len(<<>>) = 0 /\ \A i : i \notin 1..0
  OBVIOUS
<1>2. Numbered
  BY <1>1 DEF Init, Numbered
<1>3. Fine(tracks, received, Len(taken), phase = "ready")
  BY <1>1, NewTrackEmpty DEF Init, Fine, AllSettled, HeldLone
<1> QED
  BY <1>2, <1>3 DEF Init, Whole, WholeInv

LEMMA AnalyzeWhole ==
  ASSUME Inv, WholeInv, NEW m \in Messages, Analyze(m)
  PROVE  WholeInv'
<1>1. /\ phase = "analyzing" /\ received' = Append(received, m) /\ UNCHANGED <<tracks, taken>>
      /\ taken = <<>> /\ Len(taken) = 0 /\ \A s \in Streams : tracks[s] = NewTrack
      /\ Len(entries) = Len(received) /\ \A i \in 1..Len(entries) : entries[i] = i
      /\ entries \in Seq(Nat)
  <2>1. entries \in Seq(1..Len(received)) /\ Len(received) \in Nat
    BY DEF Inv, Types
  <2>2. entries \in Seq(Nat)
    BY <2>1, LargerSet
  <2> QED
    BY <2>1, <2>2 DEF Analyze, WholeInv, Whole, Numbered
<1>2. Len(received) \in Nat /\ Len(received') = Len(received) + 1
  BY <1>1, Appended DEF Inv, Types
<1>3. phase' \notin {"ready", "analyzing"} \/ entries' = Append(entries, Len(received) + 1)
  BY DEF Analyze, Recorded, N
<1>4. phase' \in {"analyzing", "ready", "failed"}
  BY DEF Analyze
<1>5. entries' = Append(entries, Len(received) + 1) =>
        Len(entries') = Len(received') /\ \A i \in 1..Len(entries') : entries'[i] = i
  <2> SUFFICES ASSUME entries' = Append(entries, Len(received) + 1)
               PROVE  Len(entries') = Len(received') /\ \A i \in 1..Len(entries') : entries'[i] = i
    OBVIOUS
  <2>1. /\ Len(entries') = Len(entries) + 1 /\ entries'[Len(entries) + 1] = Len(received) + 1
        /\ \A i \in 1..Len(entries) : entries'[i] = entries[i]
    BY <1>1, <1>2, Appended
  <2>2. \A i \in 1..(Len(entries) + 1) : i \in 1..Len(entries) \/ i = Len(entries) + 1
    BY <1>1, <1>2
  <2> QED
    BY <1>1, <1>2, <2>1, <2>2
<1>6. Numbered'
  BY <1>1, <1>2, <1>3, <1>5 DEF Numbered
<1>7. Len(taken') = 0 /\ \A s \in Streams : tracks'[s] = NewTrack
  BY <1>1
<1>8. Complete(tracks, received, Len(taken))'
  BY <1>7, NewTrackEmpty DEF Complete
<1>9. HeldByH264(tracks)'
  BY <1>7, NewTrackEmpty DEF HeldByH264
<1>10. Fine(tracks, received, Len(taken), phase = "ready")'
  BY <1>7, NewTrackEmpty DEF Fine, AllSettled, HeldLone
<1> QED
  BY <1>6, <1>8, <1>9, <1>10 DEF Whole, WholeInv

\* The step of Read, wherever the message comes from.
LEMMA ReadWhole ==
  ASSUME Types, phase = "ready", received' \in Seq(Messages), NEW n \in 1..Len(received'),
         n = Len(taken) + 1, tracks \in [Streams -> TrackType],
         \A s \in Streams : GoodTrack(tracks[s], received'),
         Complete(tracks, received', Len(taken)), HeldByH264(tracks),
         Fine(tracks, received', Len(taken), TRUE),
         Dispatch(n, received'[n]), UNCHANGED found,
         Len(entries') + n = Len(received'), \A i \in 1..Len(entries') : entries'[i] = n + i
  PROVE  WholeInv'
<1> DEFINE rec == received'
           m == rec[n]
           z == StreamOfMessage(m)
           res == Callback(MapOf(m)[m.id], tracks[z], m, n)
<1>1. /\ found \in FoundType /\ taken \in Seq(Nat) /\ n \in Nat /\ taken' = Append(taken, n)
      /\ m \in Messages
  BY DEF Types, Dispatch
<1>2. Len(taken') = n /\ Len(rec) \in Nat
  BY <1>1, Appended
<1>3. phase' \in {"ready", "unpublished", "notSetUp", "limit", "undecodable", "panic"}
  <2>1. z \in Streams
    BY <1>1, MessageFields DEF Streams, StreamOfMessage
  <2>2. res.err \in {"none", "limit", "undecodable", "panic"}
    BY <1>1, <2>1, CallbackGood DEF Errors
  <2>3. z[1] = "video" <=> m.kind \in {"video", "videoFrames"}
    BY DEF StreamOfMessage
  <2>4. MapOf(m) = IF z[1] = "video" THEN found.video ELSE found.audio
    BY <2>3 DEF MapOf
  <2> QED
    BY <2>2, <2>4 DEF Dispatch, StreamOfMessage
<1> HIDE DEF rec, m, z, res
<1>4. Fine(tracks', rec, n, phase' = "ready")
  BY <1>1, DispatchSettles DEF rec
<1>5. phase' \in {"ready", "unpublished"} => Complete(tracks', rec, n) /\ HeldByH264(tracks')
  <2> SUFFICES ASSUME phase' \in {"ready", "unpublished"}
               PROVE  Complete(tracks', rec, n) /\ HeldByH264(tracks')
    OBVIOUS
  <2> QED
    BY <1>1, <1>2, DispatchTakes DEF rec
<1>6. Fine(tracks, received, Len(taken), phase = "ready")'
  BY <1>2, <1>4 DEF Fine, rec
<1>7. phase' \in {"ready", "unpublished"} => Complete(tracks, received, Len(taken))' /\ HeldByH264(tracks)'
  BY <1>2, <1>5 DEF Complete, Reaches, EmptyFrame, Carries, HeldByH264, rec
<1>8. Numbered'
  BY <1>2, <1>3 DEF Numbered, rec
<1> QED
  BY <1>3, <1>6, <1>7, <1>8 DEF Whole, WholeInv

LEMMA ReadRecordedWhole ==
  ASSUME Inv, WholeInv, ReadRecorded
  PROVE  WholeInv'
<1> DEFINE n == Head(entries)
<1>1. /\ phase = "ready" /\ entries # <<>> /\ entries' = Tail(entries)
      /\ Dispatch(n, received[n]) /\ UNCHANGED <<received, recorded, found>>
      /\ received \in Seq(Messages) /\ entries \in Seq(1..Len(received)) /\ taken \in Seq(Nat)
  BY DEF ReadRecorded, FromRecord, Inv, Types
<1>2. /\ n \in 1..Len(received) /\ Len(entries) \in Nat /\ Len(entries) >= 1 /\ n = entries[1]
      /\ Len(entries') = Len(entries) - 1 /\ Len(taken) \in Nat /\ Len(received) \in Nat
      /\ \A i \in 1..(Len(entries) - 1) : entries'[i] = entries[i + 1]
  BY <1>1
<1>3. /\ Len(taken) + Len(entries) = Len(received)
      /\ \A i \in 1..Len(entries) : entries[i] = Len(taken) + i
  BY <1>1 DEF WholeInv, Whole, Numbered
<1>4. n = Len(taken) + 1 /\ Len(entries') + n = Len(received')
  BY <1>1, <1>2, <1>3
<1>5. \A i \in 1..Len(entries') : entries'[i] = n + i
  <2> TAKE i \in 1..Len(entries')
  <2>1. i \in 1..(Len(entries) - 1) /\ i + 1 \in 1..Len(entries)
    BY <1>2
  <2> QED
    BY <1>2, <1>3, <1>4, <2>1
<1>6. /\ Complete(tracks, received, Len(taken)) /\ HeldByH264(tracks)
      /\ Fine(tracks, received, Len(taken), TRUE)
  BY <1>1 DEF WholeInv, Whole, Fine
<1>7. Types /\ tracks \in [Streams -> TrackType] /\ \A s \in Streams : GoodTrack(tracks[s], received)
  BY DEF Inv, Given
<1> HIDE DEF n
<1> QED
  BY <1>1, <1>2, <1>4, <1>5, <1>6, <1>7, ReadWhole

LEMMA ReadNewWhole ==
  ASSUME Inv, WholeInv, NEW m \in Messages, ReadNew(m)
  PROVE  WholeInv'
<1>1. /\ phase = "ready" /\ received' = Append(received, m) /\ Dispatch(N, m)
      /\ UNCHANGED <<entries, recorded, found>> /\ entries = <<>> /\ Len(entries) = 0
      /\ taken \in Seq(Nat)
  BY DEF ReadNew, FromRecord, Inv, Types
<1>2. /\ received' \in Seq(Messages) /\ Len(received) \in Nat
      /\ Len(received') = Len(received) + 1 /\ received'[N] = m
      /\ \A i \in 1..Len(received) : received'[i] = received[i]
      /\ N \in 1..Len(received')
      /\ \A s \in Streams : GoodTrack(tracks[s], received')
  BY <1>1, OneMore
<1>3. Len(taken) = Len(received) /\ N = Len(taken) + 1 /\ Len(taken) \in Nat
  BY <1>1, <1>2 DEF WholeInv, Whole, Numbered, N
<1>4. /\ Complete(tracks, received', Len(taken)) /\ HeldByH264(tracks)
      /\ Fine(tracks, received', Len(taken), TRUE)
  <2>1. /\ Complete(tracks, received, Len(taken)) /\ HeldByH264(tracks)
        /\ Fine(tracks, received, Len(taken), TRUE)
    BY <1>1 DEF WholeInv, Whole, Fine
  <2>2. \A k \in 1..Len(taken) : received'[k] = received[k]
    BY <1>2, <1>3
  <2> QED
    BY <1>3, <2>1, <2>2, SameRecord
<1>5. Len(entries') + N = Len(received') /\ \A i \in 1..Len(entries') : entries'[i] = N + i
  <2>1. Len(entries') = 0
    BY <1>1
  <2> QED
    BY <1>2, <2>1 DEF N
<1>6. Types /\ tracks \in [Streams -> TrackType]
  BY DEF Inv, Given
<1>7. Dispatch(N, received'[N])
  BY <1>1, <1>2
<1> DEFINE n == N
<1>8. n \in 1..Len(received') /\ n = Len(taken) + 1 /\ Dispatch(n, received'[n])
      /\ Len(entries') + n = Len(received') /\ \A i \in 1..Len(entries') : entries'[i] = n + i
  BY <1>2, <1>3, <1>5, <1>7
<1> HIDE DEF n
<1> QED
  BY <1>1, <1>2, <1>4, <1>6, <1>8, ReadWhole

\* The finalizers: what is held is given.
LEMMA ConnEndsWhole ==
  ASSUME Inv, WholeInv, ConnEnds
  PROVE  WholeInv'
<1>1. /\ UNCHANGED <<received, entries, recorded, found, taken>>
      /\ \/ phase = "analyzing" /\ phase' = "failed" /\ UNCHANGED tracks
         \/ /\ phase = "ready" /\ phase' = "ended"
            /\ tracks' = [s \in Streams |-> IF found[s[1]][s[2]] = "h264"
                                            THEN FlushPending(tracks[s]) ELSE tracks[s]]
  BY DEF ConnEnds
<1>2. Numbered'
  BY <1>1 DEF WholeInv, Whole, Numbered
<1>3. CASE phase = "analyzing" /\ phase' = "failed" /\ UNCHANGED tracks
  <2>1. Fine(tracks, received, Len(taken), phase = "ready")'
    BY <1>1, <1>3 DEF WholeInv, Fine
  <2> QED
    BY <1>2, <1>3, <2>1 DEF Whole, WholeInv
<1>4. CASE /\ phase = "ready" /\ phase' = "ended"
           /\ tracks' = [s \in Streams |-> IF found[s[1]][s[2]] = "h264"
                                           THEN FlushPending(tracks[s]) ELSE tracks[s]]
  <2>1. Complete(tracks, received, Len(taken)) /\ Fine(tracks, received, Len(taken), TRUE)
    BY <1>4 DEF WholeInv, Whole, Fine
  <2>2. \A s \in Streams : tracks[s] \in TrackType /\ tracks'[s] \in {tracks[s], FlushPending(tracks[s])}
    BY <1>4 DEF Inv, Given
  <2>3. ASSUME NEW s \in Streams
        PROVE  /\ Sorted(tracks'[s])
               /\ \A x \in Nat : Holds(tracks'[s], x) <=> x \in 1..Len(taken) /\ Reaches(s, received[x])
    BY <2>1, <2>2, FlushSorted DEF Complete
  <2>4. Complete(tracks, received, Len(taken))'
    BY <1>1, <2>3 DEF Complete, Reaches, EmptyFrame, Carries
  <2>5. ASSUME NEW id \in TrackIDs, found.video[id] = "h264",
               NEW i \in DOMAIN tracks'[<<"video", id>>].out
        PROVE  Lone(tracks'[<<"video", id>>].out[i], received, MediaIn(received, Len(taken), id), Len(taken))
    <3> DEFINE tr == tracks[<<"video", id>>]
               ns == MediaIn(received, Len(taken), id)
               top == Len(taken)
    <3>1. <<"video", id>> \in Streams
      BY DEF Streams
    <3>2. /\ \A j \in DOMAIN tr.out : Lone(tr.out[j], received, ns, top)
          /\ tr.held.of # <<>> => Lone(tr.held, received, ns, top)
      BY <2>1, <2>5 DEF Fine, HeldLone
    <3>3. tr \in TrackType /\ tracks'[<<"video", id>>] \in {tr, FlushPending(tr)}
      BY <2>2, <3>1
    <3> HIDE DEF tr, ns, top
    <3>4. \A j \in DOMAIN FlushPending(tr).out : Lone(FlushPending(tr).out[j], received, ns, top)
      <4>1. CASE tr.held.of # <<>>
        <5>1. /\ Append(tr.out, tr.held) \in Seq(Units) /\ Len(tr.out) \in Nat
              /\ DOMAIN Append(tr.out, tr.held) = 1..(Len(tr.out) + 1)
              /\ DOMAIN tr.out = 1..Len(tr.out)
              /\ Append(tr.out, tr.held)[Len(tr.out) + 1] = tr.held
              /\ \A j \in 1..Len(tr.out) : Append(tr.out, tr.held)[j] = tr.out[j]
          BY <3>3, Appended DEF TrackType
        <5>2. FlushPending(tr).out = Append(tr.out, tr.held)
          BY <3>3, <4>1 DEF FlushPending, Give, TrackType
        <5>3. \A j \in 1..(Len(tr.out) + 1) : j \in 1..Len(tr.out) \/ j = Len(tr.out) + 1
          BY <5>1
        <5> QED
          BY <3>2, <4>1, <5>1, <5>2, <5>3
      <4>2. CASE tr.held.of = <<>>
        BY <3>2, <4>2 DEF FlushPending
      <4> QED
        BY <4>1, <4>2
    <3>5. Lone(tracks'[<<"video", id>>].out[i], received, ns, top)
      BY <2>5, <3>2, <3>3, <3>4
    <3> QED
      BY <3>5 DEF ns, top
  <2>6. Fine(tracks, received, Len(taken), phase = "ready")'
    BY <1>1, <1>4, <2>5 DEF Fine
  <2> QED
    BY <1>2, <1>4, <2>4, <2>6 DEF Whole, WholeInv
<1> QED
  BY <1>1, <1>3, <1>4

LEMMA StutterWhole == WholeInv /\ UNCHANGED vars => WholeInv'
<1> SUFFICES ASSUME WholeInv, UNCHANGED vars PROVE WholeInv'
  OBVIOUS
<1>1. Numbered'
  BY DEF WholeInv, Whole, Numbered, vars
<1>2. (phase \in {"ready", "ended", "unpublished"} => Complete(tracks, received, Len(taken)))'
  BY DEF WholeInv, Whole, Complete, Reaches, EmptyFrame, Carries, vars
<1>3. (phase = "ready" => HeldByH264(tracks))'
  BY DEF WholeInv, Whole, HeldByH264, vars
<1>4. Fine(tracks, received, Len(taken), phase = "ready")'
  BY DEF WholeInv, Fine, vars
<1> QED
  BY <1>1, <1>2, <1>3, <1>4 DEF WholeInv, Whole

LEMMA WholeKept == Inv /\ WholeInv /\ [Next]_vars => WholeInv'
BY AnalyzeWhole, ReadRecordedWhole, ReadNewWhole, ConnEndsWhole, StutterWhole DEF Next, Receive

LEMMA WholeAlways == Spec => [](Inv /\ WholeInv)
BY Invariance, InitWhole, WholeKept, PTL DEF Spec

(***************************************************************************)
(* The theorems.                                                           *)
(***************************************************************************)
\* The record never exceeds its limit and holds numbers of messages that came,
\* an access unit is never made of more messages than the limit, and the maps
\* of tracks hold codecs of their kind (rewindable_conn.go:28-31, reader.go:715-757).
THEOREM TypeCorrect == Spec => []TypeOK
<1>1. Inv => TypeOK
  <2> SUFFICES ASSUME Inv PROVE TypeOK
    OBVIOUS
  <2>1. \A i \in TrackIDs : /\ found.video[i] \in VideoCodecs \cup {"absent", "nil"}
                            /\ found.audio[i] \in AudioCodecs \cup {"absent", "nil"}
    BY DEF Inv, Types, FoundType, VideoMap, AudioMap
  <2>2. \A s \in Streams : Len(tracks[s].held.of) <= MaxUnits
    BY DEF Inv, Given, GoodTrack
  <2>3. phase \in {"analyzing", "ready", "ended", "unpublished", "failed", "notSetUp",
                   "limit", "undecodable", "panic"}
    BY DEF Inv, Types, Phases
  <2>4. received \in Seq(Messages) /\ entries \in Seq(1..Len(received))
        /\ Len(entries) <= MaxRecordedSize
    BY DEF Inv, Types
  <2> QED
    BY <2>1, <2>2, <2>3, <2>4 DEF TypeOK
<1> QED
  BY Invariance, <1>1, PTL

LEMMA GoodOneInstant == Inv => OneInstant
BY DEF Inv, Given, GoodTrack, Fits, OneInstant

\* Whatever the peer sends and however large the limits are, the NALUs of an
\* access unit were sent with the timestamps it is given with (reader.go:708-757).
THEOREM AlwaysOneInstant == Spec => []OneInstant
BY Invariance, GoodOneInstant, PTL

\* A message is refused for want of its track only if nothing that was analyzed
\* announces that track (reader.go:319-556 against 945-976).
THEOREM RefusalsJustified == Spec => []OnlyUnannouncedRefused
<1>1. Inv => OnlyUnannouncedRefused
  <2> SUFFICES ASSUME Inv, phase = "notSetUp", NEW i \in 1..recorded,
                      Announces(received[i], received[Last(taken)])
               PROVE  FALSE
    BY DEF OnlyUnannouncedRefused
  <2> DEFINE k == received[i]
             m == received[Last(taken)]
  <2>1. /\ m.kind \in LegacyKinds \cup FrameKinds /\ ~IsUp(MapOf(m), m.id)
        /\ Up(found, k) /\ Announces(k, m)
    BY DEF Inv, Refusal, AnalyzedAll
  <2> HIDE DEF k, m
  <2>2. CASE m.kind \in {"video", "videoFrames"}
    BY <2>1, <2>2 DEF Announces, Up, AnnouncesVideo, MapOf
  <2>3. CASE m.kind \notin {"video", "videoFrames"}
    BY <2>1, <2>3 DEF Announces, Up, AnnouncesAudio, MapOf
  <2> QED
    BY <2>2, <2>3
<1> QED
  BY Invariance, <1>1, PTL

\* A track that holds what is for it, sorted, is given it once and in order.
LEMMA WholeConserved == Inv /\ WholeInv => Conserved
<1> SUFFICES ASSUME Inv, WholeInv, phase \in {"ready", "ended", "unpublished"}, NEW s \in Streams
             PROVE  /\ NumbersIn(UnitsOf(s)) = {n \in 1..Len(taken) : Reaches(s, received[n])}
                    /\ InOrder(UnitsOf(s))
  BY DEF Conserved, Reaches, Carried, EmptyFrames
<1> DEFINE tr == tracks[s]
           us == UnitsOf(s)
<1>1. tr \in TrackType /\ Sorted(tr)
      /\ \A x \in Nat : Holds(tr, x) <=> x \in 1..Len(taken) /\ Reaches(s, received[x])
  BY DEF Inv, Given, WholeInv, Whole, Complete
<1>2. /\ us \in Seq(Units) /\ Len(tr.out) \in Nat /\ DOMAIN tr.out = 1..Len(tr.out)
      /\ DOMAIN us = 1..(Len(tr.out) + 1) /\ us[Len(tr.out) + 1] = tr.held
      /\ \A i \in 1..Len(tr.out) : us[i] = tr.out[i]
  BY <1>1, Appended DEF TrackType, UnitsOf
<1> HIDE DEF us, tr
<1>3. /\ \A i \in 1..(Len(tr.out) + 1) : i \in 1..Len(tr.out) \/ i = Len(tr.out) + 1
      /\ \A i \in 1..Len(tr.out) : i \in 1..(Len(tr.out) + 1)
      /\ Len(tr.out) + 1 \in 1..(Len(tr.out) + 1)
  BY <1>2
<1>4. ASSUME NEW x PROVE Holds(tr, x) <=> \E i \in DOMAIN us : Among(x, us[i].of)
  BY <1>2, <1>3 DEF Holds, IsOut
<1>5. \A i \in DOMAIN us : \A k \in DOMAIN us[i].of : us[i].of[k] \in Nat
  <2> TAKE i \in DOMAIN us
  <2>1. us[i] \in Units
    BY <1>2
  <2>2. us[i].of \in Seq(Nat)
    BY <2>1 DEF Units
  <2> QED
    BY <2>2
<1>6. NumbersIn(us) = {n \in 1..Len(taken) : Reaches(s, received[n])}
  <2>1. \A x : x \in NumbersIn(us) <=> \E i \in DOMAIN us : Among(x, us[i].of)
    BY DEF NumbersIn, Range, Among
  <2>2. \A x : (\E i \in DOMAIN us : Among(x, us[i].of)) => x \in Nat
    BY <1>5 DEF Among
  <2>3. 1..Len(taken) \subseteq Nat
    OBVIOUS
  <2> QED
    BY <1>1, <1>4, <2>1, <2>2, <2>3
<1>7. ASSUME NEW i \in DOMAIN us, NEW j \in DOMAIN us, NEW k \in DOMAIN us[i].of,
             NEW l \in DOMAIN us[j].of, i < j \/ (i = j /\ k < l)
      PROVE  us[i].of[k] < us[j].of[l]
  <2>1. CASE i = j /\ k < l
    BY <1>1, <1>2, <1>3, <1>7, <2>1 DEF Sorted, Increasing
  <2>2. CASE i < j
    <3>1. i \in 1..Len(tr.out)
      BY <1>2, <2>2
    <3>2. Before(us[i].of, us[j].of)
      <4>1. CASE j = Len(tr.out) + 1
        BY <1>1, <1>2, <3>1, <4>1 DEF Sorted
      <4>2. CASE j \in 1..Len(tr.out)
        BY <1>1, <1>2, <2>2, <3>1, <4>2 DEF Sorted
      <4> QED
        BY <1>2, <1>3, <4>1, <4>2
    <3> QED
      BY <1>7, <3>2 DEF Before
  <2> QED
    BY <1>7, <2>1, <2>2
<1>8. InOrder(us)
  BY <1>7 DEF InOrder
<1> QED
  BY <1>6, <1>8 DEF us

\* Whatever the peer sends, every message with something for a track reaches its
\* callback once and in the order of arrival, the messages that were read to find
\* the tracks included, or is held for the next access unit
\* (rewindable_conn.go:24-53, reader.go:602-978).
THEOREM AlwaysConserved == Spec => []Conserved
BY WholeAlways, WholeConserved, PTL

\* A unit that ends with a SEI is given to the callback of an H264 track only if the
\* next message of the track is not an access unit of the same instant, so that the
\* SEI is never parted from it (reader.go:709-757).
THEOREM AlwaysJoined == Spec => []SeiJoined
<1>1. WholeInv => SeiJoined
  <2> SUFFICES ASSUME WholeInv, NEW id \in TrackIDs, found.video[id] = "h264",
                      NEW i \in DOMAIN tracks[<<"video", id>>].out,
                      NEW k \in Media(id), NEW l \in Media(id), NextOf(k, l, Media(id)),
                      Last(tracks[<<"video", id>>].out[i].of) = k, received[k].packet = "sei"
               PROVE  received[l].packet \notin {"au", "sei"} \/ Time(received[l]) # Time(received[k])
    BY DEF SeiJoined
  <2>1. Media(id) = MediaIn(received, Len(taken), id)
    BY DEF Media, MediaIn
  <2>2. Lone(tracks[<<"video", id>>].out[i], received, Media(id), Len(taken))
    BY <2>1 DEF WholeInv, Fine
  <2> QED
    BY <2>2 DEF Lone, EndsWithSei, Elsewhere
<1> QED
  BY WholeAlways, <1>1, PTL

-------------------------------------------------------------------------------
\* The id of a track is a byte.
IdsFit == \A l \in TrackLists : Len(l) <= 256

(***************************************************************************)
(* Tracks.                                                                 *)
(***************************************************************************)
LEMMA ElementsOf ==
  ASSUME NEW S, NEW q \in Seq(S)
  PROVE  Len(q) \in Nat /\ DOMAIN q = 1..Len(q) /\ \A i \in DOMAIN q : q[i] \in S
OBVIOUS

LEMMA ListFields ==
  ASSUME NEW l \in TrackLists
  PROVE  /\ Len(l) \in Nat /\ DOMAIN l = 1..Len(l)
         /\ \A i \in DOMAIN l : l[i].codec \in Codecs /\ l[i].bad \in BOOLEAN
         /\ \A i \in DOMAIN l : KindOf(l[i]) = "video" <=> l[i].codec \in VideoCodecs
         /\ \A i \in DOMAIN l : KindOf(l[i]) = "audio" <=> l[i].codec \in AudioCodecs
         /\ \A i \in DOMAIN l : KindOf(l[i]) \in {"video", "audio"}
         /\ \A i \in DOMAIN l : TrackID(l, i) \in TrackIDs
<1>1. l \in Seq([codec : Codecs, bad : BOOLEAN])
  BY PublishAssumption
<1>2. /\ Len(l) \in Nat /\ DOMAIN l = 1..Len(l)
      /\ \A i \in DOMAIN l : l[i] \in [codec : Codecs, bad : BOOLEAN]
  BY <1>1, ElementsOf
<1>3. \A i \in DOMAIN l : TrackID(l, i) \in TrackIDs
  BY PublishAssumption
<1> QED
  BY <1>2, <1>3 DEF KindOf, IsVideo, Codecs, VideoCodecs, AudioCodecs

\* The tracks of the kind of track i that precede it.
Earlier(l, i) == {j \in 1..(i - 1) : KindOf(l[j]) = KindOf(l[i])}

LEMMA EarlierTracks ==
  ASSUME NEW l, NEW i \in 1..256
  PROVE  /\ IsFiniteSet(Earlier(l, i)) /\ Cardinality(Earlier(l, i)) \in 0..255
         /\ TrackID(l, i) = Cardinality(Earlier(l, i))
<1>1. IsFiniteSet(1..(i - 1)) /\ Cardinality(1..(i - 1)) = i - 1
  <2>1. 1 \in Int /\ i - 1 \in Int /\ 1 - 1 <= i - 1
    OBVIOUS
  <2>2. /\ IsFiniteSet(1..(i - 1))
        /\ Cardinality(1..(i - 1)) = IF 1 > i - 1 THEN 0 ELSE (i - 1) - 1 + 1
    BY <2>1, FS_Interval
  <2> QED
    BY <2>2
<1>2. Earlier(l, i) \in SUBSET (1..(i - 1))
  BY DEF Earlier
<1>3. IsFiniteSet(Earlier(l, i)) /\ Cardinality(Earlier(l, i)) <= i - 1
  BY <1>1, <1>2, FS_Subset
<1>4. Cardinality(Earlier(l, i)) \in Nat
  BY <1>3, FS_CardinalityType
<1>5. TrackID(l, i) = Cardinality(Earlier(l, i)) % 256
  BY DEF TrackID, Earlier
<1>6. Cardinality(Earlier(l, i)) \in 0..255
  BY <1>3, <1>4
<1> HIDE DEF Earlier
<1>7. \A n \in 0..255 : n % 256 = n
  BY SMT
<1> QED
  BY <1>3, <1>5, <1>6, <1>7

\* No two tracks of a kind have the same id.
LEMMA DistinctTracks ==
  ASSUME NEW l \in TrackLists, Len(l) <= 256, NEW i \in DOMAIN l, NEW j \in DOMAIN l,
         KindOf(l[i]) = KindOf(l[j]), TrackID(l, i) = TrackID(l, j)
  PROVE  i = j
<1>1. ASSUME NEW a \in 1..256, NEW b \in 1..256, a < b, KindOf(l[a]) = KindOf(l[b])
      PROVE  TrackID(l, a) # TrackID(l, b)
  <2> DEFINE e == Earlier(l, a)
             f == Earlier(l, b)
  <2>1. e \cup {a} \in SUBSET f /\ a \notin e
    BY <1>1 DEF Earlier
  <2>2. IsFiniteSet(e) /\ IsFiniteSet(f) /\ Cardinality(e) \in 0..255 /\ Cardinality(f) \in 0..255
    BY EarlierTracks
  <2>3. Cardinality(e \cup {a}) = Cardinality(e) + 1
    BY <2>1, <2>2, FS_AddElement
  <2>4. Cardinality(e \cup {a}) <= Cardinality(f)
    BY <2>1, <2>2, FS_Subset
  <2>5. TrackID(l, a) = Cardinality(e) /\ TrackID(l, b) = Cardinality(f)
    BY EarlierTracks
  <2>6. Cardinality(e) + 1 <= Cardinality(f)
    BY <2>3, <2>4
  <2>7. \A x, y \in 0..255 : x + 1 <= y => x # y
    OBVIOUS
  <2> QED
    BY <2>2, <2>5, <2>6, <2>7
<1>2. Len(l) \in Nat /\ i \in 1..Len(l) /\ j \in 1..Len(l)
  BY ListFields
<1>3. \A n \in Nat : \A k \in 1..n : n <= 256 => k \in 1..256
  OBVIOUS
<1>4. i \in 1..256 /\ j \in 1..256
  BY <1>2, <1>3
<1>5. i < j \/ j < i \/ i = j
  BY <1>4
<1> QED
  BY <1>1, <1>4, <1>5

(***************************************************************************)
(* Messages.                                                               *)
(***************************************************************************)
\* What the announcement of a track tells a Reader.
LEMMA AnnouncementFacts ==
  ASSUME NEW l \in TrackLists, NEW i \in DOMAIN l, NEW m \in Range(Announcement(l, i))
  PROVE  /\ m \in Messages /\ m.id = TrackID(l, i) /\ m.codec = l[i].codec
         /\ m.packet = IF Unconfigured(l, i) THEN "bare" ELSE "config"
         /\ m.dts = 0 /\ m.multi = (m.id # 0)
         /\ KindOf(l[i]) = "video" =>
              m.kind = IF m.codec = "h264" /\ m.id = 0 THEN "video" ELSE "videoStart"
         /\ KindOf(l[i]) = "audio" =>
              /\ m.codec \in {"aac", "opus", "flac", "ac3"}
              /\ m.kind = IF m.codec = "aac" /\ m.id = 0 THEN "audio" ELSE "audioStart"
<1>1. m \in Messages
  <2>1. m \in MessagesOf(l, i)
    BY DEF MessagesOf
  <2>2. m \in WriterMessages
    BY <2>1 DEF WriterMessages
  <2> QED
    BY <2>2, PublishAssumption
<1>2. \A x, y : x \in Range(<<y>>) => x = y
  BY DEF Range
<1>3. \A x : x \notin Range(<<>>)
  BY DEF Range
<1>4. l[i].codec \in Codecs /\ (KindOf(l[i]) = "video" <=> l[i].codec \in VideoCodecs)
      /\ (KindOf(l[i]) = "audio" <=> l[i].codec \in AudioCodecs)
  BY ListFields
<1>5. \A kind : m \in Range(Start(kind, l, i)) =>
        m = OutMessage(kind, TrackID(l, i), l[i].codec, "config", 0, 0)
  BY <1>2 DEF Start
<1>6. CASE KindOf(l[i]) = "video"
  <2>1. m \in Range(VideoAnnouncement(l, i))
    BY <1>6 DEF Announcement, KindOf
  <2> QED
    BY <1>1, <1>4, <1>5, <1>6, <2>1 DEF VideoAnnouncement, OutMessage, Unconfigured, VideoCodecs
<1>7. CASE KindOf(l[i]) = "audio"
  <2>1. m \in Range(AudioAnnouncement(l, i))
    BY <1>7 DEF Announcement, KindOf
  <2>2. l[i].codec \in {"aac", "mp3", "opus", "flac", "ac3", "g711", "lpcm"}
    BY <1>4, <1>7 DEF AudioCodecs
  <2>3. l[i].codec \notin {"mp3", "g711", "lpcm"}
    BY <1>3, <2>1 DEF AudioAnnouncement
  <2>4. CASE l[i].codec = "aac" /\ ~Unconfigured(l, i)
    <3> DEFINE kind == IF TrackID(l, i) = 0 THEN "audio" ELSE "audioStart"
    <3>1. AudioAnnouncement(l, i) = Start(kind, l, i)
      <4>1. CASE TrackID(l, i) = 0
        BY <2>4, <4>1 DEF AudioAnnouncement, Unconfigured
      <4>2. CASE TrackID(l, i) # 0
        BY <2>4, <4>2 DEF AudioAnnouncement, Unconfigured
      <4> QED
        BY <4>1, <4>2
    <3> HIDE DEF kind
    <3>2. m = OutMessage(kind, TrackID(l, i), l[i].codec, "config", 0, 0)
      BY <1>5, <2>1, <3>1
    <3> QED
      BY <1>1, <1>7, <2>4, <3>2 DEF OutMessage, kind
  <2>5. CASE l[i].codec \in {"opus", "flac", "ac3"}
    BY <1>1, <1>5, <1>7, <2>1, <2>5 DEF AudioAnnouncement, OutMessage, Unconfigured
  <2>6. CASE Unconfigured(l, i)
    <3>1. m = OutMessage("audio", 0, "aac", "bare", 0, 0)
      BY <1>2, <2>1, <2>6 DEF AudioAnnouncement, Unconfigured
    <3>2. l[i].codec = "aac" /\ TrackID(l, i) = 0
      BY <2>6 DEF Unconfigured
    <3> QED
      BY <1>1, <1>7, <2>6, <3>1, <3>2 DEF OutMessage
  <2> QED
    BY <2>2, <2>3, <2>4, <2>5, <2>6
<1> QED
  BY <1>6, <1>7, ListFields

FrameType == [track : Nat, dts : Nat, payload : {"au", "sei", "layer2", "odd rate", "config"}, pts : Nat]

\* What a frame carries, and what becomes of it.
LEMMA FrameFacts ==
  ASSUME NEW l \in TrackLists, NEW i \in DOMAIN l, ~Indescribable(l, i),
         NEW t \in Times, NEW f \in FramesOn(l, i, t), NEW m, m = FrameMessage(l, f)
  PROVE  /\ m \in Messages /\ m.id = TrackID(l, i) /\ m.codec = l[i].codec
         /\ m.packet \in {"au", "sei"} /\ Time(m) = <<f.pts, f.dts>> /\ m.dts = f.dts
         /\ m.packet = "sei" => f.payload = "sei"
         /\ f.track = i /\ f \in FrameType
         /\ m.multi = (m.id # 0)
         /\ KindOf(l[i]) = "video" => m.kind \in {"video", "videoFrames"} /\ VideoFor(m.codec, m)
         /\ KindOf(l[i]) = "audio" =>
              m.kind \in {"audio", "audioFrames"} /\ AudioFor(m.codec, m) /\ m.packet = "au"
         /\ m.kind = "video" => m.codec = "h264"
         /\ m.kind = "audioFrames" => m.codec \notin {"g711", "lpcm"}
         /\ m.codec = "aac" => (m.kind = "audio" <=> m.id = 0)
<1>1. m \in Messages
  <2>1. m \in MessagesOf(l, i)
    BY DEF MessagesOf
  <2>2. m \in WriterMessages
    BY <2>1 DEF WriterMessages
  <2> QED
    BY <2>2, PublishAssumption
<1>2. l[i].codec \in Codecs /\ (KindOf(l[i]) = "video" <=> l[i].codec \in VideoCodecs)
      /\ (KindOf(l[i]) = "audio" <=> l[i].codec \in AudioCodecs)
      /\ Len(l) \in Nat /\ i \in 1..Len(l)
  BY ListFields
<1>3. PICK delta \in Deltas, payload \in Payloads(l[i].codec) :
        f = [track |-> i, dts |-> t, payload |-> payload,
             pts |-> IF l[i].codec \in {"h264", "h265"} THEN t + delta ELSE t]
  BY DEF FramesOn
<1>4. /\ f.track = i /\ f.dts = t /\ f.payload = payload /\ t \in Nat /\ i \in Nat
      /\ f.pts = IF l[i].codec \in {"h264", "h265"} THEN t + delta ELSE t
      /\ f \in FrameType
  <2>1. t \in Nat /\ delta \in Nat /\ t + delta \in Nat
    BY PublishAssumption
  <2>2. payload \in {"au", "sei", "layer2", "odd rate", "config"}
    BY DEF Payloads
  <2>3. /\ f.track = i /\ f.dts = t /\ f.payload = payload /\ i \in Nat
        /\ f.pts = IF l[i].codec \in {"h264", "h265"} THEN t + delta ELSE t
    BY <1>2, <1>3
  <2>4. f.pts \in Nat
    BY <2>1, <2>3
  <2>5. f \in FrameType
    BY <1>3, <2>1, <2>2, <2>3, <2>4 DEF FrameType
  <2> QED
    BY <2>1, <2>3, <2>5
<1>5. l[i].codec = "h264" => payload \in {"au", "sei"}
  BY DEF Payloads
<1>6. l[i].codec = "h265" => payload = "au"
  BY DEF Payloads
<1>7. l[i].codec \in {"g711", "lpcm"} => TrackID(l, i) = 0
  BY DEF Indescribable, OnlyFirst
<1> DEFINE id == TrackID(l, i)
           codec == l[i].codec
<1> HIDE DEF id
<1>8. CASE codec \in {"av1", "vp9"}
  <2>1. m = OutMessage("videoFrames", id, codec, "au", t, t)
    BY <1>4, <1>8 DEF FrameMessage, WriteFramesX, OnlyFirst, id
  <2> QED
    BY <1>1, <1>2, <1>4, <1>8, <2>1 DEF OutMessage, Time, VideoFor, VideoCodecs, AudioCodecs, id
<1>9. CASE codec = "h265"
  <2>1. m = OutMessage("videoFrames", id, codec, payload, t, f.pts)
    BY <1>4, <1>9 DEF FrameMessage, WriteH265, OnlyFirst, id
  <2> QED
    BY <1>1, <1>2, <1>4, <1>6, <1>9, <2>1 DEF OutMessage, Time, VideoFor, VideoCodecs, AudioCodecs, id
<1>10. CASE codec = "h264"
  <2>1. m = OutMessage(IF id = 0 THEN "video" ELSE "videoFrames", id, codec, payload, t, f.pts)
    BY <1>4, <1>10 DEF FrameMessage, WriteH264, OnlyFirst, id
  <2> QED
    BY <1>1, <1>2, <1>4, <1>5, <1>10, <2>1 DEF OutMessage, Time, VideoFor, VideoCodecs, AudioCodecs, id
<1>11. CASE codec \in {"opus", "flac", "ac3"}
  <2>1. m = OutMessage("audioFrames", id, codec, "au", t, t)
    BY <1>4, <1>11 DEF FrameMessage, WriteCodedFrames, OnlyFirst, id
  <2> QED
    BY <1>1, <1>2, <1>4, <1>11, <2>1 DEF OutMessage, Time, AudioFor, AACConfig, WholeAudio, VideoCodecs, AudioCodecs, id
<1>12. CASE codec \in {"aac", "mp3"}
  <2>1. m = OutMessage(IF id = 0 THEN "audio" ELSE "audioFrames", id, codec, "au", t, t)
    BY <1>4, <1>12 DEF FrameMessage, WriteMPEGAudio, OnlyFirst, id
  <2> QED
    BY <1>1, <1>2, <1>4, <1>12, <2>1 DEF OutMessage, Time, AudioFor, AACConfig, WholeAudio, VideoCodecs, AudioCodecs, id
<1>13. CASE codec \in {"g711", "lpcm"}
  <2>1. m = OutMessage("audio", id, codec, "au", t, t)
    BY <1>4, <1>7, <1>13 DEF FrameMessage, WriteSamples, OnlyFirst, id
  <2> QED
    BY <1>1, <1>2, <1>4, <1>7, <1>13, <2>1 DEF OutMessage, Time, AudioFor, AACConfig, WholeAudio, VideoCodecs, AudioCodecs, id
<1> QED
  BY <1>2, <1>8, <1>9, <1>10, <1>11, <1>12, <1>13 DEF Codecs, VideoCodecs, AudioCodecs

(***************************************************************************)
(* The messages that were received and those under way.                    *)
(***************************************************************************)
Total == Len(received) + Len(wire)
Flow == [n \in 1..Total |-> IF n <= Len(received) THEN received[n] ELSE wire[n - Len(received)]]

FlowTypes ==
  received \in Seq(Messages) /\ wire \in Seq(Messages) /\ sent \in Seq(FrameType)

\* What concatenation with a sequence of one element is, and with none.
LEMMA Concatenated ==
  ASSUME NEW S, NEW q \in Seq(S), NEW x \in S
  PROVE  /\ q \o <<x>> \in Seq(S) /\ Len(q \o <<x>>) = Len(q) + 1
         /\ (q \o <<x>>)[Len(q) + 1] = x /\ \A k \in 1..Len(q) : (q \o <<x>>)[k] = q[k]
         /\ q \o <<>> = q
OBVIOUS

LEMMA PutOne ==
  ASSUME FlowTypes, NEW m \in Messages, NEW f \in FrameType, Total = Len(sent),
         UNCHANGED received, Put(<<m>>, f)
  PROVE  /\ FlowTypes' /\ Total \in Nat /\ Total' = Total + 1 /\ Len(sent') = Total + 1
         /\ Flow'[Total + 1] = m /\ sent'[Total + 1] = f
         /\ \A k \in 1..Total : Flow'[k] = Flow[k] /\ sent'[k] = sent[k]
<1>1. /\ wire' = wire \o <<m>> /\ sent' = sent \o [i \in DOMAIN <<m>> |-> f]
  BY DEF Put
<1>2. [i \in DOMAIN <<m>> |-> f] = <<f>>
  OBVIOUS
<1>3. /\ wire' \in Seq(Messages) /\ Len(wire') = Len(wire) + 1 /\ wire'[Len(wire) + 1] = m
      /\ \A k \in 1..Len(wire) : wire'[k] = wire[k]
      /\ Len(wire) \in Nat /\ Len(received) \in Nat
  BY <1>1, Concatenated DEF FlowTypes
<1>4. /\ sent' \in Seq(FrameType) /\ Len(sent') = Len(sent) + 1 /\ sent'[Len(sent) + 1] = f
      /\ \A k \in 1..Len(sent) : sent'[k] = sent[k]
  BY <1>1, <1>2, Concatenated DEF FlowTypes
<1>5. /\ Total \in Nat /\ Total' = Total + 1 /\ Total + 1 \in 1..(Total + 1)
      /\ Total + 1 > Len(received) /\ (Total + 1) - Len(received) = Len(wire) + 1
  BY <1>3 DEF Total
<1>6. /\ Flow = [n \in 1..Total |-> IF n <= Len(received) THEN received[n] ELSE wire[n - Len(received)]]
      /\ Flow' = [n \in 1..(Total + 1) |->
                    IF n <= Len(received) THEN received[n] ELSE wire'[n - Len(received)]]
  BY <1>5 DEF Flow
<1>7. Flow'[Total + 1] = m
  BY <1>3, <1>5, <1>6
<1>8. ASSUME NEW k \in 1..Total PROVE Flow'[k] = Flow[k]
  <2>1. k \in 1..(Total + 1) /\ (k <= Len(received) \/ k - Len(received) \in 1..Len(wire))
    BY <1>3, <1>5 DEF Total
  <2> QED
    BY <1>3, <1>6, <2>1
<1> QED
  BY <1>3, <1>4, <1>5, <1>7, <1>8 DEF FlowTypes

LEMMA PutNone ==
  ASSUME FlowTypes, NEW f, Put(<<>>, f)
  PROVE  wire' = wire /\ sent' = sent
<1>1. wire' = wire \o <<>> /\ sent' = sent \o [i \in DOMAIN <<>> |-> f]
  BY DEF Put
<1>2. [i \in DOMAIN <<>> |-> f] = <<>>
  OBVIOUS
<1> QED
  BY <1>1, <1>2, Concatenated DEF FlowTypes

\* A message that is delivered leaves what flows as it was.
LEMMA DeliverFlow ==
  ASSUME FlowTypes, wire # <<>>, received' = Append(received, Head(wire)), wire' = Tail(wire)
  PROVE  /\ Head(wire) \in Messages /\ wire' \in Seq(Messages)
         /\ Total' = Total /\ Flow' = Flow /\ Total \in Nat
         /\ Len(received') = Len(received) + 1 /\ Len(received) \in Nat
         /\ Len(received) + 1 \in 1..Total /\ Flow[Len(received) + 1] = Head(wire)
<1> DEFINE r == Len(received)
           w == Len(wire)
<1>1. /\ r \in Nat /\ w \in Nat /\ w >= 1 /\ Head(wire) = wire[1] /\ Head(wire) \in Messages
      /\ wire' \in Seq(Messages) /\ Len(wire') = w - 1
      /\ \A k \in 1..(w - 1) : wire'[k] = wire[k + 1]
  BY DEF FlowTypes
<1>2. /\ Len(received') = r + 1 /\ received'[r + 1] = Head(wire)
      /\ \A k \in 1..r : received'[k] = received[k]
  BY <1>1, Appended DEF FlowTypes
<1>3. Total = r + w /\ Total' = r + w /\ Total \in Nat /\ r + 1 \in 1..(r + w)
  BY <1>1, <1>2 DEF Total
<1>4. /\ Flow = [n \in 1..(r + w) |-> IF n <= r THEN received[n] ELSE wire[n - r]]
      /\ Flow' = [n \in 1..(r + w) |-> IF n <= r + 1 THEN received'[n] ELSE wire'[n - (r + 1)]]
  BY <1>2, <1>3 DEF Flow
<1> HIDE DEF r, w
<1>5. ASSUME NEW n \in 1..(r + w)
      PROVE  (IF n <= r THEN received[n] ELSE wire[n - r])
               = (IF n <= r + 1 THEN received'[n] ELSE wire'[n - (r + 1)])
  <2>1. CASE n <= r
    <3>1. n \in 1..r /\ n <= r + 1
      BY <1>1, <2>1
    <3> QED
      BY <1>2, <2>1, <3>1
  <2>2. CASE n = r + 1
    <3>1. ~(n <= r) /\ n <= r + 1 /\ n - r = 1
      BY <1>1, <2>2
    <3> QED
      BY <1>1, <1>2, <2>2, <3>1
  <2>3. CASE n > r + 1
    <3>1. ~(n <= r) /\ ~(n <= r + 1) /\ n - (r + 1) \in 1..(w - 1) /\ (n - (r + 1)) + 1 = n - r
      BY <1>1, <2>3
    <3> QED
      BY <1>1, <3>1
  <2>4. r \in Nat /\ w \in Nat
    BY <1>1
  <2>5. n <= r \/ n = r + 1 \/ n > r + 1
    BY <2>4
  <2> QED
    BY <2>1, <2>2, <2>3, <2>5
<1>6. Flow' = Flow
  BY <1>4, <1>5
<1>7. Flow[r + 1] = Head(wire)
  BY <1>1, <1>3, <1>4
<1> QED
  BY <1>1, <1>2, <1>3, <1>6, <1>7 DEF r

\* What is lost are the last messages under way.
LEMMA LoseFlow ==
  ASSUME FlowTypes, NEW n \in 0..Len(wire), wire' = SubSeq(wire, 1, n), UNCHANGED received
  PROVE  /\ wire' \in Seq(Messages) /\ Total' \in Nat /\ Total' <= Total /\ Total \in Nat
         /\ Len(received) <= Total'
         /\ \A k \in 1..Total' : k \in 1..Total /\ Flow'[k] = Flow[k]
<1>1. /\ wire' \in Seq(Messages) /\ Len(wire') = n /\ Len(wire) \in Nat /\ Len(received) \in Nat
      /\ \A k \in 1..n : wire'[k] = wire[k]
  BY DEF FlowTypes
<1>2. /\ Total' = Len(received) + n /\ Total' \in Nat /\ Total' <= Total /\ Total \in Nat
      /\ Len(received) <= Total'
  BY <1>1 DEF Total
<1>3. ASSUME NEW k \in 1..Total' PROVE k \in 1..Total /\ Flow'[k] = Flow[k]
  <2>1. k \in 1..Total /\ (k <= Len(received) \/ k - Len(received) \in 1..n)
    BY <1>1, <1>2
  <2> QED
    BY <1>1, <1>2, <2>1 DEF Flow
<1> QED
  BY <1>1, <1>2, <1>3

(***************************************************************************)
(* What flows is what the Writer wrote: the metadata, one announcement of  *)
(* each track that needs one, and after these the frames.                  *)
(***************************************************************************)
Describes(m, i) == m \in Range(Announcement(list, i))
Origin(m, f) ==
  \/ f.track = 0 /\ m = Metadata
  \/ f.track = 0 /\ \E i \in DOMAIN list : ~Indescribable(list, i) /\ Describes(m, i)
  \/ /\ f.track \in DOMAIN list /\ ~Indescribable(list, f.track)
     /\ \E t \in Times : f \in FramesOn(list, f.track, t)
     /\ m = FrameMessage(list, f)

\* All announcements there are come among the first n messages.
Described(n) ==
  \A i \in DOMAIN list : Range(Announcement(list, i)) # {} => \E k \in 1..n : Describes(Flow[k], i)

Sourced == \A n \in 1..Total : Origin(Flow[n], sent[n])
Once ==
  \A i \in DOMAIN list : \A k, l \in 1..Total :
    Describes(Flow[k], i) /\ Describes(Flow[l], i) => k = l
FramesLast == \A n \in 1..Total : sent[n].track # 0 => Described(n - 1)

FlowInv == Sourced /\ Once /\ FramesLast

WriterInv ==
  /\ list \in TrackLists /\ todo \in SUBSET ({0} \cup DOMAIN list)
  /\ writer = "writing" => todo = {}
  /\ \A i \in todo \ {0} : \A n \in 1..Total : ~Describes(Flow[n], i)
  /\ Total <= Len(sent)
  /\ conn = "open" => Total = Len(sent)
  /\ conn = "open" /\ writer \in {"announcing", "writing"} =>
       \A i \in DOMAIN list \ todo :
         /\ ~Indescribable(list, i)
         /\ Range(Announcement(list, i)) # {} => \E k \in 1..Total : Describes(Flow[k], i)

LEMMA MetadataFacts ==
  Metadata \in Messages /\ Metadata.kind = "skipped" /\ NoFrame \in FrameType /\ NoFrame.track = 0
<1>1. Metadata \in WriterMessages
  BY DEF WriterMessages
<1>2. Metadata.kind = "skipped"
  BY DEF Metadata, OutMessage
<1> QED
  BY <1>1, <1>2, PublishAssumption DEF NoFrame, FrameType

\* A message describes one track at most, and only an announcement does.
LEMMA DescribesOne ==
  ASSUME list \in TrackLists, IdsFit, NEW m, NEW i \in DOMAIN list, Describes(m, i)
  PROVE  /\ m # Metadata
         /\ \A j \in DOMAIN list : Describes(m, j) => i = j
         /\ \A j \in DOMAIN list : \A t \in Times : \A f \in FramesOn(list, j, t) :
              ~Indescribable(list, j) => m # FrameMessage(list, f)
<1>1. /\ m.id = TrackID(list, i) /\ m.packet \in {"config", "bare"}
      /\ m.kind \in {"video", "videoStart", "audio", "audioStart"}
      /\ KindOf(list[i]) = "video" <=> m.kind \in {"video", "videoStart"}
  BY AnnouncementFacts, ListFields DEF Describes
<1>2. m # Metadata
  BY <1>1, MetadataFacts
<1>3. ASSUME NEW j \in DOMAIN list, Describes(m, j) PROVE i = j
  <2>1. /\ m.id = TrackID(list, j)
        /\ KindOf(list[j]) = "video" <=> m.kind \in {"video", "videoStart"}
    BY <1>3, AnnouncementFacts, ListFields DEF Describes
  <2>2. KindOf(list[i]) = KindOf(list[j])
    BY <1>1, <2>1, ListFields
  <2> QED
    BY <1>1, <2>1, <2>2, DistinctTracks DEF IdsFit
<1>4. ASSUME NEW j \in DOMAIN list, NEW t \in Times, NEW f \in FramesOn(list, j, t),
             ~Indescribable(list, j)
      PROVE  m # FrameMessage(list, f)
  <2>1. FrameMessage(list, f).packet \in {"au", "sei"}
    BY <1>4, FrameFacts
  <2> QED
    BY <1>1, <2>1
<1> QED
  BY <1>2, <1>3, <1>4

\* One more message.
LEMMA FlowGrows ==
  ASSUME FlowInv, Total \in Nat, NEW m, NEW f, list' = list,
         Total' = Total + 1, Flow'[Total + 1] = m, sent'[Total + 1] = f,
         \A k \in 1..Total : Flow'[k] = Flow[k] /\ sent'[k] = sent[k],
         Origin(m, f), f.track # 0 => Described(Total),
         \A i \in DOMAIN list : Describes(m, i) => \A k \in 1..Total : ~Describes(Flow[k], i)
  PROVE  FlowInv'
<1>1. \A k \in 1..Total' : k \in 1..Total \/ k = Total + 1
  OBVIOUS
<1>2. \A x, i : Describes(x, i)' <=> Describes(x, i)
  BY DEF Describes
<1>3. \A x, g : Origin(x, g)' <=> Origin(x, g)
  BY DEF Origin, Describes
<1>4. Sourced'
  BY <1>1, <1>3 DEF FlowInv, Sourced
<1>5. Once'
  BY <1>1, <1>2 DEF FlowInv, Once
<1>6. ASSUME NEW n \in 1..(Total + 1), Described(n - 1)
      PROVE  Described(n - 1)'
  <2>1. \A k \in 1..(n - 1) : k \in 1..Total
    OBVIOUS
  <2> QED
    BY <1>2, <1>6, <2>1 DEF Described
<1>7. FramesLast'
  <2> SUFFICES ASSUME NEW n \in 1..(Total + 1), sent'[n].track # 0
               PROVE  Described(n - 1)
    BY <1>6 DEF FramesLast
  <2>1. CASE n \in 1..Total
    BY <2>1 DEF FlowInv, FramesLast
  <2>2. CASE n = Total + 1
    <3>1. n - 1 = Total
      BY <2>2
    <3> QED
      BY <2>2, <3>1
  <2> QED
    BY <1>1, <2>1, <2>2
<1> QED
  BY <1>4, <1>5, <1>7 DEF FlowInv

\* The same messages, or fewer of them.
LEMMA FlowShrinks ==
  ASSUME FlowInv, Total \in Nat, Total' \in Nat, list' = list, sent' = sent,
         \A k \in 1..Total' : k \in 1..Total /\ Flow'[k] = Flow[k]
  PROVE  FlowInv'
<1>1. \A x, i : Describes(x, i)' <=> Describes(x, i)
  BY DEF Describes
<1>2. \A x, g : Origin(x, g)' <=> Origin(x, g)
  BY DEF Origin, Describes
<1>3. Sourced'
  BY <1>2 DEF FlowInv, Sourced
<1>4. Once'
  BY <1>1 DEF FlowInv, Once
<1>5. FramesLast'
  <2> SUFFICES ASSUME NEW n \in 1..Total', sent[n].track # 0
               PROVE  Described(n - 1)'
    BY DEF FramesLast
  <2>1. Described(n - 1) /\ \A k \in 1..(n - 1) : k \in 1..Total'
    BY DEF FlowInv, FramesLast
  <2> QED
    BY <1>1, <2>1 DEF Described
<1> QED
  BY <1>3, <1>4, <1>5 DEF FlowInv

(***************************************************************************)
(* The analysis.                                                           *)
(***************************************************************************)
\* Where an entry of the maps comes from, the times, and why the analysis fails.
Entered(f, g, m, id) ==
  /\ \/ g.video[id] = f.video[id]
     \/ /\ g.video[id] = "nil" /\ f.video[id] = "absent" /\ m.id = id
        /\ m.kind \in {"videoFrames", "videoEnd"}
     \/ g.video[id] = m.codec /\ m.id = id /\ AnnouncesVideo(m)
  /\ \/ g.audio[id] = f.audio[id]
     \/ /\ g.audio[id] = "nil" /\ f.audio[id] = "absent" /\ m.id = id
        /\ m.kind \in {"audioStart", "audioFrames", "audioEnd"}
     \/ g.audio[id] = m.codec /\ m.id = id /\ AnnouncesAudio(m)
  /\ \/ g.starts[id] = f.starts[id]
     \/ g.starts[id] = m.codec /\ m.id = id /\ m.kind = "audioStart"
Timed(f, g, m) ==
  /\ g.cur \in {f.cur, m.dts}
  /\ g.start \in {f.start, m.dts}
Failing(f, m) ==
  \/ m.kind = "videoStart" /\ (IsUp(f.video, m.id) \/ (m.codec = "av1" /\ m.packet = "bad"))
  \/ m.kind = "audioStart" /\ f.starts[m.id] # "none"
  \/ /\ m.kind = "audioFrames"
     /\ (m.codec # "mp3" /\ f.starts[m.id] # m.codec) \/ m.packet = "bad"

LEMMA ClockEffect ==
  ASSUME NEW f \in FoundType, NEW m \in Messages
  PROVE  /\ Clock(f, m) \in FoundType /\ Timed(f, Clock(f, m), m)
         /\ Clock(f, m).video = f.video /\ Clock(f, m).audio = f.audio
         /\ Clock(f, m).starts = f.starts /\ Clock(f, m).failed = f.failed
<1>1. Timed(f, Clock(f, m), m)
  BY MessageFields DEF Timed, Clock, FoundType
<1> QED
  BY <1>1, ClockType

LEMMA NoticedEffect ==
  ASSUME NEW S, NEW map \in [TrackIDs -> S], NEW m \in Messages, NEW id \in TrackIDs
  PROVE  Noticed(map, m)[id] = map[id]
           \/ (Noticed(map, m)[id] = "nil" /\ map[id] = "absent" /\ m.id = id)
BY MessageFields DEF Noticed

LEMMA VideoEffect ==
  ASSUME NEW f \in FoundType, NEW m \in Messages, m.kind \in VideoKinds,
         NEW g, g = Analyzed(f, m)
  PROVE  /\ \A id \in TrackIDs : Entered(f, g, m, id)
         /\ Timed(f, g, m)
         /\ g.failed => f.failed \/ Failing(f, m)
<1> DEFINE c == Clock(f, m)
           v == Noticed(f.video, m)
<1>1. /\ c \in FoundType /\ Timed(f, c, m) /\ c.video = f.video /\ c.audio = f.audio
      /\ c.starts = f.starts /\ c.failed = f.failed
  BY ClockEffect
<1>2. /\ f.video \in [TrackIDs -> VideoCodecs \cup {"absent", "nil"}] /\ m.id \in TrackIDs
      /\ Timed(f, f, m)
  BY MessageFields DEF FoundType, VideoMap, Timed
<1>3. \A id \in TrackIDs : v[id] = f.video[id] \/ (v[id] = "nil" /\ f.video[id] = "absent" /\ m.id = id)
  BY <1>2, NoticedEffect
<1> HIDE DEF c, v
<1>4. CASE m.kind = "video"
  <2>1. g = IF m.packet = "config" /\ ~IsUp(f.video, 0) THEN [c EXCEPT !.video[0] = m.codec] ELSE c
    BY <1>4 DEF Analyzed, OnVideo, c
  <2>2. m.id = 0
    BY <1>4, MessageFields DEF LegacyKinds
  <2>3. CASE m.packet = "config" /\ ~IsUp(f.video, 0)
    <3>1. /\ g.video = [f.video EXCEPT ![0] = m.codec] /\ g.audio = f.audio /\ g.starts = f.starts
          /\ g.failed = f.failed /\ g.cur = c.cur /\ g.start = c.start
      BY <1>1, <2>1, <2>3 DEF FoundType
    <3> QED
      BY <1>1, <1>2, <1>4, <2>2, <2>3, <3>1 DEF Entered, Timed, AnnouncesVideo
  <2>4. CASE ~(m.packet = "config" /\ ~IsUp(f.video, 0))
    BY <1>1, <2>1, <2>4 DEF Entered
  <2> QED
    BY <2>3, <2>4
<1>5. CASE m.kind = "videoStart"
  <2>1. g = IF IsUp(f.video, m.id) \/ (m.codec = "av1" /\ m.packet = "bad")
            THEN [f EXCEPT !.failed = TRUE] ELSE [f EXCEPT !.video[m.id] = m.codec]
    BY <1>5 DEF Analyzed, OnVideoStart
  <2>2. CASE IsUp(f.video, m.id) \/ (m.codec = "av1" /\ m.packet = "bad")
    <3>1. /\ g.video = f.video /\ g.audio = f.audio /\ g.starts = f.starts
          /\ g.cur = f.cur /\ g.start = f.start
      BY <2>1, <2>2 DEF FoundType
    <3> QED
      BY <1>2, <1>5, <2>2, <3>1 DEF Entered, Timed, Failing
  <2>3. CASE ~(IsUp(f.video, m.id) \/ (m.codec = "av1" /\ m.packet = "bad"))
    <3>1. /\ g.video = [f.video EXCEPT ![m.id] = m.codec] /\ g.audio = f.audio
          /\ g.starts = f.starts /\ g.cur = f.cur /\ g.start = f.start /\ g.failed = f.failed
      BY <2>1, <2>3 DEF FoundType
    <3> QED
      BY <1>2, <1>5, <3>1 DEF Entered, Timed, AnnouncesVideo
  <2> QED
    BY <2>2, <2>3
<1>6. CASE m.kind = "videoFrames"
  <2>1. g = [c EXCEPT !.video = v]
    BY <1>6 DEF Analyzed, OnVideoFrames, c, v
  <2>2. /\ g.video = v /\ g.audio = f.audio /\ g.starts = f.starts /\ g.failed = f.failed
        /\ g.cur = c.cur /\ g.start = c.start
    BY <1>1, <2>1 DEF FoundType
  <2> QED
    BY <1>1, <1>3, <1>6, <2>2 DEF Entered, Timed
<1>7. CASE m.kind = "videoEnd"
  <2>1. g = [f EXCEPT !.video = v]
    BY <1>7 DEF Analyzed, v
  <2>2. /\ g.video = v /\ g.audio = f.audio /\ g.starts = f.starts /\ g.failed = f.failed
        /\ g.cur = f.cur /\ g.start = f.start
    BY <2>1 DEF FoundType
  <2> QED
    BY <1>2, <1>3, <1>7, <2>2 DEF Entered, Timed
<1> QED
  BY <1>4, <1>5, <1>6, <1>7 DEF VideoKinds

LEMMA AudioEffect ==
  ASSUME NEW f \in FoundType, NEW m \in Messages, m.kind \in AudioKinds,
         NEW g, g = Analyzed(f, m)
  PROVE  /\ \A id \in TrackIDs : Entered(f, g, m, id)
         /\ Timed(f, g, m)
         /\ g.failed => f.failed \/ Failing(f, m)
<1> DEFINE c == Clock(f, m)
           a == Noticed(f.audio, m)
<1>1. /\ c \in FoundType /\ Timed(f, c, m) /\ c.video = f.video /\ c.audio = f.audio
      /\ c.starts = f.starts /\ c.failed = f.failed
  BY ClockEffect
<1>2. /\ f.audio \in [TrackIDs -> AudioCodecs \cup {"absent", "nil"}] /\ m.id \in TrackIDs
      /\ f.starts \in [TrackIDs -> Codecs \cup {"none"}] /\ Timed(f, f, m)
  BY MessageFields DEF FoundType, AudioMap, Timed
<1>3. /\ \A id \in TrackIDs : a[id] = f.audio[id] \/ (a[id] = "nil" /\ f.audio[id] = "absent" /\ m.id = id)
      /\ a \in [TrackIDs -> AudioCodecs \cup {"absent", "nil"}]
  <2>1. f.audio \in [TrackIDs -> AudioCodecs \cup {"absent", "nil"}]
    BY <1>2
  <2>3. \A id \in TrackIDs :
          a[id] = f.audio[id] \/ (a[id] = "nil" /\ f.audio[id] = "absent" /\ m.id = id)
    BY <2>1, NoticedEffect
  <2>2. a \in [TrackIDs -> AudioCodecs \cup {"absent", "nil"}]
    BY <1>2, NoticedType
  <2> QED
    BY <2>2, <2>3
<1> HIDE DEF c, a
<1>4. CASE m.kind = "audio"
  <2> DEFINE new == ~IsUp(f.audio, 0) /\ (m.codec = "aac" => m.packet = "config")
  <2>1. g = IF new THEN [c EXCEPT !.audio[0] = m.codec] ELSE c
    BY <1>4 DEF Analyzed, OnAudio, c
  <2>2. m.id = 0
    BY <1>4, MessageFields DEF LegacyKinds
  <2>3. CASE new
    <3>1. /\ g.audio = [f.audio EXCEPT ![0] = m.codec] /\ g.video = f.video /\ g.starts = f.starts
          /\ g.failed = f.failed /\ g.cur = c.cur /\ g.start = c.start
      BY <1>1, <2>1, <2>3 DEF FoundType
    <3> QED
      BY <1>1, <1>2, <1>4, <2>2, <2>3, <3>1 DEF Entered, Timed, AnnouncesAudio
  <2>4. CASE ~new
    <3>1. g = c
      BY <2>1, <2>4
    <3> QED
      BY <1>1, <3>1 DEF Entered
  <2> QED
    BY <2>3, <2>4
<1>5. CASE m.kind = "audioStart"
  <2> DEFINE h == [f EXCEPT !.audio = a]
  <2>1. g = IF f.starts[m.id] # "none" THEN [h EXCEPT !.failed = TRUE]
                                       ELSE [h EXCEPT !.starts[m.id] = m.codec]
    BY <1>5 DEF Analyzed, OnAudioStart, a
  <2>2. CASE f.starts[m.id] # "none"
    <3>1. /\ g.video = f.video /\ g.audio = a /\ g.starts = f.starts
          /\ g.cur = f.cur /\ g.start = f.start
      BY <2>1, <2>2 DEF FoundType
    <3> QED
      BY <1>2, <1>3, <1>5, <2>2, <3>1 DEF Entered, Timed, Failing
  <2>3. CASE f.starts[m.id] = "none"
    <3>1. /\ g.video = f.video /\ g.audio = a /\ g.starts = [f.starts EXCEPT ![m.id] = m.codec]
          /\ g.cur = f.cur /\ g.start = f.start /\ g.failed = f.failed
      BY <2>1, <2>3 DEF FoundType
    <3> QED
      BY <1>2, <1>3, <1>5, <3>1 DEF Entered, Timed
  <2> QED
    BY <2>2, <2>3
<1>6. CASE m.kind = "audioFrames"
  <2> DEFINE h == [c EXCEPT !.audio = a]
             bad == \/ m.codec # "mp3" /\ f.starts[m.id] # m.codec
                    \/ m.codec = "ac3" /\ m.packet = "bad"
  <2>1. /\ h.video = f.video /\ h.audio = a /\ h.starts = f.starts /\ h.failed = f.failed
        /\ h.cur = c.cur /\ h.start = c.start /\ h \in FoundType
    BY <1>1, <1>3 DEF FoundType, AudioMap
  <2>2. g = CASE IsUp(f.audio, m.id) -> h
              [] ~IsUp(f.audio, m.id) /\ bad -> [h EXCEPT !.failed = TRUE]
              [] OTHER -> [h EXCEPT !.audio[m.id] = m.codec]
    BY <1>6 DEF Analyzed, OnAudioFrames, c, a
  <2> HIDE DEF h
  <2>3. CASE IsUp(f.audio, m.id)
    <3>1. g = h
      BY <2>2, <2>3
    <3> QED
      BY <1>1, <1>3, <1>6, <2>1, <3>1 DEF Entered, Timed
  <2>4. CASE ~IsUp(f.audio, m.id) /\ bad
    <3>1. g = [h EXCEPT !.failed = TRUE]
      BY <2>2, <2>4
    <3>2. /\ g.video = f.video /\ g.audio = a /\ g.starts = f.starts
          /\ g.cur = c.cur /\ g.start = c.start
      BY <2>1, <3>1 DEF FoundType
    <3>3. Failing(f, m)
      BY <1>6, <2>4 DEF Failing
    <3> QED
      BY <1>1, <1>3, <1>6, <3>2, <3>3 DEF Entered, Timed
  <2>5. CASE ~IsUp(f.audio, m.id) /\ ~bad
    <3>1. g = [h EXCEPT !.audio[m.id] = m.codec]
      BY <2>2, <2>5
    <3>2. /\ g.video = f.video /\ g.audio = [a EXCEPT ![m.id] = m.codec] /\ g.starts = f.starts
          /\ g.cur = c.cur /\ g.start = c.start /\ g.failed = f.failed
      BY <2>1, <3>1 DEF FoundType
    <3>3. AnnouncesAudio(m)
      BY <1>6 DEF AnnouncesAudio
    <3> QED
      BY <1>1, <1>2, <1>3, <1>6, <3>2, <3>3 DEF Entered, Timed
  <2> QED
    BY <2>3, <2>4, <2>5
<1>7. CASE m.kind = "audioEnd"
  <2>1. g = [f EXCEPT !.audio = a]
    BY <1>7 DEF Analyzed, a
  <2>2. /\ g.audio = a /\ g.video = f.video /\ g.starts = f.starts /\ g.failed = f.failed
        /\ g.cur = f.cur /\ g.start = f.start
    BY <2>1 DEF FoundType
  <2> QED
    BY <1>2, <1>3, <1>7, <2>2 DEF Entered, Timed
<1> QED
  BY <1>4, <1>5, <1>6, <1>7 DEF AudioKinds

LEMMA AnalyzedEffect ==
  ASSUME NEW f \in FoundType, NEW m \in Messages, NEW g, g = Analyzed(f, m)
  PROVE  /\ \A id \in TrackIDs : Entered(f, g, m, id)
         /\ Timed(f, g, m)
         /\ g.failed => f.failed \/ Failing(f, m)
<1>1. CASE m.kind \in VideoKinds
  BY <1>1, VideoEffect
<1>2. CASE m.kind \in AudioKinds
  BY <1>2, AudioEffect
<1>3. CASE m.kind \notin VideoKinds \cup AudioKinds
  BY <1>3 DEF Analyzed, VideoKinds, AudioKinds, Entered, Timed
<1> QED
  BY <1>1, <1>2, <1>3

(***************************************************************************)
(* The steps of the Writer and of the connection.                          *)
(***************************************************************************)
\* What the Writer's half and the wire keep.
SendInv == FlowTypes /\ FlowInv /\ WriterInv

SenderVars == <<list, todo, writer, sent, wire, received, conn>>

\* Nothing of it depends on the rest.
LEMMA SenderStutter == SendInv /\ UNCHANGED SenderVars => SendInv'
<1> SUFFICES ASSUME SendInv, UNCHANGED SenderVars PROVE SendInv'
  OBVIOUS
<1>1. /\ list' = list /\ todo' = todo /\ writer' = writer /\ sent' = sent /\ wire' = wire
      /\ received' = received /\ conn' = conn
  BY DEF SenderVars
<1>2. Total' = Total /\ Flow' = Flow
  BY <1>1 DEF Total, Flow
<1>3. FlowTypes' /\ Total \in Nat
  BY <1>1 DEF SendInv, FlowTypes, Total
<1>4. FlowInv'
  BY <1>1, <1>2, <1>3, FlowShrinks DEF SendInv
<1>5. WriterInv'
  BY <1>1, <1>2 DEF SendInv, WriterInv, Describes
<1> QED
  BY <1>3, <1>4, <1>5 DEF SendInv

\* A step that writes nothing and takes nothing off the wire keeps the flow.
LEMMA SameFlow ==
  ASSUME SendInv, UNCHANGED <<list, sent, wire, received>>
  PROVE  FlowTypes' /\ FlowInv' /\ Total' = Total /\ Flow' = Flow /\ Total \in Nat
<1>1. Total' = Total /\ Flow' = Flow
  BY DEF Total, Flow
<1>2. FlowTypes' /\ Total \in Nat
  BY DEF SendInv, FlowTypes, Total
<1>3. FlowInv'
  BY <1>1, <1>2, FlowShrinks DEF SendInv
<1> QED
  BY <1>1, <1>2, <1>3

LEMMA WriteFailsKeeps == SendInv /\ WriteFails => SendInv'
<1> SUFFICES ASSUME SendInv, WriteFails PROVE SendInv'
  OBVIOUS
<1>1. /\ UNCHANGED <<list, todo, sent, wire, conn, received>> /\ writer' = "failed"
  BY DEF WriteFails, readerVars, vars
<1>2. FlowTypes' /\ FlowInv' /\ Total' = Total /\ Flow' = Flow
  BY <1>1, SameFlow
<1>3. WriterInv'
  BY <1>1, <1>2 DEF SendInv, WriterInv, Describes
<1> QED
  BY <1>2, <1>3 DEF SendInv

LEMMA WriterClosesKeeps == SendInv /\ WriterCloses => SendInv'
<1> SUFFICES ASSUME SendInv, WriterCloses PROVE SendInv'
  OBVIOUS
<1>1. /\ UNCHANGED <<list, todo, sent, wire, received>> /\ writer' = "closed" /\ conn' = "closed"
  BY DEF WriterCloses, readerVars, vars
<1>2. FlowTypes' /\ FlowInv' /\ Total' = Total /\ Flow' = Flow
  BY <1>1, SameFlow
<1>3. WriterInv'
  BY <1>1, <1>2 DEF SendInv, WriterInv, Describes
<1> QED
  BY <1>2, <1>3 DEF SendInv

\* The connection ends, with the last messages under way or all of them.
LEMMA EndKeeps ==
  ASSUME SendInv, NEW n \in 0..Len(wire), wire' = SubSeq(wire, 1, n), conn' # "open",
         UNCHANGED <<received, writerVars>>
  PROVE  SendInv'
<1>1. UNCHANGED <<received, list, todo, writer, sent>>
  BY DEF writerVars
<1>2. /\ wire' \in Seq(Messages) /\ Total' \in Nat /\ Total' <= Total /\ Total \in Nat
      /\ \A k \in 1..Total' : k \in 1..Total /\ Flow'[k] = Flow[k]
  BY <1>1, LoseFlow DEF SendInv
<1>3. FlowTypes' /\ FlowInv'
  BY <1>1, <1>2, FlowShrinks DEF SendInv, FlowTypes
<1>4. Total' <= Len(sent')
  <2>1. Len(sent) \in Nat /\ Total <= Len(sent)
    BY DEF SendInv, FlowTypes, WriterInv
  <2> QED
    BY <1>1, <1>2, <2>1
<1>5. \A i \in todo \ {0} : \A k \in 1..Total' : ~Describes(Flow'[k], i)
  BY <1>2 DEF SendInv, WriterInv
<1>6. WriterInv'
  BY <1>1, <1>4, <1>5 DEF SendInv, WriterInv, Describes
<1> QED
  BY <1>3, <1>6 DEF SendInv

LEMMA LoseKeeps == SendInv /\ Lose => SendInv'
<1> SUFFICES ASSUME SendInv, Lose PROVE SendInv'
  OBVIOUS
<1>1. PICK n \in 0..Len(wire) : wire' = SubSeq(wire, 1, n)
  BY DEF Lose
<1>2. conn' # "open" /\ UNCHANGED <<received, writerVars>>
  BY DEF Lose, readerVars, vars
<1> QED
  BY <1>1, <1>2, EndKeeps

LEMMA ReaderClosesKeeps == SendInv /\ ReaderCloses => SendInv'
<1> SUFFICES ASSUME SendInv, ReaderCloses PROVE SendInv'
  OBVIOUS
<1>1. 0 \in 0..Len(wire) /\ wire' = SubSeq(wire, 1, 0)
  BY DEF SendInv, FlowTypes, ReaderCloses
<1>2. conn' # "open" /\ UNCHANGED <<received, writerVars>>
  BY DEF ReaderCloses, readerVars, vars
<1> QED
  BY <1>1, <1>2, EndKeeps

LEMMA DeliverKeeps == SendInv /\ Deliver => SendInv'
<1> SUFFICES ASSUME SendInv, Deliver PROVE SendInv'
  OBVIOUS
<1>1. /\ wire # <<>> /\ received' = Append(received, Head(wire)) /\ wire' = Tail(wire)
      /\ UNCHANGED <<list, todo, writer, sent, conn>>
  BY DEF Deliver, Analyze, ReadNew, writerVars
<1>2. /\ Head(wire) \in Messages /\ wire' \in Seq(Messages)
      /\ Total' = Total /\ Flow' = Flow /\ Total \in Nat
  BY <1>1, DeliverFlow DEF SendInv
<1>3. FlowTypes'
  BY <1>1, <1>2, Appended DEF SendInv, FlowTypes
<1>4. FlowInv'
  BY <1>1, <1>2, FlowShrinks DEF SendInv
<1>5. WriterInv'
  BY <1>1, <1>2 DEF SendInv, WriterInv, Describes
<1> QED
  BY <1>3, <1>4, <1>5 DEF SendInv

LEMMA WriteFrameKeeps ==
  ASSUME SendInv, IdsFit, NEW frame \in Frames, WriteFrame(frame)
  PROVE  SendInv'
<1>1. PICK i \in DOMAIN list, step \in Steps : frame \in FramesOn(list, i, clock + step)
  BY DEF Frames
<1>2. /\ writer = "writing" /\ conn = "open" /\ frame.dts \in Times
      /\ UNCHANGED <<received, list, todo, conn>>
  BY DEF WriteFrame, readerVars, vars
<1>3. frame.dts = clock + step
  BY <1>1 DEF FramesOn
<1>4. list \in TrackLists /\ todo = {} /\ i \in DOMAIN list \ todo /\ ~Indescribable(list, i)
      /\ Total = Len(sent)
  BY <1>2 DEF SendInv, WriterInv
<1>5. CASE RefusedFrame(list, frame)
  <2>1. UNCHANGED <<list, sent, wire, received>> /\ writer' = "failed"
    BY <1>2, <1>5 DEF WriteFrame
  <2>2. FlowTypes' /\ FlowInv' /\ Total' = Total /\ Flow' = Flow
    BY <2>1, SameFlow
  <2>3. WriterInv'
    BY <1>2, <2>1, <2>2 DEF SendInv, WriterInv, Describes
  <2> QED
    BY <2>2, <2>3 DEF SendInv
<1>6. CASE ~RefusedFrame(list, frame)
  <2> DEFINE m == FrameMessage(list, frame)
  <2>1. Put(<<m>>, frame) /\ UNCHANGED writer
    BY <1>6 DEF WriteFrame
  <2>2. m \in Messages /\ frame \in FrameType /\ frame.track = i
    BY <1>1, <1>2, <1>3, <1>4, FrameFacts
  <2>3. \A j \in DOMAIN list : ~Describes(m, j)
    BY <1>1, <1>2, <1>3, <1>4, DescribesOne
  <2>4. Origin(m, frame)
    BY <1>1, <1>2, <1>3, <1>4, <2>2 DEF Origin
  <2> HIDE DEF m
  <2>5. /\ FlowTypes' /\ Total \in Nat /\ Total' = Total + 1 /\ Len(sent') = Total + 1
        /\ Flow'[Total + 1] = m /\ sent'[Total + 1] = frame
        /\ \A k \in 1..Total : Flow'[k] = Flow[k] /\ sent'[k] = sent[k]
    BY <1>2, <1>4, <2>1, <2>2, PutOne DEF SendInv
  <2>6. Described(Total)
    BY <1>2, <1>4 DEF SendInv, WriterInv, Described
  <2>7. FlowInv'
    BY <1>2, <2>3, <2>4, <2>5, <2>6, FlowGrows DEF SendInv
  <2>8. WriterInv'
    <3>1. Total' <= Len(sent') /\ Total' = Len(sent')
      BY <2>5
    <3>2. \A k \in 1..Total : k \in 1..Total'
      BY <2>5
    <3>3. ASSUME NEW j \in DOMAIN list, Range(Announcement(list, j)) # {}
          PROVE  \E k \in 1..Total' : Describes(Flow'[k], j)
      BY <2>5, <2>6, <3>2, <3>3 DEF Described
    <3>4. \A x, j : Describes(x, j)' <=> Describes(x, j)
      BY <1>2 DEF Describes
    <3>5. \A j \in DOMAIN list \ todo : ~Indescribable(list, j)
      BY <1>2 DEF SendInv, WriterInv
    <3> QED
      BY <1>2, <1>4, <2>1, <3>1, <3>3, <3>4, <3>5 DEF SendInv, WriterInv
  <2> QED
    BY <2>5, <2>7, <2>8 DEF SendInv
<1> QED
  BY <1>5, <1>6

\* The announcement of a track is one message or none.
LEMMA AnnouncementShape ==
  ASSUME NEW l \in TrackLists, NEW i \in DOMAIN l
  PROVE  \/ Announcement(l, i) = <<>> /\ Range(Announcement(l, i)) = {}
         \/ \E m : Announcement(l, i) = <<m>> /\ Range(Announcement(l, i)) = {m}
<1>1. Range(<<>>) = {} /\ \A m : Range(<<m>>) = {m}
  BY DEF Range
<1>2. l[i].codec \in Codecs
  BY ListFields
<1>3. \/ Announcement(l, i) = <<>> \/ \E kind : Announcement(l, i) = Start(kind, l, i)
      \/ \E m : Announcement(l, i) = <<m>>
  <2>1. CASE IsVideo(l[i])
    BY <2>1 DEF Announcement, VideoAnnouncement
  <2>2. CASE ~IsVideo(l[i]) /\ Unconfigured(l, i)
    BY <2>2 DEF Announcement, AudioAnnouncement, Unconfigured
  <2>3. CASE ~IsVideo(l[i]) /\ ~Unconfigured(l, i)
    BY <1>2, <2>3 DEF Announcement, IsVideo, AudioAnnouncement, Codecs, VideoCodecs, AudioCodecs,
                      Unconfigured
  <2> QED
    BY <2>1, <2>2, <2>3
<1> QED
  BY <1>1, <1>3 DEF Start

LEMMA TurnKeeps ==
  ASSUME SendInv, IdsFit, NEW i \in todo, AnnounceTurn(i)
  PROVE  SendInv'
<1> DEFINE described == i = 0 \/ ~Indescribable(list, i)
<1>1. /\ writer = "announcing" /\ conn = "open" /\ todo' = todo \ {i}
      /\ UNCHANGED <<received, list, conn>>
  BY DEF AnnounceTurn, readerVars, vars
<1>2. /\ list \in TrackLists /\ Total = Len(sent) /\ todo \in SUBSET ({0} \cup DOMAIN list)
      /\ i = 0 \/ i \in DOMAIN list
      /\ 0 \notin DOMAIN list
  BY <1>1, ListFields DEF SendInv, WriterInv
<1>3. \A x, j : Describes(x, j)' <=> Describes(x, j)
  BY <1>1 DEF Describes
<1>4. CASE ~described
  <2>1. UNCHANGED <<list, sent, wire, received>> /\ writer' = "failed"
    BY <1>1, <1>4 DEF AnnounceTurn
  <2>2. FlowTypes' /\ FlowInv' /\ Total' = Total /\ Flow' = Flow
    BY <2>1, SameFlow
  <2>3. WriterInv'
    BY <1>1, <1>2, <1>3, <2>1, <2>2 DEF SendInv, WriterInv
  <2> QED
    BY <2>2, <2>3 DEF SendInv
\* A turn that puts one message.
<1>5. ASSUME described, NEW m \in Messages, Put(<<m>>, NoFrame), Origin(m, NoFrame),
             \A j \in DOMAIN list : Describes(m, j) => j = i,
             i # 0 => Describes(m, i)
      PROVE  SendInv'
  <2>1. writer' \in {"writing", "announcing"} /\ (writer' = "writing" => todo' = {})
    BY <1>5 DEF AnnounceTurn
  <2>2. /\ FlowTypes' /\ Total \in Nat /\ Total' = Total + 1 /\ Len(sent') = Total + 1
        /\ Flow'[Total + 1] = m /\ sent'[Total + 1] = NoFrame
        /\ \A k \in 1..Total : Flow'[k] = Flow[k] /\ sent'[k] = sent[k]
    BY <1>1, <1>2, <1>5, MetadataFacts, PutOne DEF SendInv
  <2>3. \A j \in DOMAIN list : Describes(m, j) => \A k \in 1..Total : ~Describes(Flow[k], j)
    BY <1>2, <1>5 DEF SendInv, WriterInv
  <2>4. FlowInv'
    BY <1>1, <1>5, <2>2, <2>3, MetadataFacts, FlowGrows DEF SendInv
  <2>5. \A k \in 1..Total' : k \in 1..Total \/ k = Total + 1
    BY <2>2
  <2>6. \A k \in 1..Total : k \in 1..Total'
    BY <2>2
  <2>7. Total + 1 \in 1..Total'
    BY <2>2
  <2>8. \A j \in todo' \ {0} : \A k \in 1..Total' : ~Describes(Flow'[k], j)
    <3>1. \A j \in todo' \ {0} : j \in todo \ {0} /\ j # i /\ j \in DOMAIN list
      BY <1>1, <1>2
    <3> QED
      BY <1>5, <2>2, <2>5, <3>1 DEF SendInv, WriterInv
  <2>9. ASSUME NEW j \in DOMAIN list \ todo'
        PROVE  /\ ~Indescribable(list, j)
               /\ Range(Announcement(list, j)) # {} => \E k \in 1..Total' : Describes(Flow'[k], j)
    <3>1. CASE j = i
      BY <1>2, <1>5, <2>2, <2>7, <3>1
    <3>2. CASE j # i
      <4>1. j \in DOMAIN list \ todo
        BY <1>1, <3>2
      <4> QED
        BY <1>1, <2>2, <2>6, <4>1 DEF SendInv, WriterInv
    <3> QED
      BY <3>1, <3>2
  <2>10. WriterInv'
    <3>1. Total' <= Len(sent') /\ Total' = Len(sent')
      BY <2>2
    <3>2. list' \in TrackLists /\ todo' \in SUBSET ({0} \cup DOMAIN list')
      BY <1>1, <1>2
    <3> QED
      BY <1>1, <1>3, <2>1, <2>8, <2>9, <3>1, <3>2 DEF WriterInv
  <2> QED
    BY <2>2, <2>4, <2>10 DEF SendInv
<1>6. CASE i = 0
  <2>1. Put(<<Metadata>>, NoFrame)
    BY <1>6 DEF AnnounceTurn
  <2>2. \A j \in DOMAIN list : ~Describes(Metadata, j)
    BY <1>2, DescribesOne
  <2>3. Origin(Metadata, NoFrame)
    BY MetadataFacts DEF Origin
  <2> QED
    BY <1>5, <1>6, <2>1, <2>2, <2>3, MetadataFacts
<1>7. CASE i # 0 /\ ~Indescribable(list, i)
  <2>1. Put(Announcement(list, i), NoFrame) /\ i \in DOMAIN list
    BY <1>2, <1>7 DEF AnnounceTurn
  <2>2. CASE Announcement(list, i) = <<>> /\ Range(Announcement(list, i)) = {}
    <3>1. wire' = wire /\ sent' = sent
      BY <2>1, <2>2, PutNone DEF SendInv
    <3>2. FlowTypes' /\ FlowInv' /\ Total' = Total /\ Flow' = Flow
      BY <1>1, <3>1, SameFlow
    <3>3. writer' \in {"writing", "announcing"} /\ (writer' = "writing" => todo' = {})
      BY <1>7 DEF AnnounceTurn
    <3>4. WriterInv'
      BY <1>1, <1>2, <1>3, <1>7, <2>2, <3>1, <3>2, <3>3 DEF SendInv, WriterInv
    <3> QED
      BY <3>2, <3>4 DEF SendInv
  <2>3. ASSUME NEW m, Announcement(list, i) = <<m>>, Range(Announcement(list, i)) = {m}
        PROVE  SendInv'
    <3>1. Describes(m, i) /\ Put(<<m>>, NoFrame)
      BY <2>1, <2>3 DEF Describes
    <3>2. m \in Messages
      BY <1>2, <2>1, <3>1, AnnouncementFacts DEF Describes
    <3>3. \A j \in DOMAIN list : Describes(m, j) => j = i
      BY <1>2, <2>1, <3>1, DescribesOne
    <3>4. Origin(m, NoFrame)
      BY <1>7, <2>1, <3>1, MetadataFacts DEF Origin
    <3> QED
      BY <1>5, <1>7, <3>1, <3>2, <3>3, <3>4
  <2> QED
    BY <1>2, <2>1, <2>2, <2>3, AnnouncementShape
<1> QED
  BY <1>4, <1>6, <1>7

(***************************************************************************)
(* The Reader.                                                             *)
(***************************************************************************)
\* What was found is a track of the Writer, with its codec.
FoundRight(f) ==
  \A id \in TrackIDs :
    /\ IsUp(f.video, id) =>
         \E i \in DOMAIN list : StreamOf(i) = <<"video", id>> /\ f.video[id] = list[i].codec
    /\ IsUp(f.audio, id) =>
         \E i \in DOMAIN list : StreamOf(i) = <<"audio", id>> /\ f.audio[id] = list[i].codec

\* What was taken and has something to give was for a track that is up.
TakenUp(top) ==
  \A n \in 1..top :
    received[n].kind \in LegacyKinds \cup FrameKinds => IsUp(MapOf(received[n]), received[n].id)

\* After a close nothing is missing, and at the end nothing is left.
Ended ==
  /\ conn # "open" /\ wire = <<>> /\ Len(taken) = Len(received)
  /\ \A s \in Streams : tracks[s].held.of = <<>>

ReadInv ==
  /\ FoundRight(found)
  /\ conn = "closed" /\ phase \in {"analyzing", "ready", "ended"} => Total = Len(sent)
  /\ phase \in {"ready", "ended"} => TakenUp(Len(taken))
  /\ phase = "ended" => Ended

PubInv == Inv /\ WholeInv /\ SendInv /\ ReadInv

\* What was received is what flows.
LEMMA ReceivedFlow ==
  ASSUME FlowTypes
  PROVE  \A n \in 1..Len(received) : n \in 1..Total /\ received[n] = Flow[n]
<1>1. Len(received) \in Nat /\ Len(wire) \in Nat
  BY DEF FlowTypes
<1> QED
  BY <1>1 DEF Total, Flow

\* A message that announces a video track is its announcement; one that announces
\* an audio track is its announcement or one of its frames.
LEMMA VideoAnnounced ==
  ASSUME list \in TrackLists, NEW m, NEW g, Origin(m, g), AnnouncesVideo(m)
  PROVE  \E i \in DOMAIN list :
           Describes(m, i) /\ StreamOf(i) = <<"video", m.id>> /\ m.codec = list[i].codec
<1>1. m.kind \in {"video", "videoStart"} /\ (m.kind = "video" => m.packet = "config")
  BY DEF AnnouncesVideo
<1>2. m # Metadata
  BY <1>1, MetadataFacts
<1>3. CASE \E i \in DOMAIN list : ~Indescribable(list, i) /\ Describes(m, i)
  <2>1. PICK i \in DOMAIN list : Describes(m, i)
    BY <1>3
  <2>2. m.id = TrackID(list, i) /\ m.codec = list[i].codec /\ KindOf(list[i]) = "video"
    BY <1>1, <2>1, AnnouncementFacts, ListFields DEF Describes
  <2> QED
    BY <2>1, <2>2 DEF StreamOf
<1>4. CASE /\ g.track \in DOMAIN list /\ ~Indescribable(list, g.track)
           /\ \E t \in Times : g \in FramesOn(list, g.track, t)
           /\ m = FrameMessage(list, g)
  <2>1. /\ m.packet \in {"au", "sei"} /\ (KindOf(list[g.track]) = "video" => m.kind # "videoStart")
        /\ KindOf(list[g.track]) = "audio" => m.kind \in {"audio", "audioFrames"}
    BY <1>4, FrameFacts
  <2> QED
    BY <1>1, <1>4, <2>1, ListFields
<1> QED
  BY <1>2, <1>3, <1>4 DEF Origin

LEMMA AudioAnnounced ==
  ASSUME list \in TrackLists, NEW m, NEW g, Origin(m, g), m.kind \in AudioKinds
  PROVE  \E i \in DOMAIN list :
           /\ StreamOf(i) = <<"audio", m.id>> /\ m.codec = list[i].codec
           /\ Describes(m, i) \/ (g.track = i /\ m.kind # "audioStart")
<1>1. m.kind \in {"audio", "audioStart", "audioFrames", "audioEnd"}
  BY DEF AudioKinds
<1>2. m # Metadata
  BY <1>1, MetadataFacts
<1>3. CASE \E i \in DOMAIN list : ~Indescribable(list, i) /\ Describes(m, i)
  <2>1. PICK i \in DOMAIN list : Describes(m, i)
    BY <1>3
  <2>2. m.id = TrackID(list, i) /\ m.codec = list[i].codec /\ KindOf(list[i]) = "audio"
    BY <1>1, <2>1, AnnouncementFacts, ListFields DEF Describes
  <2> QED
    BY <2>1, <2>2 DEF StreamOf
<1>4. CASE /\ g.track \in DOMAIN list /\ ~Indescribable(list, g.track)
           /\ \E t \in Times : g \in FramesOn(list, g.track, t)
           /\ m = FrameMessage(list, g)
  <2>1. /\ m.id = TrackID(list, g.track) /\ m.codec = list[g.track].codec
        /\ KindOf(list[g.track]) = "video" => m.kind \in {"video", "videoFrames"}
        /\ KindOf(list[g.track]) = "audio" => m.kind \in {"audio", "audioFrames"}
    BY <1>4, FrameFacts
  <2>2. KindOf(list[g.track]) = "audio"
    BY <1>1, <1>4, <2>1, ListFields
  <2> QED
    BY <1>4, <2>1, <2>2 DEF StreamOf
<1> QED
  BY <1>2, <1>3, <1>4 DEF Origin

\* A message that the Writer sent adds to what was found a track of the Writer.
LEMMA AnalyzedRight ==
  ASSUME NEW f \in FoundType, NEW m \in Messages, NEW g, list \in TrackLists, FoundRight(f),
         Origin(m, g)
  PROVE  FoundRight(Analyzed(f, m))
<1> DEFINE h == Analyzed(f, m)
<1>1. \A id \in TrackIDs : Entered(f, h, m, id)
  BY AnalyzedEffect
<1>2. "nil" \notin Codecs
  BY Absent, TrackReaderAssumption DEF IsUp
<1>3. AnnouncesVideo(m) =>
        \E i \in DOMAIN list : StreamOf(i) = <<"video", m.id>> /\ m.codec = list[i].codec
  BY VideoAnnounced
<1>4. AnnouncesAudio(m) =>
        \E i \in DOMAIN list : StreamOf(i) = <<"audio", m.id>> /\ m.codec = list[i].codec
  <2>1. AnnouncesAudio(m) => m.kind \in AudioKinds
    BY DEF AnnouncesAudio, AudioKinds
  <2> QED
    BY <2>1, AudioAnnounced
<1> HIDE DEF h
<1>5. ASSUME NEW id \in TrackIDs, IsUp(h.video, id)
      PROVE  \E i \in DOMAIN list : StreamOf(i) = <<"video", id>> /\ h.video[id] = list[i].codec
  <2>1. h.video[id] = f.video[id] \/ (h.video[id] = m.codec /\ m.id = id /\ AnnouncesVideo(m))
    BY <1>1, <1>2, <1>5 DEF Entered, IsUp
  <2> QED
    BY <1>3, <1>5, <2>1 DEF FoundRight, IsUp
<1>6. ASSUME NEW id \in TrackIDs, IsUp(h.audio, id)
      PROVE  \E i \in DOMAIN list : StreamOf(i) = <<"audio", id>> /\ h.audio[id] = list[i].codec
  <2>1. h.audio[id] = f.audio[id] \/ (h.audio[id] = m.codec /\ m.id = id /\ AnnouncesAudio(m))
    BY <1>1, <1>2, <1>6 DEF Entered, IsUp
  <2> QED
    BY <1>4, <1>6, <2>1 DEF FoundRight, IsUp
<1>7. FoundRight(h)
  BY <1>5, <1>6 DEF FoundRight
<1> QED
  BY <1>7 DEF h

\* What a message that is delivered changes.
LEMMA Delivered ==
  ASSUME PubInv, Deliver
  PROVE  /\ Head(wire) \in Messages /\ received' = Append(received, Head(wire))
         /\ \E f : Origin(Head(wire), f)
         /\ Total' = Total /\ UNCHANGED <<list, sent, conn>>
<1>1. /\ wire # <<>> /\ received' = Append(received, Head(wire)) /\ wire' = Tail(wire)
      /\ UNCHANGED <<list, sent, conn>>
  BY DEF Deliver, Analyze, ReadNew, writerVars
<1>2. /\ Head(wire) \in Messages /\ Total' = Total
      /\ Len(received) + 1 \in 1..Total /\ Flow[Len(received) + 1] = Head(wire)
  BY <1>1, DeliverFlow DEF PubInv, SendInv
<1>3. Origin(Head(wire), sent[Len(received) + 1])
  BY <1>2 DEF PubInv, SendInv, FlowInv, Sourced
<1> QED
  BY <1>1, <1>2, <1>3

LEMMA AnalyzeRead ==
  ASSUME PubInv, Deliver, Analyze(Head(wire))
  PROVE  ReadInv'
<1> DEFINE m == Head(wire)
<1>1. /\ m \in Messages /\ (\E f : Origin(m, f))
      /\ Total' = Total /\ UNCHANGED <<list, sent, conn>>
  BY Delivered
<1>2. /\ phase = "analyzing" /\ phase' \in {"analyzing", "ready", "failed"} /\ taken' = taken
      /\ found' \in {found, Analyzed(found, m)}
  BY DEF Analyze
<1> HIDE DEF m
<1>3. FoundRight(found')
  <2>1. FoundRight(found) /\ found \in FoundType /\ list \in TrackLists
    BY DEF PubInv, ReadInv, Inv, Types, SendInv, WriterInv
  <2>2. FoundRight(Analyzed(found, m))
    BY <1>1, <2>1, AnalyzedRight
  <2> QED
    BY <1>2, <2>1, <2>2
<1>4. FoundRight(found)'
  BY <1>1, <1>3 DEF FoundRight, StreamOf
<1>5. conn' = "closed" => Total' = Len(sent')
  BY <1>1, <1>2 DEF PubInv, ReadInv
<1>6. TakenUp(Len(taken))'
  <2>1. taken' = <<>> /\ \A n : n \notin 1..Len(<<>>)
    BY <1>2 DEF PubInv, WholeInv, Whole, Numbered
  <2> QED
    BY <2>1 DEF TakenUp
<1> QED
  BY <1>2, <1>4, <1>5, <1>6 DEF ReadInv

LEMMA ReadNewRead ==
  ASSUME PubInv, Deliver, ReadNew(Head(wire))
  PROVE  ReadInv'
<1> DEFINE m == Head(wire)
           rec == received'
           n == N
<1>1. m \in Messages /\ Total' = Total /\ UNCHANGED <<list, sent, conn>>
  BY Delivered
<1>2. /\ phase = "ready" /\ rec = Append(received, m) /\ Dispatch(n, m) /\ found' = found
      /\ entries = <<>> /\ taken' = Append(taken, n)
  BY DEF ReadNew, FromRecord, Dispatch
<1>3. /\ rec \in Seq(Messages) /\ Len(received) \in Nat /\ n \in 1..Len(rec) /\ rec[n] = m
      /\ n = Len(received) + 1
      /\ \A i \in 1..Len(received) : rec[i] = received[i]
      /\ \A s \in Streams : GoodTrack(tracks[s], rec)
  <2>1. received' = Append(received, m)
    BY <1>2
  <2>2. n = Len(received) + 1
    BY DEF N
  <2> HIDE DEF m
  <2> QED
    BY <1>1, <2>1, <2>2, OneMore DEF PubInv
<1>4. Len(taken) = Len(received) /\ taken \in Seq(Nat)
  <2>1. Len(entries) = 0 /\ taken \in Seq(Nat) /\ Len(taken) + Len(entries) = Len(received)
    BY <1>2 DEF PubInv, WholeInv, Whole, Numbered, Inv, Types
  <2> QED
    BY <2>1
<1>5. Dispatch(n, rec[n])
  BY <1>2, <1>3
<1>6. Types /\ tracks \in [Streams -> TrackType]
  BY DEF PubInv, Inv, Given
<1> HIDE DEF m, rec, n
<1>7. /\ phase' \in Phases \ {"analyzing", "failed", "ended"}
      /\ phase' = "ready" /\ rec[n].kind \in LegacyKinds \cup FrameKinds => IsUp(MapOf(rec[n]), rec[n].id)
  BY <1>2, <1>3, <1>5, <1>6, DispatchKeeps
<1>8. FoundRight(found)'
  BY <1>1, <1>2 DEF FoundRight, StreamOf, PubInv, ReadInv
<1>9. conn' = "closed" => Total' = Len(sent')
  BY <1>1, <1>2 DEF PubInv, ReadInv
<1>10. \A x : MapOf(x)' = MapOf(x)
  BY <1>2 DEF MapOf
<1>11. ASSUME phase' = "ready" PROVE TakenUp(Len(taken))'
  <2>1. Len(taken') = Len(received) + 1 /\ Len(received) \in Nat
    BY <1>2, <1>3, <1>4, Appended
  <2>2. \A k \in 1..Len(taken') : k \in 1..Len(received) \/ k = n
    BY <1>3, <2>1
  <2>3. TakenUp(Len(received))
    BY <1>2, <1>4 DEF PubInv, ReadInv
  <2> QED
    BY <1>3, <1>7, <1>10, <1>11, <2>2, <2>3 DEF TakenUp, rec
<1> QED
  BY <1>7, <1>8, <1>9, <1>11 DEF ReadInv

LEMMA ReplayRead ==
  ASSUME PubInv, Replay
  PROVE  ReadInv'
<1> DEFINE n == Head(entries)
<1>1. /\ phase = "ready" /\ entries # <<>> /\ Dispatch(n, received[n])
      /\ taken' = Append(taken, n)
      /\ UNCHANGED <<received, found, list, sent, wire, conn>>
  BY DEF Replay, ReadRecorded, FromRecord, Dispatch, writerVars
<1>2. /\ n \in 1..Len(received) /\ n = Len(taken) + 1 /\ taken \in Seq(Nat) /\ n \in Nat
      /\ Len(taken) \in Nat
  <2>1. /\ entries \in Seq(1..Len(received)) /\ taken \in Seq(Nat)
        /\ \A i \in 1..Len(entries) : entries[i] = Len(taken) + i
    BY <1>1 DEF PubInv, WholeInv, Whole, Numbered, Inv, Types
  <2>2. n \in 1..Len(received) /\ Len(entries) \in Nat /\ 1 \in 1..Len(entries) /\ n = entries[1]
    BY <1>1, <2>1
  <2> QED
    BY <2>1, <2>2
<1>3. /\ Types /\ received \in Seq(Messages) /\ tracks \in [Streams -> TrackType]
      /\ \A s \in Streams : GoodTrack(tracks[s], received)
  BY DEF PubInv, Inv, Given, Types
<1> HIDE DEF n
<1>4. /\ phase' \in Phases \ {"analyzing", "failed", "ended"}
      /\ phase' = "ready" /\ received[n].kind \in LegacyKinds \cup FrameKinds =>
           IsUp(MapOf(received[n]), received[n].id)
  BY <1>1, <1>2, <1>3, DispatchKeeps
<1>5. FoundRight(found)'
  BY <1>1 DEF FoundRight, StreamOf, PubInv, ReadInv
<1>6. conn' = "closed" => Total' = Len(sent')
  BY <1>1 DEF PubInv, ReadInv, Total
<1>7. \A x : MapOf(x)' = MapOf(x)
  BY <1>1 DEF MapOf
<1>8. ASSUME phase' = "ready" PROVE TakenUp(Len(taken))'
  <2>1. Len(taken') = Len(taken) + 1
    BY <1>1, <1>2, Appended
  <2>2. \A k \in 1..Len(taken') : k \in 1..Len(taken) \/ k = n
    BY <1>2, <2>1
  <2>3. TakenUp(Len(taken))
    BY <1>1 DEF PubInv, ReadInv
  <2> QED
    BY <1>1, <1>4, <1>7, <1>8, <2>2, <2>3 DEF TakenUp
<1> QED
  BY <1>4, <1>5, <1>6, <1>8 DEF ReadInv

LEMMA EndsRead ==
  ASSUME PubInv, ReaderEnds
  PROVE  ReadInv'
<1>1. /\ conn # "open" /\ wire = <<>>
      /\ UNCHANGED <<received, found, taken, list, sent, wire, conn>>
      /\ \/ phase = "analyzing" /\ phase' = "failed"
         \/ /\ phase = "ready" /\ entries = <<>> /\ phase' = "ended"
            /\ tracks' = [s \in Streams |-> IF found[s[1]][s[2]] = "h264"
                                            THEN FlushPending(tracks[s]) ELSE tracks[s]]
  BY DEF ReaderEnds, ConnEnds, FromRecord, writerVars
<1>2. FoundRight(found)'
  BY <1>1 DEF FoundRight, StreamOf, PubInv, ReadInv
<1>3. CASE phase' = "failed"
  BY <1>2, <1>3 DEF ReadInv
<1>4. CASE /\ phase = "ready" /\ entries = <<>> /\ phase' = "ended"
           /\ tracks' = [s \in Streams |-> IF found[s[1]][s[2]] = "h264"
                                           THEN FlushPending(tracks[s]) ELSE tracks[s]]
  <2>1. Len(taken) = Len(received)
    <3>1. Len(entries) = 0 /\ Len(taken) \in Nat /\ Len(taken) + Len(entries) = Len(received)
      BY <1>4 DEF PubInv, WholeInv, Whole, Numbered, Inv, Types
    <3> QED
      BY <3>1
  <2>2. ASSUME NEW s \in Streams PROVE tracks'[s].held.of = <<>>
    <3>1. s = <<s[1], s[2]>> /\ s[1] \in {"video", "audio"} /\ s[2] \in TrackIDs
      BY DEF Streams
    <3>2. tracks[s] \in TrackType
      BY DEF PubInv, Inv, Given
    <3>3. FlushPending(tracks[s]).held.of = <<>>
      BY <3>2, NoUnitFits DEF FlushPending, Give, TrackType
    <3>4. CASE found[s[1]][s[2]] = "h264"
      BY <1>4, <3>3, <3>4
    <3>5. CASE found[s[1]][s[2]] # "h264"
      <4>1. tracks[s].held.of = <<>>
        <5>1. HeldByH264(tracks)
          BY <1>4 DEF PubInv, WholeInv, Whole
        <5>2. CASE s[1] = "video"
          BY <3>1, <3>5, <5>1, <5>2 DEF HeldByH264
        <5>3. CASE s[1] = "audio"
          BY <3>1, <5>1, <5>3 DEF HeldByH264
        <5> QED
          BY <3>1, <5>2, <5>3
      <4> QED
        BY <1>4, <3>5, <4>1
    <3> QED
      BY <3>4, <3>5
  <2>3. Ended'
    BY <1>1, <2>1, <2>2 DEF Ended
  <2>4. TakenUp(Len(taken))'
    BY <1>1, <1>4 DEF TakenUp, MapOf, PubInv, ReadInv
  <2>5. conn' = "closed" => Total' = Len(sent')
    BY <1>1, <1>4 DEF PubInv, ReadInv, Total
  <2> QED
    BY <1>2, <2>3, <2>4, <2>5 DEF ReadInv
<1> QED
  BY <1>1, <1>3, <1>4

\* A step of the Writer or of the connection.
LEMMA OthersRead ==
  ASSUME PubInv, UNCHANGED <<vars, list>>,
         conn' = "closed" /\ phase \in {"analyzing", "ready", "ended"} => Total' = Len(sent'),
         phase = "ended" => conn' # "open" /\ wire' = <<>>
  PROVE  ReadInv'
<1>1. UNCHANGED <<phase, received, found, tracks, taken, list>>
  BY DEF vars
<1>2. FoundRight(found)'
  BY <1>1 DEF FoundRight, StreamOf, PubInv, ReadInv
<1>3. (phase \in {"ready", "ended"} => TakenUp(Len(taken)))'
  BY <1>1 DEF TakenUp, MapOf, PubInv, ReadInv
<1>4. (phase = "ended" => Ended)'
  BY <1>1 DEF Ended, PubInv, ReadInv
<1> QED
  BY <1>1, <1>2, <1>3, <1>4 DEF ReadInv

(***************************************************************************)
(* The whole.                                                              *)
(***************************************************************************)
\* A step of Publish is one of TrackReader, or leaves the Reader alone.
LEMMA ReaderStep == SendInv /\ [PublishNext]_publishVars => [Next]_vars
<1> SUFFICES ASSUME SendInv, PublishNext PROVE [Next]_vars
  BY DEF publishVars
<1>1. CASE Deliver
  <2>1. Head(wire) \in Messages
    BY <1>1 DEF SendInv, FlowTypes, Deliver
  <2> QED
    BY <1>1, <2>1 DEF Deliver, Next, Receive
<1>2. CASE Replay \/ ReaderEnds
  BY <1>2 DEF Replay, ReaderEnds, Next
<1>3. CASE Announce \/ WriteFails \/ WriterCloses \/ Drain \/ Lose \/ ReaderCloses
  BY <1>3 DEF Announce, AnnounceTurn, WriteFails, WriterCloses, Drain, Lose, ReaderCloses, readerVars
<1>4. CASE \E frame \in Frames : WriteFrame(frame)
  BY <1>4 DEF WriteFrame, readerVars
<1> QED
  BY <1>1, <1>2, <1>3, <1>4 DEF PublishNext, Reading

LEMMA SendKept ==
  ASSUME SendInv, IdsFit, [PublishNext]_publishVars
  PROVE  SendInv'
<1>1. CASE UNCHANGED SenderVars
  BY <1>1, SenderStutter
<1>2. CASE Announce
  BY <1>2, TurnKeeps DEF Announce
<1>3. CASE \E frame \in Frames : WriteFrame(frame)
  BY <1>3, WriteFrameKeeps
<1>4. CASE WriteFails \/ WriterCloses \/ Lose \/ ReaderCloses \/ Deliver
  BY <1>4, WriteFailsKeeps, WriterClosesKeeps, LoseKeeps, ReaderClosesKeeps, DeliverKeeps
<1>5. CASE Drain
  <2>1. UNCHANGED SenderVars
    BY <1>5 DEF Drain, SenderVars, readerVars, vars
  <2> QED
    BY <2>1, SenderStutter
<1>6. CASE Replay \/ ReaderEnds
  <2>1. UNCHANGED SenderVars
    BY <1>6 DEF Replay, ReaderEnds, ReadRecorded, ConnEnds, SenderVars, writerVars
  <2> QED
    BY <2>1, SenderStutter
<1>7. CASE UNCHANGED publishVars
  <2>1. UNCHANGED SenderVars
    BY <1>7 DEF publishVars, SenderVars, writerVars, vars
  <2> QED
    BY <2>1, SenderStutter
<1> QED
  BY <1>2, <1>3, <1>4, <1>5, <1>6, <1>7 DEF PublishNext, Reading

LEMMA ReadKept ==
  ASSUME PubInv, [PublishNext]_publishVars
  PROVE  ReadInv'
<1> USE DEF readerVars
<1>1. CASE Deliver
  BY <1>1, AnalyzeRead, ReadNewRead DEF Deliver
<1>2. CASE Replay \/ ReaderEnds
  BY <1>2, ReplayRead, EndsRead
\* Nothing is put on the wire of a connection that is not open.
<1>3. ASSUME UNCHANGED <<vars, list, conn>>, conn = "open" PROVE ReadInv'
  BY <1>3, OthersRead DEF PubInv, ReadInv, Ended
<1>4. ASSUME UNCHANGED <<vars, list, conn, wire, sent>> PROVE ReadInv'
  <2>1. UNCHANGED received
    BY <1>4 DEF vars
  <2>2. Total' = Total
    BY <1>4, <2>1 DEF Total
  <2> QED
    BY <1>4, <2>2, OthersRead DEF PubInv, ReadInv, Ended
<1>5. CASE Announce
  BY <1>3, <1>5 DEF Announce, AnnounceTurn
<1>6. CASE \E frame \in Frames : WriteFrame(frame)
  BY <1>3, <1>6 DEF WriteFrame
<1>7. CASE WriteFails \/ Drain
  BY <1>4, <1>7 DEF WriteFails, Drain
<1>8. CASE WriterCloses
  <2>1. /\ conn = "open" /\ UNCHANGED <<vars, list, wire, sent, received>>
    BY <1>8 DEF WriterCloses, vars
  <2>2. Total' = Len(sent') /\ phase # "ended"
    BY <2>1 DEF Total, PubInv, SendInv, WriterInv, ReadInv, Ended
  <2> QED
    BY <2>1, <2>2, OthersRead
<1>9. CASE Lose
  <2>1. conn = "open" /\ conn' = "lost" /\ UNCHANGED <<vars, list>>
    BY <1>9 DEF Lose, writerVars
  <2> QED
    BY <2>1, OthersRead DEF PubInv, ReadInv, Ended
<1>10. CASE ReaderCloses
  <2>1. conn = "open" /\ phase \notin {"analyzing", "ready"} /\ UNCHANGED <<vars, list>>
    BY <1>10 DEF ReaderCloses, writerVars
  <2> QED
    BY <2>1, OthersRead DEF PubInv, ReadInv, Ended
<1>11. CASE UNCHANGED publishVars
  BY <1>4, <1>11 DEF publishVars, writerVars
<1> QED
  BY <1>1, <1>2, <1>5, <1>6, <1>7, <1>8, <1>9, <1>10, <1>11 DEF PublishNext, Reading

LEMMA InitPub == PublishInit => PubInv
<1> SUFFICES ASSUME PublishInit PROVE PubInv
  OBVIOUS
<1>1. Init /\ list \in TrackLists /\ todo = {0} \cup DOMAIN list /\ writer = "announcing"
      /\ sent = <<>> /\ wire = <<>> /\ conn = "open" /\ received = <<>> /\ phase = "analyzing"
  BY DEF PublishInit, Init
<1>2. Inv /\ WholeInv
  BY <1>1, InitInv, InitWhole
<1>3. Len(<<>>) = 0 /\ 0 + 0 = 0 /\ (\A n : n \notin 1..0) /\ \A S : <<>> \in Seq(S)
  OBVIOUS
<1>4. FlowTypes /\ Total = 0 /\ Len(sent) = 0
  BY <1>1, <1>3 DEF FlowTypes, Total
<1>5. FlowInv
  BY <1>3, <1>4 DEF FlowInv, Sourced, Once, FramesLast
<1>6. WriterInv
  BY <1>1, <1>3, <1>4 DEF WriterInv
<1>7. FoundRight(found)
  BY <1>1, Absent DEF Init, FoundRight, IsUp
<1> QED
  BY <1>1, <1>2, <1>4, <1>5, <1>6, <1>7 DEF PubInv, SendInv, ReadInv

LEMMA PubAlways ==
  ASSUME IdsFit
  PROVE  PublishSpec => []PubInv
<1>1. PubInv /\ [PublishNext]_publishVars => PubInv'
  <2> SUFFICES ASSUME PubInv, [PublishNext]_publishVars PROVE PubInv'
    OBVIOUS
  <2>1. Inv' /\ WholeInv'
    BY ReaderStep, InvKept, WholeKept DEF PubInv
  <2> QED
    BY <2>1, SendKept, ReadKept DEF PubInv
<1> QED
  BY InitPub, <1>1, PTL DEF PublishSpec

\* What arrived of what was written to track i is what its callback was given,
\* and only that.
LEMMA CarriedAreWritten ==
  ASSUME IdsFit, PubInv, phase \in {"ready", "ended"}, NEW i \in DOMAIN list
  PROVE  \A n \in 1..Len(taken) : sent[n].track # 0 =>
           /\ sent[n].track = i => Carries(StreamOf(i), received[n])
           /\ Reaches(StreamOf(i), received[n]) => sent[n].track = i
<1> SUFFICES ASSUME NEW n \in 1..Len(taken), sent[n].track # 0
             PROVE  /\ sent[n].track = i => Carries(StreamOf(i), received[n])
                    /\ Reaches(StreamOf(i), received[n]) => sent[n].track = i
  OBVIOUS
<1> DEFINE m == received[n]
           f == sent[n]
           j == f.track
<1>1. /\ list \in TrackLists /\ Len(list) <= 256 /\ i \in DOMAIN list
      /\ n \in 1..Len(received) /\ n \in 1..Total /\ m = Flow[n]
  <2>1. Len(taken) \in Nat /\ Len(received) \in Nat /\ Len(taken) <= Len(received)
    BY DEF PubInv, Inv, Types, WholeInv, Whole, Numbered
  <2>2. n \in 1..Len(received)
    BY <2>1
  <2> QED
    BY <2>2, ReceivedFlow DEF PubInv, SendInv, WriterInv, IdsFit
<1>2. Origin(m, f)
  BY <1>1 DEF PubInv, SendInv, FlowInv, Sourced
<1>3. /\ j \in DOMAIN list /\ ~Indescribable(list, j)
      /\ \E t \in Times : f \in FramesOn(list, j, t)
      /\ m = FrameMessage(list, f)
  BY <1>2 DEF Origin
<1> HIDE DEF m, f
<1>4. /\ m.id = TrackID(list, j) /\ m.codec = list[j].codec
      /\ KindOf(list[j]) = "video" => m.kind \in {"video", "videoFrames"} /\ VideoFor(m.codec, m)
      /\ KindOf(list[j]) = "audio" => m.kind \in {"audio", "audioFrames"} /\ AudioFor(m.codec, m)
  BY <1>1, <1>3, FrameFacts
<1>5. KindOf(list[j]) \in {"video", "audio"} /\ KindOf(list[i]) \in {"video", "audio"}
      /\ TrackID(list, i) \in TrackIDs /\ TrackID(list, j) \in TrackIDs
  BY <1>1, <1>3, ListFields
<1>6. StreamOf(i) \in Streams
  BY <1>5 DEF StreamOf, Streams
<1>7. StreamOfMessage(m) = StreamOf(j)
  BY <1>4, <1>5 DEF StreamOfMessage, StreamOf
<1>8. \A k \in DOMAIN list : StreamOf(k) = StreamOf(j) => k = j
  <2> SUFFICES ASSUME NEW k \in DOMAIN list, StreamOf(k) = StreamOf(j) PROVE k = j
    OBVIOUS
  <2>1. KindOf(list[k]) = KindOf(list[j]) /\ TrackID(list, k) = TrackID(list, j)
    BY DEF StreamOf
  <2> QED
    BY <1>1, <1>3, <2>1, DistinctTracks
<1>9. ASSUME Reaches(StreamOf(i), m) PROVE j = i
  BY <1>6, <1>7, <1>8, <1>9, ReachesOne
<1>10. Carries(StreamOf(j), m)
  <2>1. IsUp(MapOf(m), m.id) /\ FoundRight(found)
    <3>1. m.kind \in LegacyKinds \cup FrameKinds
      BY <1>4, <1>5 DEF LegacyKinds, FrameKinds
    <3>2. TakenUp(Len(taken)) /\ FoundRight(found)
      BY DEF PubInv, ReadInv
    <3> QED
      BY <3>1, <3>2 DEF TakenUp, m
  <2>2. CASE KindOf(list[j]) = "video"
    <3>1. /\ IsUp(found.video, m.id) /\ StreamOf(j) = <<"video", m.id>> /\ VideoFor(m.codec, m)
          /\ m.id \in TrackIDs
      BY <1>4, <1>5, <2>1, <2>2 DEF MapOf, StreamOf
    <3>2. found.video[m.id] = m.codec
      BY <1>4, <1>8, <2>1, <3>1 DEF FoundRight
    <3> QED
      BY <3>1, <3>2 DEF Carries
  <2>3. CASE KindOf(list[j]) = "audio"
    <3>1. /\ IsUp(found.audio, m.id) /\ StreamOf(j) = <<"audio", m.id>> /\ AudioFor(m.codec, m)
          /\ m.id \in TrackIDs
      BY <1>4, <1>5, <2>1, <2>3 DEF MapOf, StreamOf
    <3>2. found.audio[m.id] = m.codec
      BY <1>4, <1>8, <2>1, <3>1 DEF FoundRight
    <3> QED
      BY <3>1, <3>2 DEF Carries
  <2> QED
    BY <1>5, <2>2, <2>3
<1> QED
  BY <1>9, <1>10 DEF m, f

\* What the callback of a track is given is what the application wrote to that
\* track, all of it, in order and with its times, whatever the tracks, as long as
\* their ids fit in a byte, the frames, the losses and the closes
\* (writer.go:228-943, reader.go:319-978).
THEOREM AlwaysPlayed ==
  ASSUME IdsFit
  PROVE  PublishSpec => []Played
<1>1. PubInv => Played
  <2> SUFFICES ASSUME PubInv, phase \in {"ready", "ended"} PROVE Played
    BY DEF Played
  <2>1. Conserved /\ OneInstant
    BY WholeConserved, GoodOneInstant DEF PubInv
  <2>2. Inv /\ FlowTypes /\ list \in TrackLists
    BY DEF PubInv, SendInv, WriterInv
  <2>3. ASSUME NEW i \in DOMAIN list PROVE StreamOf(i) \in Streams
    BY <2>2, ListFields DEF StreamOf, Streams
  <2>4. ASSUME NEW i \in DOMAIN list
        PROVE  {n \in NumbersIn(UnitsOf(StreamOf(i))) : sent[n].track # 0} = FramesOf(i, Len(taken))
    <3> DEFINE ns == NumbersIn(UnitsOf(StreamOf(i)))
    <3>1. \A n : /\ n \in ns => n \in 1..Len(taken) /\ Reaches(StreamOf(i), received[n])
                 /\ n \in 1..Len(taken) /\ Carries(StreamOf(i), received[n]) => n \in ns
      BY <2>1, <2>3 DEF Conserved, Carried, EmptyFrames, Reaches
    <3> HIDE DEF ns
    <3>2. i # 0
      BY <2>2, ListFields
    <3> QED
      BY <3>1, <3>2, CarriedAreWritten DEF FramesOf, ns
  <2>5. ASSUME NEW i \in DOMAIN list PROVE InOrder(UnitsOf(StreamOf(i)))
    BY <2>1, <2>3 DEF Conserved
  <2>6. ASSUME NEW i \in DOMAIN list, NEW k \in DOMAIN tracks[StreamOf(i)].out,
               NEW u, u = tracks[StreamOf(i)].out[k], NEW j \in DOMAIN u.of, sent[u.of[j]].track # 0
        PROVE  u.time = <<sent[u.of[j]].pts, sent[u.of[j]].dts>>
    <3> DEFINE n == u.of[j]
               f == sent[n]
    <3>1. Time(received[n]) = u.time
      BY <2>1, <2>3, <2>6 DEF OneInstant
    <3>2. n \in 1..Len(received)
      BY <2>2, <2>3, <2>6 DEF Inv, Given, GoodTrack, Fits
    <3>3. n \in 1..Total /\ received[n] = Flow[n]
      BY <2>2, <3>2, ReceivedFlow
    <3>4. Origin(received[n], f)
      BY <3>3 DEF PubInv, SendInv, FlowInv, Sourced
    <3>5. /\ f.track \in DOMAIN list /\ ~Indescribable(list, f.track)
          /\ \E t \in Times : f \in FramesOn(list, f.track, t)
          /\ received[n] = FrameMessage(list, f)
      BY <2>6, <3>4 DEF Origin
    <3> HIDE DEF n, f
    <3>6. Time(received[n]) = <<f.pts, f.dts>>
      BY <2>2, <3>5, FrameFacts
    <3> QED
      BY <3>1, <3>6 DEF n, f
  <2>7. ASSUME phase = "ended", conn = "closed"
        PROVE  Len(taken) = Len(sent) /\ \A s \in Streams : tracks[s].held.of = <<>>
    <3>1. /\ wire = <<>> /\ Len(taken) = Len(received) /\ Total = Len(sent)
          /\ \A s \in Streams : tracks[s].held.of = <<>>
      BY <2>7 DEF PubInv, ReadInv, Ended
    <3>2. Total = Len(received)
      BY <2>2, <3>1 DEF Total, FlowTypes
    <3> QED
      BY <3>1, <3>2
  <2> QED
    BY <2>4, <2>5, <2>6, <2>7 DEF Played
<1> QED
  BY PubAlways, <1>1, PTL

(***************************************************************************)
(* What the analysis learns from the first messages of a Writer.           *)
(***************************************************************************)
Silence(top) == \A k \in 1..top : sent[k].track = 0

Learned(f, top) ==
  /\ \A id \in TrackIDs :
       /\ IsUp(f.video, id) => \E k \in 1..top : AnnouncesVideo(Flow[k]) /\ Flow[k].id = id
       /\ f.starts[id] # "none" => \E k \in 1..top : Flow[k].kind = "audioStart" /\ Flow[k].id = id
       /\ f.video[id] = "nil" => \E i \in DOMAIN list : StreamOf(i) = <<"video", id>>
       /\ f.audio[id] = "nil" => \E i \in DOMAIN list : StreamOf(i) = <<"audio", id>>
  /\ \A k \in 1..top : Flow[k].kind = "audioStart" => f.starts[Flow[k].id] = Flow[k].codec
  /\ Silence(top) => f.start = 0 /\ f.cur = 0

\* A track that the frames alone do not make known is announced.
LEMMA AnnouncedWhen ==
  ASSUME NEW l \in TrackLists, NEW i \in DOMAIN l,
         KindOf(l[i]) = "video" \/ l[i].codec \in {"aac", "opus", "flac", "ac3"}
  PROVE  Range(Announcement(l, i)) # {}
<1>1. \A m : Range(<<m>>) # {}
  <2> TAKE m
  <2>1. <<m>>[1] = m /\ 1 \in DOMAIN <<m>>
    OBVIOUS
  <2> QED
    BY <2>1 DEF Range
<1>2. \/ \E kind : Announcement(l, i) = Start(kind, l, i)
      \/ \E m : Announcement(l, i) = <<m>>
  <2>1. KindOf(l[i]) = "video" <=> IsVideo(l[i])
    BY DEF KindOf
  <2>2. CASE Unconfigured(l, i) /\ ~IsVideo(l[i])
    BY <2>2 DEF Announcement, AudioAnnouncement, Unconfigured
  <2>3. CASE ~Unconfigured(l, i) \/ IsVideo(l[i])
    <3>1. CASE IsVideo(l[i])
      BY <3>1 DEF Announcement, VideoAnnouncement
    <3>2. CASE ~IsVideo(l[i]) /\ l[i].codec = "aac"
      <4>1. CASE TrackID(l, i) = 0
        BY <2>3, <3>2, <4>1 DEF Announcement, AudioAnnouncement, Unconfigured
      <4>2. CASE TrackID(l, i) # 0
        BY <2>3, <3>2, <4>2 DEF Announcement, AudioAnnouncement, Unconfigured
      <4> QED
        BY <4>1, <4>2
    <3>3. CASE ~IsVideo(l[i]) /\ l[i].codec # "aac"
      BY <2>1, <3>3 DEF Announcement, AudioAnnouncement, Unconfigured
    <3> QED
      BY <3>1, <3>2, <3>3
  <2> QED
    BY <2>2, <2>3
<1> QED
  BY <1>1, <1>2 DEF Start

LEMMA StreamsDiffer ==
  ASSUME IdsFit, list \in TrackLists, NEW i \in DOMAIN list, NEW j \in DOMAIN list,
         StreamOf(i) = StreamOf(j)
  PROVE  i = j
<1>1. KindOf(list[i]) = KindOf(list[j]) /\ TrackID(list, i) = TrackID(list, j)
  BY DEF StreamOf
<1> QED
  BY <1>1, DistinctTracks DEF IdsFit

\* A track is announced once.
LEMMA AnnouncedOnce ==
  ASSUME IdsFit, SendInv, NEW k \in 1..Total, NEW l \in 1..Total,
         NEW i \in DOMAIN list, NEW j \in DOMAIN list,
         Describes(Flow[k], i), Describes(Flow[l], j), StreamOf(i) = StreamOf(j)
  PROVE  k = l
<1>1. i = j
  BY StreamsDiffer DEF SendInv, WriterInv
<1> QED
  BY <1>1 DEF SendInv, FlowInv, Once

\* A message that flows.
LEMMA Flowing ==
  ASSUME SendInv, NEW n \in 1..Total
  PROVE  /\ Flow[n] \in Messages /\ Origin(Flow[n], sent[n]) /\ list \in TrackLists
         /\ Total \in Nat /\ n \in Nat /\ \A k \in 1..(n - 1) : k \in 1..Total
         /\ sent[n].track # 0 => Described(n - 1)
<1>1. Len(received) \in Nat /\ Len(wire) \in Nat /\ Total \in Nat
  BY DEF SendInv, FlowTypes, Total
<1>2. Flow[n] \in Messages
  <2>1. n <= Len(received) \/ n - Len(received) \in 1..Len(wire)
    BY <1>1 DEF Total
  <2> QED
    BY <1>1, <2>1 DEF Flow, SendInv, FlowTypes
<1>3. \A k \in 1..(n - 1) : k \in 1..Total
  BY <1>1
<1> QED
  BY <1>1, <1>2, <1>3 DEF SendInv, FlowInv, Sourced, FramesLast, WriterInv

\* The analysis does not fail on a message of a Writer.
LEMMA NoFailure ==
  ASSUME IdsFit, SendInv, NEW f \in FoundType, ~f.failed, NEW n \in 1..Total, Learned(f, n - 1)
  PROVE  ~Analyzed(f, Flow[n]).failed
<1> DEFINE m == Flow[n]
<1>1. /\ m \in Messages /\ Origin(m, sent[n]) /\ list \in TrackLists
      /\ \A k \in 1..(n - 1) : k \in 1..Total /\ k # n
  BY Flowing
<1> HIDE DEF m
<1>2. SUFFICES ASSUME Failing(f, m) PROVE FALSE
  BY <1>1, AnalyzedEffect DEF m
<1>3. m.id \in TrackIDs
  BY <1>1, MessageFields
<1>4. CASE m.kind = "videoStart"
  <2>1. PICK i \in DOMAIN list : Describes(m, i) /\ StreamOf(i) = <<"video", m.id>>
    BY <1>1, <1>4, VideoAnnounced DEF AnnouncesVideo
  <2>2. m.packet = "config"
    BY <1>1, <2>1, AnnouncementFacts DEF Describes, Unconfigured, StreamOf, KindOf, IsVideo
  <2>3. IsUp(f.video, m.id)
    BY <1>2, <1>4, <2>2 DEF Failing
  <2>4. PICK k \in 1..(n - 1) : AnnouncesVideo(Flow[k]) /\ Flow[k].id = m.id
    BY <1>3, <2>3 DEF Learned
  <2>5. k \in 1..Total /\ k # n /\ Origin(Flow[k], sent[k])
    BY <1>1, Flowing
  <2>6. PICK j \in DOMAIN list : Describes(Flow[k], j) /\ StreamOf(j) = <<"video", m.id>>
    BY <1>1, <2>4, <2>5, VideoAnnounced
  <2> QED
    BY <2>1, <2>5, <2>6, AnnouncedOnce DEF m
<1>5. CASE m.kind = "audioStart"
  <2>1. PICK i \in DOMAIN list : Describes(m, i) /\ StreamOf(i) = <<"audio", m.id>>
    BY <1>1, <1>5, AudioAnnounced DEF AudioKinds
  <2>2. f.starts[m.id] # "none"
    BY <1>2, <1>5 DEF Failing
  <2>3. PICK k \in 1..(n - 1) : Flow[k].kind = "audioStart" /\ Flow[k].id = m.id
    BY <1>3, <2>2 DEF Learned
  <2>4. k \in 1..Total /\ k # n /\ Origin(Flow[k], sent[k])
    BY <1>1, Flowing
  <2>5. PICK j \in DOMAIN list : Describes(Flow[k], j) /\ StreamOf(j) = <<"audio", m.id>>
    BY <1>1, <2>3, <2>4, AudioAnnounced DEF AudioKinds
  <2> QED
    BY <2>1, <2>4, <2>5, AnnouncedOnce DEF m
<1>6. CASE m.kind = "audioFrames"
  <2> DEFINE g == sent[n]
             j == g.track
  <2>1. m # Metadata
    BY <1>6, MetadataFacts
  <2>2. \A i \in DOMAIN list : ~Describes(m, i)
    BY <1>1, <1>6, AnnouncementFacts, ListFields DEF Describes
  <2>3. /\ j \in DOMAIN list /\ ~Indescribable(list, j)
        /\ \E t \in Times : g \in FramesOn(list, j, t)
        /\ m = FrameMessage(list, g)
    BY <1>1, <2>1, <2>2 DEF Origin
  <2>4. j # 0
    BY <1>1, <2>3, ListFields
  <2>5. Described(n - 1)
    BY <2>4, Flowing
  <2> HIDE DEF g
  <2>6. /\ m.id = TrackID(list, j) /\ m.codec = list[j].codec /\ m.packet \in {"au", "sei"}
        /\ m.codec \notin {"g711", "lpcm"} /\ (m.codec = "aac" => m.id # 0)
        /\ KindOf(list[j]) = "video" => m.kind \in {"video", "videoFrames"}
    BY <1>1, <1>6, <2>3, FrameFacts
  <2>7. KindOf(list[j]) = "audio" /\ m.codec \in AudioCodecs
    BY <1>1, <1>6, <2>3, <2>6, ListFields
  <2>8. m.codec # "mp3" /\ f.starts[m.id] # m.codec
    BY <1>2, <1>6, <2>6 DEF Failing
  <2>9. m.codec \in {"aac", "opus", "flac", "ac3"}
    BY <2>6, <2>7, <2>8 DEF AudioCodecs
  <2>10. PICK k \in 1..(n - 1) : Describes(Flow[k], j)
    BY <1>1, <2>3, <2>5, <2>6, <2>9, AnnouncedWhen DEF Described
  <2>11. Flow[k].id = m.id /\ Flow[k].codec = m.codec /\ Flow[k].kind = "audioStart"
    BY <1>1, <2>3, <2>6, <2>7, <2>10, AnnouncementFacts DEF Describes
  <2> QED
    BY <2>8, <2>10, <2>11 DEF Learned
<1> QED
  BY <1>2, <1>4, <1>5, <1>6 DEF Failing

\* What a sequence start adds.
LEMMA StartEffect ==
  ASSUME NEW f \in FoundType, NEW m \in Messages, m.kind = "audioStart", f.starts[m.id] = "none"
  PROVE  Analyzed(f, m).starts[m.id] = m.codec
<1>1. m.id \in TrackIDs
  BY MessageFields
<1>2. Analyzed(f, m) = [[f EXCEPT !.audio = Noticed(f.audio, m)] EXCEPT !.starts[m.id] = m.codec]
  BY DEF Analyzed, OnAudioStart
<1> QED
  BY <1>1, <1>2 DEF FoundType

\* Frames of a video track are of a track of the Writer, and no announcement has a time.
LEMMA OfATrack ==
  ASSUME list \in TrackLists, NEW m \in Messages, NEW g, Origin(m, g)
  PROVE  /\ m.kind = "videoFrames" => \E i \in DOMAIN list : StreamOf(i) = <<"video", m.id>>
         /\ m.kind # "videoEnd"
         /\ g.track = 0 => m.dts = 0
<1>1. CASE m = Metadata
  BY <1>1, MetadataFacts DEF Metadata, OutMessage
<1>2. CASE \E i \in DOMAIN list : ~Indescribable(list, i) /\ Describes(m, i)
  <2>1. PICK i \in DOMAIN list : Describes(m, i)
    BY <1>2
  <2>2. m.dts = 0 /\ m.kind \in {"video", "videoStart", "audio", "audioStart"}
    BY <2>1, AnnouncementFacts, ListFields DEF Describes
  <2> QED
    BY <2>2
<1>3. CASE /\ g.track \in DOMAIN list /\ ~Indescribable(list, g.track)
           /\ \E t \in Times : g \in FramesOn(list, g.track, t)
           /\ m = FrameMessage(list, g)
  <2>1. /\ m.id = TrackID(list, g.track)
        /\ KindOf(list[g.track]) = "video" => m.kind \in {"video", "videoFrames"}
        /\ KindOf(list[g.track]) = "audio" => m.kind \in {"audio", "audioFrames"}
    BY <1>3, FrameFacts
  <2>2. g.track # 0 /\ KindOf(list[g.track]) \in {"video", "audio"}
    BY <1>3, ListFields
  <2> QED
    BY <1>3, <2>1, <2>2 DEF StreamOf
<1> QED
  BY <1>1, <1>2, <1>3 DEF Origin

LEMMA LearnsMore ==
  ASSUME IdsFit, SendInv, NEW f \in FoundType, ~f.failed, NEW n \in 1..Total, Learned(f, n - 1),
         NEW h, h = Analyzed(f, Flow[n])
  PROVE  Learned(h, n)
<1> DEFINE m == Flow[n]
<1>1. /\ m \in Messages /\ Origin(m, sent[n]) /\ list \in TrackLists
      /\ n \in Nat /\ \A k \in 1..(n - 1) : k \in 1..Total /\ k # n /\ k \in 1..n
      /\ n \in 1..n /\ \A k \in 1..n : k \in 1..(n - 1) \/ k = n
  BY Flowing
<1>2. /\ \A id \in TrackIDs : Entered(f, h, m, id)
      /\ Timed(f, h, m)
  BY <1>1, AnalyzedEffect
<1>3. "nil" \notin Codecs /\ m.codec \in Codecs /\ m.id \in TrackIDs
  BY <1>1, Absent, MessageFields
<1>4. /\ m.kind = "videoFrames" => \E i \in DOMAIN list : StreamOf(i) = <<"video", m.id>>
      /\ m.kind # "videoEnd"
      /\ sent[n].track = 0 => m.dts = 0
  BY <1>1, OfATrack
<1> HIDE DEF m
<1>5. ASSUME NEW id \in TrackIDs, IsUp(h.video, id)
      PROVE  \E k \in 1..n : AnnouncesVideo(Flow[k]) /\ Flow[k].id = id
  <2>1. CASE h.video[id] = f.video[id]
    BY <1>1, <1>5, <2>1 DEF IsUp, Learned
  <2>2. CASE m.id = id /\ AnnouncesVideo(m)
    BY <1>1, <2>2 DEF m
  <2> QED
    BY <1>2, <1>3, <1>5, <2>1, <2>2 DEF Entered, IsUp
<1>6. ASSUME NEW id \in TrackIDs, h.starts[id] # "none"
      PROVE  \E k \in 1..n : Flow[k].kind = "audioStart" /\ Flow[k].id = id
  <2>1. CASE h.starts[id] = f.starts[id]
    BY <1>1, <1>6, <2>1 DEF Learned
  <2>2. CASE m.id = id /\ m.kind = "audioStart"
    BY <1>1, <2>2 DEF m
  <2> QED
    BY <1>2, <2>1, <2>2 DEF Entered
<1>7. ASSUME NEW id \in TrackIDs, h.video[id] = "nil"
      PROVE  \E i \in DOMAIN list : StreamOf(i) = <<"video", id>>
  <2>1. CASE h.video[id] = f.video[id]
    BY <1>7, <2>1 DEF Learned
  <2>2. CASE m.id = id /\ m.kind \in {"videoFrames", "videoEnd"}
    BY <1>4, <2>2
  <2> QED
    BY <1>2, <1>3, <1>7, <2>1, <2>2 DEF Entered
<1>8. ASSUME NEW id \in TrackIDs, h.audio[id] = "nil"
      PROVE  \E i \in DOMAIN list : StreamOf(i) = <<"audio", id>>
  <2>1. CASE h.audio[id] = f.audio[id]
    BY <1>8, <2>1 DEF Learned
  <2>2. CASE m.id = id /\ m.kind \in {"audioStart", "audioFrames", "audioEnd"}
    BY <1>1, <2>2, AudioAnnounced DEF AudioKinds
  <2> QED
    BY <1>2, <1>3, <1>8, <2>1, <2>2 DEF Entered
<1>9. ASSUME NEW k \in 1..n, Flow[k].kind = "audioStart"
      PROVE  h.starts[Flow[k].id] = Flow[k].codec
  <2>1. ASSUME m.kind = "audioStart" PROVE f.starts[m.id] = "none"
    <3> SUFFICES ASSUME f.starts[m.id] # "none" PROVE FALSE
      OBVIOUS
    <3>1. PICK l \in 1..(n - 1) : Flow[l].kind = "audioStart" /\ Flow[l].id = m.id
      BY <1>3 DEF Learned
    <3>2. l \in 1..Total /\ l # n /\ Origin(Flow[l], sent[l])
      BY <1>1, Flowing
    <3>3. PICK i \in DOMAIN list : Describes(m, i) /\ StreamOf(i) = <<"audio", m.id>>
      BY <1>1, <2>1, AudioAnnounced DEF AudioKinds
    <3>4. PICK j \in DOMAIN list : Describes(Flow[l], j) /\ StreamOf(j) = <<"audio", m.id>>
      BY <1>1, <3>1, <3>2, AudioAnnounced DEF AudioKinds
    <3> QED
      BY <3>2, <3>3, <3>4, AnnouncedOnce DEF m
  <2>2. CASE k = n
    BY <1>1, <1>9, <2>1, <2>2, StartEffect DEF m
  <2>3. CASE k \in 1..(n - 1)
    <3>1. f.starts[Flow[k].id] = Flow[k].codec
      BY <1>9, <2>3 DEF Learned
    <3>2. Flow[k].id \in TrackIDs /\ Flow[k].codec \in Codecs
      BY <1>1, <2>3, Flowing, MessageFields
    <3>3. f.starts[Flow[k].id] # "none"
      BY <3>1, <3>2 DEF Codecs, VideoCodecs, AudioCodecs
    <3> QED
      BY <1>2, <2>1, <3>1, <3>2, <3>3 DEF Entered
  <2> QED
    BY <1>1, <2>2, <2>3
<1>10. Silence(n) => h.start = 0 /\ h.cur = 0
  <2> SUFFICES ASSUME Silence(n) PROVE h.start = 0 /\ h.cur = 0
    OBVIOUS
  <2>1. f.start = 0 /\ f.cur = 0 /\ m.dts = 0
    BY <1>1, <1>4 DEF Silence, Learned
  <2> QED
    BY <1>2, <2>1 DEF Timed
<1> QED
  BY <1>5, <1>6, <1>7, <1>8, <1>9, <1>10 DEF Learned

\* Once a frame has come, every track that is announced with its parameters is up,
\* and every other that has frames.
FoundBy(i, top) ==
  ~Unconfigured(list, i) /\ (FoundInFrames(i) => FramesOf(i, top) # {})

LEMMA AllUp ==
  ASSUME IdsFit, SendInv, NEW top \in 0..Total, ~Silence(top), NEW f,
         \A k \in 1..top : Up(f, Flow[k]), NEW i \in DOMAIN list, FoundBy(i, top)
  PROVE  /\ KindOf(list[i]) = "video" => IsUp(f.video, TrackID(list, i))
         /\ KindOf(list[i]) = "audio" => IsUp(f.audio, TrackID(list, i))
<1>1. PICK n \in 1..top : sent[n].track # 0
  BY DEF Silence
<1>2. /\ n \in 1..Total /\ list \in TrackLists /\ Total \in Nat
      /\ \A k \in 1..(n - 1) : k \in 1..top
      /\ \A k \in 1..top : k \in 1..Total
  <2>1. Total \in Nat /\ list \in TrackLists
    BY DEF SendInv, FlowTypes, Total, WriterInv
  <2> QED
    BY <2>1
<1>3. Described(n - 1)
  BY <1>1, <1>2, Flowing
<1>4. KindOf(list[i]) \in {"video", "audio"} /\ i # 0
      /\ (KindOf(list[i]) = "video" <=> IsVideo(list[i]))
  BY <1>2, ListFields DEF KindOf
<1>5. CASE ~FoundInFrames(i)
  <2>1. KindOf(list[i]) = "video" \/ (list[i].codec = "aac" /\ TrackID(list, i) = 0)
    BY <1>4, <1>5 DEF FoundInFrames
  <2>2. PICK k \in 1..(n - 1) : Describes(Flow[k], i)
    BY <1>2, <1>3, <2>1, AnnouncedWhen DEF Described
  <2> DEFINE m == Flow[k]
  <2>3. Up(f, m)
    BY <1>2
  <2>4. /\ m.id = TrackID(list, i) /\ m.codec = list[i].codec
        /\ ~Unconfigured(list, i) => m.packet = "config"
        /\ KindOf(list[i]) = "video" => m.kind \in {"video", "videoStart"}
        /\ KindOf(list[i]) = "audio" =>
             m.kind = IF m.codec = "aac" /\ m.id = 0 THEN "audio" ELSE "audioStart"
    BY <1>2, <2>2, AnnouncementFacts DEF Describes
  <2> HIDE DEF m
  <2>5. CASE KindOf(list[i]) = "video"
    BY <2>3, <2>4, <2>5 DEF Up, AnnouncesVideo, FoundBy
  <2>6. CASE KindOf(list[i]) = "audio"
    BY <2>1, <2>3, <2>4, <2>6 DEF Up, AnnouncesAudio, FoundBy
  <2> QED
    BY <1>4, <2>5, <2>6
<1>6. CASE FoundInFrames(i)
  <2>1. PICK k \in 1..top : sent[k].track = i
    BY <1>6 DEF FoundBy, FramesOf
  <2> DEFINE m == Flow[k]
             g == sent[k]
  <2>2. Up(f, m) /\ Origin(m, g)
    BY <1>2, Flowing
  <2>3. /\ ~Indescribable(list, i)
        /\ \E t \in Times : g \in FramesOn(list, i, t)
        /\ m = FrameMessage(list, g)
    BY <1>4, <2>1, <2>2 DEF Origin
  <2> HIDE DEF m, g
  <2>4. /\ m.id = TrackID(list, i) /\ m.codec = list[i].codec
        /\ m.codec = "aac" => (m.kind = "audio" <=> m.id = 0)
        /\ KindOf(list[i]) = "audio" => m.kind \in {"audio", "audioFrames"}
    BY <1>2, <2>3, FrameFacts
  <2>5. KindOf(list[i]) = "audio" /\ ~(list[i].codec = "aac" /\ TrackID(list, i) = 0)
    BY <1>4, <1>6 DEF FoundInFrames
  <2> QED
    BY <2>2, <2>4, <2>5 DEF Up, AnnouncesAudio
<1> QED
  BY <1>5, <1>6

\* The tracks are found, unless one that only frames make known had none.
LEMMA FoundUnlessSilent ==
  ASSUME IdsFit, SendInv, NEW top \in 0..Total, ~Silence(top), NEW f \in FoundType,
         \A k \in 1..top : Up(f, Flow[k]), Learned(f, top), \A i \in DOMAIN list : FoundBy(i, top)
  PROVE  TracksFound(f)
<1>1. "nil" \notin Codecs /\ list \in TrackLists
  BY Absent DEF SendInv, WriterInv
<1>2. \A i \in DOMAIN list :
        /\ KindOf(list[i]) \in {"video", "audio"} /\ TrackID(list, i) \in TrackIDs /\ i # 0
        /\ KindOf(list[i]) = "video" => IsUp(f.video, TrackID(list, i))
        /\ KindOf(list[i]) = "audio" => IsUp(f.audio, TrackID(list, i))
  BY <1>1, AllUp, ListFields
<1>3. \E id \in TrackIDs : IsUp(f.video, id) \/ IsUp(f.audio, id)
  <2>1. PICK n \in 1..top : sent[n].track # 0
    BY DEF Silence
  <2>2. n \in 1..Total
    <3>1. Total \in Nat
      BY DEF SendInv, FlowTypes, Total
    <3> QED
      BY <3>1
  <2>3. sent[n].track \in DOMAIN list
    BY <2>1, <2>2, Flowing DEF Origin
  <2> QED
    BY <1>2, <2>3
<1>4. ASSUME NEW id \in TrackIDs PROVE f.video[id] # "nil"
  <2> SUFFICES ASSUME f.video[id] = "nil" PROVE FALSE
    OBVIOUS
  <2>1. PICK i \in DOMAIN list : StreamOf(i) = <<"video", id>>
    BY DEF Learned
  <2>2. KindOf(list[i]) = "video" /\ TrackID(list, i) = id
    BY <2>1 DEF StreamOf
  <2> QED
    BY <1>1, <1>2, <2>2 DEF IsUp
<1>5. ASSUME NEW id \in TrackIDs PROVE f.audio[id] # "nil"
  <2> SUFFICES ASSUME f.audio[id] = "nil" PROVE FALSE
    OBVIOUS
  <2>1. PICK i \in DOMAIN list : StreamOf(i) = <<"audio", id>>
    BY DEF Learned
  <2>2. KindOf(list[i]) = "audio" /\ TrackID(list, i) = id
    BY <2>1 DEF StreamOf
  <2> QED
    BY <1>1, <1>2, <2>2 DEF IsUp
<1> QED
  BY <1>3, <1>4, <1>5 DEF TracksFound

(***************************************************************************)
(* The invariant of the analysis, on top of PubInv.                        *)
(***************************************************************************)
LearnInv ==
  /\ phase = "analyzing" => ~found.failed /\ Learned(found, recorded)
  /\ phase \in {"ready", "notSetUp"} => ~Silence(recorded)

\* One turn of the analysis on a message of a Writer.
LEMMA AnalyzeLearns ==
  ASSUME IdsFit, PubInv, LearnInv, Deliver, Analyze(Head(wire)), ~RecordFull(entries),
         NEW h, h = Analyzed(found, Head(wire))
  PROVE  /\ N \in 1..Total /\ recorded' = N /\ found' = h
         /\ Total' = Total /\ Flow' = Flow /\ UNCHANGED <<list, sent>>
         /\ h \in FoundType /\ ~h.failed /\ Learned(h, N)
         /\ \A k \in 1..N : Up(h, Flow[k])
         /\ h.cur - h.start >= AnalyzePeriod => ~Silence(N)
         /\ phase' = IF h.cur - h.start >= AnalyzePeriod
                     THEN IF TracksFound(h) THEN "ready" ELSE "failed" ELSE "analyzing"
<1> DEFINE m == Head(wire)
           r == Len(received)
<1>1. /\ wire # <<>> /\ received' = Append(received, m) /\ wire' = Tail(wire)
      /\ UNCHANGED <<list, sent>> /\ phase = "analyzing"
  BY DEF Deliver, Analyze, writerVars
<1>2. /\ m \in Messages /\ Total' = Total /\ Flow' = Flow /\ Total \in Nat /\ r \in Nat
      /\ r + 1 \in 1..Total /\ Flow[r + 1] = m
  BY <1>1, DeliverFlow DEF PubInv, SendInv
<1>3. recorded' = N /\ found' = h
  BY DEF Analyze
<1>4. /\ recorded = r /\ found \in FoundType /\ ~found.failed /\ Learned(found, r) /\ SendInv
      /\ \A k \in 1..r : Up(found, received[k])
  BY <1>1 DEF PubInv, Inv, Types, AnalyzedAll, LearnInv
<1>5. N = r + 1 /\ N - 1 = r /\ N \in 1..Total
  BY <1>2 DEF N
<1>6. Learned(found, N - 1) /\ Flow[N] = m
  BY <1>2, <1>4, <1>5
<1> HIDE DEF m, r
<1>7. ~h.failed /\ Learned(h, N)
  BY <1>4, <1>5, <1>6, NoFailure, LearnsMore DEF m
<1>8. h \in FoundType /\ StaysUp(found, h) /\ Up(h, m)
  BY <1>2, <1>4, <1>7, AnalyzedKeeps DEF m
<1>9. ASSUME NEW k \in 1..N PROVE Up(h, Flow[k])
  <2>1. CASE k = N
    BY <1>6, <1>8, <2>1
  <2>2. CASE k \in 1..r
    <3>1. received[k] = Flow[k] /\ received[k] \in Messages
      BY <1>4, <2>2, ReceivedFlow DEF SendInv, FlowTypes, r
    <3>2. Up(found, Flow[k]) /\ Flow[k].id \in TrackIDs
      BY <1>4, <2>2, <3>1, MessageFields
    <3> QED
      BY <1>8, <3>2 DEF Up, StaysUp
  <2> QED
    BY <1>2, <1>5, <2>1, <2>2
<1>10. ASSUME h.cur - h.start >= AnalyzePeriod PROVE ~Silence(N)
  <2> SUFFICES ASSUME Silence(N) PROVE FALSE
    OBVIOUS
  <2>1. h.cur = 0 /\ h.start = 0
    BY <1>7 DEF Learned
  <2> QED
    BY <1>10, <2>1, TrackReaderAssumption
<1>11. phase' = IF h.cur - h.start >= AnalyzePeriod
                THEN IF TracksFound(h) THEN "ready" ELSE "failed" ELSE "analyzing"
  BY <1>7 DEF Analyze
<1> QED
  BY <1>1, <1>2, <1>3, <1>5, <1>7, <1>8, <1>9, <1>10, <1>11

\* What was sent and what was received stays.
LEMMA PutKeepsSent ==
  ASSUME SendInv, NEW q \in Seq(Messages), NEW f \in FrameType, Put(q, f)
  PROVE  \A k \in 1..Len(sent) : sent'[k] = sent[k]
<1>1. sent' = sent \o [i \in DOMAIN q |-> f] /\ sent \in Seq(FrameType)
  BY DEF Put, SendInv, FlowTypes
<1>2. [i \in DOMAIN q |-> f] \in Seq(FrameType)
  OBVIOUS
<1> QED
  BY <1>1, <1>2

LEMMA SentStays ==
  ASSUME SendInv, [PublishNext]_publishVars
  PROVE  list' = list /\ \A k \in 1..Len(sent) : sent'[k] = sent[k]
<1>1. list' = list
  BY DEF PublishNext, Announce, AnnounceTurn, WriteFails, WriterCloses, Drain, WriteFrame, Lose,
         Reading, Deliver, Replay, ReaderEnds, ReaderCloses, writerVars, publishVars
<1>2. CASE sent' = sent
  BY <1>1, <1>2
<1>3. CASE Announce
  <2>1. PICK i \in todo : AnnounceTurn(i)
    BY <1>3 DEF Announce
  <2>2. CASE i = 0
    <3>1. Put(<<Metadata>>, NoFrame)
      BY <2>1, <2>2 DEF AnnounceTurn
    <3>2. <<Metadata>> \in Seq(Messages)
      BY MetadataFacts
    <3> QED
      BY <1>1, <3>1, <3>2, MetadataFacts, PutKeepsSent
  <2>3. CASE i # 0 /\ ~Indescribable(list, i)
    <3>1. Put(Announcement(list, i), NoFrame)
      BY <2>1, <2>3 DEF AnnounceTurn
    <3>2. Announcement(list, i) \in Seq(Messages)
      <4>1. list \in TrackLists /\ i \in DOMAIN list
        BY <2>3 DEF SendInv, WriterInv
      <4>2. \A m \in Range(Announcement(list, i)) : m \in Messages
        BY <4>1, AnnouncementFacts
      <4>3. CASE Announcement(list, i) = <<>>
        BY <4>3
      <4>4. ASSUME NEW m, Announcement(list, i) = <<m>>, m \in Messages
            PROVE  Announcement(list, i) \in Seq(Messages)
        BY <4>4
      <4> QED
        BY <4>1, <4>2, <4>3, <4>4, AnnouncementShape
    <3> QED
      BY <1>1, <3>1, <3>2, MetadataFacts, PutKeepsSent
  <2>4. CASE i # 0 /\ Indescribable(list, i)
    BY <1>2, <2>1, <2>4 DEF AnnounceTurn
  <2> QED
    BY <2>2, <2>3, <2>4
<1>4. CASE \E frame \in Frames : WriteFrame(frame)
  <2>1. PICK frame \in Frames : WriteFrame(frame)
    BY <1>4
  <2>2. CASE RefusedFrame(list, frame)
    BY <1>2, <2>1, <2>2 DEF WriteFrame
  <2>3. CASE ~RefusedFrame(list, frame)
    <3>1. PICK i \in DOMAIN list, step \in Steps : frame \in FramesOn(list, i, clock + step)
      BY DEF Frames
    <3>2. /\ list \in TrackLists /\ ~Indescribable(list, i) /\ frame.dts \in Times
          /\ frame.dts = clock + step /\ Put(<<FrameMessage(list, frame)>>, frame)
      <4>1. /\ writer = "writing" /\ conn = "open" /\ frame.dts \in Times
            /\ Put(<<FrameMessage(list, frame)>>, frame)
        BY <2>1, <2>3 DEF WriteFrame
      <4>2. list \in TrackLists /\ todo = {}
        BY <4>1 DEF SendInv, WriterInv
      <4>3. ~Indescribable(list, i)
        BY <4>1, <4>2 DEF SendInv, WriterInv
      <4>4. frame.dts = clock + step
        BY <3>1 DEF FramesOn
      <4> QED
        BY <4>1, <4>2, <4>3, <4>4
    <3>3. FrameMessage(list, frame) \in Messages /\ frame \in FrameType
      BY <3>1, <3>2, FrameFacts
    <3>4. <<FrameMessage(list, frame)>> \in Seq(Messages)
      BY <3>3
    <3> QED
      BY <1>1, <3>2, <3>3, <3>4, PutKeepsSent
  <2> QED
    BY <2>2, <2>3
<1>5. CASE \/ WriteFails \/ WriterCloses \/ Drain \/ Lose \/ ReaderCloses \/ UNCHANGED publishVars
           \/ Deliver \/ Replay \/ ReaderEnds
  <2>1. sent' = sent
    BY <1>5 DEF WriteFails, WriterCloses, Drain, Lose, Reading, Deliver, Replay, ReaderEnds,
                ReaderCloses, writerVars, publishVars
  <2> QED
    BY <1>2, <2>1
<1> QED
  BY <1>3, <1>4, <1>5 DEF PublishNext, Reading

\* The steps of the Reader.
LEMMA ReaderCases ==
  ASSUME [PublishNext]_publishVars
  PROVE  \/ UNCHANGED vars
         \/ Deliver /\ Analyze(Head(wire))
         \/ (Deliver /\ ReadNew(Head(wire))) \/ ReadRecorded
         \/ ConnEnds
BY DEF PublishNext, Announce, AnnounceTurn, WriteFails, WriterCloses, Drain, WriteFrame, Lose,
       Reading, Deliver, Replay, ReaderEnds, ReaderCloses, readerVars, publishVars

LEMMA LearnKept ==
  ASSUME IdsFit, PubInv, LearnInv, [PublishNext]_publishVars
  PROVE  LearnInv'
<1>1. /\ list' = list /\ \A k \in 1..Len(sent) : sent'[k] = sent[k]
      /\ recorded \in 0..Len(received) /\ Len(received) \in Nat
      /\ \A k \in 1..recorded : k \in 1..Len(sent) /\ k \in 1..Len(received)
  <2>1. list' = list /\ \A k \in 1..Len(sent) : sent'[k] = sent[k]
    BY SentStays DEF PubInv
  <2>2. /\ recorded \in 0..Len(received) /\ Len(received) \in Nat /\ Len(wire) \in Nat
        /\ Len(sent) \in Nat /\ Total <= Len(sent)
    BY DEF PubInv, Inv, Types, SendInv, FlowTypes, WriterInv
  <2>3. \A k \in 1..recorded : k \in 1..Len(sent) /\ k \in 1..Len(received)
    BY <2>2 DEF Total
  <2> QED
    BY <2>1, <2>2, <2>3
<1>2. ASSUME recorded' = recorded, ~Silence(recorded) PROVE ~Silence(recorded)'
  BY <1>1, <1>2 DEF Silence
<1>3. CASE UNCHANGED vars
  <2>1. UNCHANGED <<phase, received, recorded, found>>
    BY <1>3 DEF vars
  <2>2. SendInv /\ SendInv'
    BY SendKept DEF PubInv
  <2>3. \A k \in 1..recorded : Flow'[k] = Flow[k] /\ sent'[k] = sent[k]
    <3>1. \A k \in 1..Len(received) : received[k] = Flow[k]
      BY <2>2, ReceivedFlow DEF SendInv
    <3>2. \A k \in 1..Len(received') : received'[k] = Flow'[k]
      <4>1. Len(received') \in Nat /\ Len(wire') \in Nat
        BY <2>2 DEF SendInv, FlowTypes
      <4> QED
        BY <4>1 DEF Total, Flow
    <3> QED
      BY <1>1, <2>1, <3>1, <3>2
  <2>4. \A i : StreamOf(i)' = StreamOf(i)
    BY <1>1 DEF StreamOf
  <2>5. Learned(found, recorded) => Learned(found, recorded)'
    BY <1>1, <2>1, <2>3, <2>4 DEF Learned, Silence
  <2> QED
    BY <1>2, <2>1, <2>5 DEF LearnInv
<1>4. CASE Deliver /\ Analyze(Head(wire))
  <2>1. CASE RecordFull(entries)
    <3>1. phase' = "failed"
      BY <1>4, <2>1 DEF Analyze
    <3> QED
      BY <3>1 DEF LearnInv
  <2>2. CASE ~RecordFull(entries)
    <3> DEFINE h == Analyzed(found, Head(wire))
    <3>1. /\ recorded' = N /\ found' = h
          /\ Total' = Total /\ Flow' = Flow /\ UNCHANGED <<list, sent>>
          /\ ~h.failed /\ Learned(h, N)
          /\ h.cur - h.start >= AnalyzePeriod => ~Silence(N)
          /\ phase' = IF h.cur - h.start >= AnalyzePeriod
                      THEN IF TracksFound(h) THEN "ready" ELSE "failed" ELSE "analyzing"
      BY <1>4, <2>2, AnalyzeLearns
    <3> HIDE DEF h
    <3>2. \A i : StreamOf(i)' = StreamOf(i)
      BY <3>1 DEF StreamOf
    <3>3. Learned(found, recorded)' /\ (~Silence(N) => ~Silence(recorded)')
      BY <3>1, <3>2 DEF Learned, Silence
    <3> QED
      BY <3>1, <3>3 DEF LearnInv
  <2> QED
    BY <2>1, <2>2
<1>5. CASE (Deliver /\ ReadNew(Head(wire))) \/ ReadRecorded
  <2>1. phase = "ready" /\ recorded' = recorded
    BY <1>5 DEF ReadNew, ReadRecorded
  <2>2. phase' # "analyzing"
    <3>1. Deliver => Head(wire) \in Messages
      BY Delivered
    <3> QED
      BY <1>5, <3>1, ReadRecordedKeeps, ReadNewKeeps DEF PubInv
  <2> QED
    BY <1>2, <2>1, <2>2 DEF LearnInv
<1>6. CASE ConnEnds
  BY <1>6 DEF ConnEnds, LearnInv
<1> QED
  BY <1>3, <1>4, <1>5, <1>6, ReaderCases

LEMMA InitLearn == PublishInit => LearnInv
<1> SUFFICES ASSUME PublishInit PROVE LearnInv
  OBVIOUS
<1>1. \A k : k \notin 1..0
  OBVIOUS
<1>2. /\ found = [video |-> [i \in TrackIDs |-> "absent"], audio |-> [i \in TrackIDs |-> "absent"],
                  starts |-> [i \in TrackIDs |-> "none"], first |-> FALSE, start |-> 0, cur |-> 0,
                  failed |-> FALSE]
      /\ phase = "analyzing" /\ recorded = 0
  BY DEF PublishInit, Init
<1>3. Learned(found, recorded)
  BY <1>1, <1>2, Absent DEF Learned, IsUp
<1> QED
  BY <1>2, <1>3 DEF LearnInv

LEMMA LearnAlways ==
  ASSUME IdsFit
  PROVE  PublishSpec => [](PubInv /\ LearnInv)
<1>1. PubInv /\ LearnInv /\ [PublishNext]_publishVars => LearnInv'
  BY LearnKept
<1> QED
  BY PubAlways, InitLearn, <1>1, PTL DEF PublishSpec

(***************************************************************************)
(* What a Reader refuses.                                                  *)
(***************************************************************************)
WhyRefused == phase = "notSetUp" => \E i \in DOMAIN list : Silent(i) \/ Unconfigured(list, i)

\* A message of a track is refused if the track is not up, and then it is one that
\* had no frames, or no configuration.
LEMMA RefusedSilent ==
  ASSUME IdsFit
  PROVE  PubInv /\ LearnInv => WhyRefused
<1> SUFFICES ASSUME PubInv, LearnInv, phase = "notSetUp"
             PROVE  \E i \in DOMAIN list : Silent(i) \/ Unconfigured(list, i)
  BY DEF WhyRefused
<1> DEFINE n == Last(taken)
           m == received[n]
<1>1. /\ n \in 1..Len(received) /\ m.kind \in {"video", "audio", "videoFrames", "audioFrames"}
      /\ ~IsUp(MapOf(m), m.id)
  BY DEF PubInv, Inv, Refusal, LegacyKinds, FrameKinds
<1>2. SendInv /\ FlowTypes /\ Len(received) \in Nat /\ recorded \in 0..Len(received) /\ ~Silence(recorded)
  BY DEF PubInv, SendInv, Inv, Types, LearnInv
<1>3. n \in 1..Total /\ m = Flow[n]
  BY <1>1, <1>2, ReceivedFlow
<1>4. Origin(m, sent[n]) /\ list \in TrackLists
  BY <1>2, <1>3, Flowing
<1>5. recorded \in 0..Total /\ \A k \in 1..recorded : Up(found, Flow[k])
  <2>1. \A k \in 1..recorded : Up(found, received[k])
    BY DEF PubInv, Inv, AnalyzedAll
  <2>2. Len(wire) \in Nat
    BY <1>2 DEF FlowTypes
  <2>3. \A k \in 1..recorded : k \in 1..Len(received)
    BY <1>2
  <2>4. recorded \in 0..Total
    BY <1>2, <2>2 DEF Total
  <2> QED
    BY <1>2, <2>1, <2>3, <2>4, ReceivedFlow
<1> HIDE DEF m, n
<1>6. \E i \in DOMAIN list :
        /\ m.id = TrackID(list, i)
        /\ m.kind \in {"video", "videoFrames"} => KindOf(list[i]) = "video"
        /\ m.kind \in {"audio", "audioFrames"} => KindOf(list[i]) = "audio"
  <2>1. CASE m = Metadata
    BY <1>1, <2>1, MetadataFacts
  <2>2. CASE \E i \in DOMAIN list : ~Indescribable(list, i) /\ Describes(m, i)
    <3>1. PICK i \in DOMAIN list : Describes(m, i)
      BY <2>2
    <3>2. /\ m.id = TrackID(list, i) /\ KindOf(list[i]) \in {"video", "audio"}
          /\ KindOf(list[i]) = "video" => m.kind \in {"video", "videoStart"}
          /\ KindOf(list[i]) = "audio" => m.kind \in {"audio", "audioStart"}
      BY <1>4, <3>1, AnnouncementFacts, ListFields DEF Describes
    <3> QED
      BY <3>2
  <2>3. CASE /\ sent[n].track \in DOMAIN list /\ ~Indescribable(list, sent[n].track)
             /\ \E t \in Times : sent[n] \in FramesOn(list, sent[n].track, t)
             /\ m = FrameMessage(list, sent[n])
    <3> DEFINE i == sent[n].track
    <3>1. /\ m.id = TrackID(list, i) /\ KindOf(list[i]) \in {"video", "audio"}
          /\ KindOf(list[i]) = "video" => m.kind \in {"video", "videoFrames"}
          /\ KindOf(list[i]) = "audio" => m.kind \in {"audio", "audioFrames"}
      BY <1>4, <2>3, FrameFacts, ListFields
    <3> QED
      BY <2>3, <3>1
  <2> QED
    BY <1>4, <2>1, <2>2, <2>3 DEF Origin
<1>7. PICK i \in DOMAIN list :
        /\ m.id = TrackID(list, i)
        /\ m.kind \in {"video", "videoFrames"} => KindOf(list[i]) = "video"
        /\ m.kind \in {"audio", "audioFrames"} => KindOf(list[i]) = "audio"
  BY <1>6
<1>8. ~FoundBy(i, recorded)
  <2> SUFFICES ASSUME FoundBy(i, recorded) PROVE FALSE
    OBVIOUS
  <2>1. /\ KindOf(list[i]) = "video" => IsUp(found.video, TrackID(list, i))
        /\ KindOf(list[i]) = "audio" => IsUp(found.audio, TrackID(list, i))
    BY <1>2, <1>5, AllUp
  <2> QED
    BY <1>1, <1>7, <2>1 DEF MapOf
<1> QED
  BY <1>8 DEF FoundBy, Silent

\* What a Reader gives to a callback is of a track of the Writer.
LEMMA FromTrack ==
  ASSUME list \in TrackLists, NEW m, NEW g, Origin(m, g), m.kind \in LegacyKinds \cup FrameKinds
  PROVE  \E i \in DOMAIN list :
           /\ StreamOf(i) = StreamOfMessage(m) /\ m.codec = list[i].codec /\ m.packet # "bad"
           /\ m.packet \in {"sei", "au"} =>
                /\ g.track = i /\ Time(m) = <<g.pts, g.dts>>
                /\ m.packet = "sei" => g.payload = "sei"
<1>1. m.kind \in {"video", "audio", "videoFrames", "audioFrames"}
  BY DEF LegacyKinds, FrameKinds
<1>2. m # Metadata
  BY <1>1, MetadataFacts
<1>3. CASE \E i \in DOMAIN list : ~Indescribable(list, i) /\ Describes(m, i)
  <2>1. PICK i \in DOMAIN list : Describes(m, i)
    BY <1>3
  <2>2. /\ m.id = TrackID(list, i) /\ m.codec = list[i].codec
        /\ m.packet \in {"config", "bare"} /\ KindOf(list[i]) \in {"video", "audio"}
        /\ KindOf(list[i]) = "video" => m.kind \in {"video", "videoStart"}
        /\ KindOf(list[i]) = "audio" => m.kind \in {"audio", "audioStart"}
    BY <2>1, AnnouncementFacts, ListFields DEF Describes
  <2>3. StreamOf(i) = StreamOfMessage(m)
    BY <1>1, <2>2 DEF StreamOf, StreamOfMessage
  <2> QED
    BY <2>2, <2>3
<1>4. CASE /\ g.track \in DOMAIN list /\ ~Indescribable(list, g.track)
           /\ \E t \in Times : g \in FramesOn(list, g.track, t)
           /\ m = FrameMessage(list, g)
  <2> DEFINE i == g.track
  <2>1. /\ m.id = TrackID(list, i) /\ m.codec = list[i].codec /\ KindOf(list[i]) \in {"video", "audio"}
        /\ m.packet \in {"au", "sei"} /\ Time(m) = <<g.pts, g.dts>>
        /\ m.packet = "sei" => g.payload = "sei"
        /\ KindOf(list[i]) = "video" => m.kind \in {"video", "videoFrames"}
        /\ KindOf(list[i]) = "audio" => m.kind \in {"audio", "audioFrames"}
    BY <1>4, FrameFacts, ListFields
  <2>2. StreamOf(i) = StreamOfMessage(m)
    BY <2>1 DEF StreamOf, StreamOfMessage
  <2> QED
    BY <1>4, <2>1, <2>2
<1> QED
  BY <1>2, <1>3, <1>4 DEF Origin

\* What is held for the instant of message m fills an access unit.
NoRoom(tr, m) == MaxUnits # 0 => Len(tr.held.of) >= MaxUnits /\ tr.held.time = Time(m)

\* What is held (h) after message n was handled, from what was held before (q).
HeldThen(h, q, m, n) ==
  \/ h \in {q, <<>>}
  \/ m.packet = "sei" /\ h \in {Append(q, n), <<n>>}

\* Why a callback fails, and what it holds after.
LEMMA CallbackFails ==
  ASSUME NEW codec, NEW tr \in TrackType, NEW m, NEW n \in Nat,
         NEW res, res = Callback(codec, tr, m, n)
  PROVE  /\ res.err = "undecodable" => m.packet = "bad"
         /\ res.err = "panic" => codec = "h265" /\ m.codec # "h265"
         /\ res.err = "limit" => m.packet \in {"sei", "au"} /\ NoRoom(tr, m)
         /\ HeldThen(res.tr.held.of, tr.held.of, m, n)
<1> SUFFICES /\ res.err = "undecodable" => m.packet = "bad"
             /\ res.err = "panic" => codec = "h265" /\ m.codec # "h265"
             /\ res.err = "limit" => m.packet \in {"sei", "au"} /\ NoRoom(tr, m)
             /\ \/ res.tr.held.of \in {tr.held.of, <<>>}
                \/ m.packet = "sei" /\ res.tr.held.of \in {Append(tr.held.of, n), <<n>>}
  BY DEF HeldThen
<1>1. /\ tr.held.of \in Seq(Nat) /\ Len(tr.held.of) \in Nat /\ MaxUnits \in Nat
      /\ Len(<<>>) = 0 /\ (tr.held.of = <<>> <=> Len(tr.held.of) = 0) /\ Append(<<>>, n) = <<n>>
  BY TrackReaderAssumption DEF TrackType, Units
<1>2. \A u : /\ Give(tr, u).held = tr.held
             /\ Give(tr, u) \in [out : {Append(tr.out, u)}, held : Units]
             /\ [Give(tr, u) EXCEPT !.held = NoUnit].held = NoUnit
  BY NoUnitFits DEF Give, TrackType
<1>3. FlushPending(tr) \in [out : {tr.out, Append(tr.out, tr.held)}, held : Units]
      /\ FlushPending(tr).held.of = <<>>
  <2>1. tr \in [out : {tr.out}, held : Units]
    BY DEF TrackType
  <2> QED
    BY <1>2, <2>1, NoUnitFits DEF FlushPending
<1>4. \A u : Give(FlushPending(tr), u).held.of = <<>>
  BY <1>3 DEF Give
<1>5. CASE codec = "h264" /\ m.packet = "sei"
  <2>1. res = Hold(tr, m, n)
    BY <1>5 DEF Callback, OnDataH264
  <2> DEFINE flush == tr.held.of # <<>> /\ tr.held.time # Time(m)
             t == IF flush THEN FlushPending(tr) ELSE tr
  <2>2. /\ res = IF Len(t.held.of) + 1 > MaxUnits
                 THEN Refused(t)
                 ELSE Done([t EXCEPT !.held = Unit(Time(m), Append(@.of, n))])
    BY <2>1 DEF Hold
  <2>3. /\ t.held.of = tr.held.of \/ t.held.of = <<>> 
        /\ [t EXCEPT !.held = Unit(Time(m), Append(@.of, n))].held.of = Append(t.held.of, n)
        /\ t.held.of # <<>> => t.held.of = tr.held.of /\ tr.held.time = Time(m)
    <3>1. CASE flush
      BY <1>3, <3>1 DEF Unit
    <3>2. CASE ~flush
      BY <3>2 DEF Unit, TrackType
    <3> QED
      BY <3>1, <3>2
  <2> HIDE DEF t
  <2>4. CASE Len(t.held.of) + 1 > MaxUnits
    <3>1. res.tr = t /\ res.err = "limit"
      BY <2>2, <2>4 DEF Refused
    <3>2. MaxUnits # 0 => t.held.of # <<>>
      BY <1>1, <2>4
    <3>3. MaxUnits # 0 => Len(tr.held.of) >= MaxUnits
      BY <1>1, <2>3, <2>4, <3>2
    <3> QED
      BY <1>5, <2>3, <3>1, <3>2, <3>3 DEF NoRoom
  <2>5. CASE ~(Len(t.held.of) + 1 > MaxUnits)
    <3>1. res.tr.held.of = Append(t.held.of, n) /\ res.err = "none"
      BY <2>2, <2>3, <2>5 DEF Done
    <3> QED
      BY <1>1, <1>5, <2>3, <3>1
  <2> QED
    BY <2>4, <2>5
<1>6. CASE codec = "h264" /\ m.packet = "au"
  <2>1. res = Join(tr, m, n)
    BY <1>6 DEF Callback, OnDataH264
  <2>2. CASE tr.held.of # <<>> /\ tr.held.time = Time(m)
    <3>1. CASE Len(tr.held.of) + 1 > MaxUnits
      <4>1. res.tr = tr /\ res.err = "limit"
        BY <2>1, <2>2, <3>1 DEF Join, Refused
      <4>2. Len(tr.held.of) >= MaxUnits
        BY <1>1, <3>1
      <4> QED
        BY <1>6, <2>2, <4>1, <4>2 DEF NoRoom
    <3>2. CASE ~(Len(tr.held.of) + 1 > MaxUnits)
      <4>1. res.tr.held = NoUnit /\ res.err = "none"
        BY <1>2, <2>1, <2>2, <3>2 DEF Join, Done
      <4> QED
        BY <4>1, NoUnitFits
    <3> QED
      BY <3>1, <3>2
  <2>3. CASE ~(tr.held.of # <<>> /\ tr.held.time = Time(m))
    <3>1. res.tr.held.of = <<>> /\ res.err = "none"
      BY <1>4, <2>1, <2>3 DEF Join, Done
    <3> QED
      BY <3>1
  <2> QED
    BY <2>2, <2>3
<1>7. CASE codec = "h264" /\ m.packet \notin {"sei", "au"}
  <2>1. /\ res.tr.held.of \in {tr.held.of, <<>>} /\ res.err \in {"none", "undecodable"}
        /\ res.err = "undecodable" => m.packet = "bad"
    <3>1. res = OnDataH264(tr, m, n)
      BY <1>7 DEF Callback
    <3> QED
      BY <1>3, <1>4, <1>7, <3>1 DEF OnDataH264, Done, Undecodable
  <2> QED
    BY <2>1
<1>8. CASE codec # "h264"
  <2>1. /\ res.tr.held.of = tr.held.of /\ res.err \in {"none", "undecodable", "panic"}
        /\ res.err = "undecodable" => m.packet = "bad"
        /\ res.err = "panic" => codec = "h265" /\ m.codec # "h265"
    <3>1. CASE codec = "h265"
      BY <1>2, <3>1 DEF Callback, OnDataH265, Done, Undecodable
    <3>2. CASE codec = "av1"
      BY <1>2, <3>2 DEF Callback, OnDataAV1, OnDataFrames, Done, Undecodable
    <3>3. CASE codec \in {"g711", "lpcm"}
      BY <1>2, <3>3 DEF Callback, OnDataSamples, Done
    <3>4. CASE codec \in {"aac", "mp3"}
      BY <1>2, <3>4 DEF Callback, OnDataMPEG4Audio, OnDataMPEG1Audio, Done
    <3>5. CASE codec \notin {"h265", "av1", "g711", "lpcm", "aac", "mp3"}
      BY <1>2, <1>8, <3>5 DEF Callback, OnDataFrames, Done
    <3> QED
      BY <3>1, <3>2, <3>3, <3>4, <3>5
  <2> QED
    BY <2>1
<1> QED
  BY <1>5, <1>6, <1>7, <1>8

\* Only access units that are only SEI are held.
SeiOnly(tr, rec) == \A j \in DOMAIN tr.held.of : rec[tr.held.of[j]].packet = "sei"
HeldSei == \A s \in Streams : SeiOnly(tracks[s], received)

\* One more number in a sequence of them.
LEMMA OneMoreIn ==
  ASSUME NEW q \in Seq(Nat), NEW n \in Nat, NEW h \in {Append(q, n), <<n>>}
  PROVE  \A j \in DOMAIN h : h[j] = n \/ (j \in DOMAIN q /\ h[j] = q[j])
<1>1. \A j \in DOMAIN Append(q, n) :
        Append(q, n)[j] = n \/ (j \in DOMAIN q /\ Append(q, n)[j] = q[j])
  OBVIOUS
<1>2. \A j \in DOMAIN <<n>> : <<n>>[j] = n
  OBVIOUS
<1>3. CASE h = Append(q, n)
  BY <1>1, <1>3
<1>4. CASE h = <<n>>
  BY <1>2, <1>4
<1> QED
  BY <1>3, <1>4

LEMMA CallbackSei ==
  ASSUME NEW rec, NEW codec, NEW tr \in TrackType, NEW n \in Nat, SeiOnly(tr, rec),
         NEW res, res = Callback(codec, tr, rec[n], n)
  PROVE  SeiOnly(res.tr, rec)
<1> DEFINE q == tr.held.of
           h == res.tr.held.of
<1>1. \/ h \in {q, <<>>}
      \/ rec[n].packet = "sei" /\ h \in {Append(q, n), <<n>>}
  BY CallbackFails DEF HeldThen
<1>2. q \in Seq(Nat) /\ \A j \in DOMAIN q : rec[q[j]].packet = "sei"
  BY DEF TrackType, Units, SeiOnly
<1> SUFFICES \A j \in DOMAIN h : rec[h[j]].packet = "sei"
  BY DEF SeiOnly
<1> HIDE DEF q, h
<1>3. CASE h \in {q, <<>>}
  BY <1>2, <1>3, EmptyAmong
<1>4. CASE rec[n].packet = "sei" /\ h \in {Append(q, n), <<n>>}
  <2>1. \A j \in DOMAIN h : h[j] = n \/ (j \in DOMAIN q /\ h[j] = q[j])
    BY <1>2, <1>4, OneMoreIn
  <2> QED
    BY <1>2, <1>4, <2>1
<1> QED
  BY <1>1, <1>3, <1>4

LEMMA DispatchSei ==
  ASSUME NEW rec \in Seq(Messages), NEW n \in 1..Len(rec), tracks \in [Streams -> TrackType],
         \A s \in Streams : SeiOnly(tracks[s], rec), Dispatch(n, rec[n])
  PROVE  \A s \in Streams : SeiOnly(tracks'[s], rec)
<1> DEFINE m == rec[n]
           s == <<IF m.kind \in {"video", "videoFrames"} THEN "video" ELSE "audio", m.id>>
           map == IF s[1] = "video" THEN found.video ELSE found.audio
           res == Callback(map[m.id], tracks[s], m, n)
<1>1. m \in Messages /\ m.id \in TrackIDs /\ n \in Nat
  BY MessageFields
<1>2. s \in Streams
  BY <1>1 DEF Streams
<1>3. UNCHANGED tracks \/ tracks' = [tracks EXCEPT ![s] = res.tr]
  BY DEF Dispatch
<1> HIDE DEF s, map
<1>4. SeiOnly(res.tr, rec)
  <2>1. tracks[s] \in TrackType /\ SeiOnly(tracks[s], rec)
    BY <1>2
  <2> QED
    BY <1>1, <2>1, CallbackSei
<1> HIDE DEF res, m
<1> QED
  BY <1>2, <1>3, <1>4

\* The numbers of a track are of messages that came, whatever comes next.
LEMMA SeiLonger ==
  ASSUME Inv, HeldSei, NEW m \in Messages, received' = Append(received, m)
  PROVE  \A s \in Streams : SeiOnly(tracks[s], received')
<1>1. \A i \in 1..Len(received) : received'[i] = received[i]
  BY OneMore
<1>2. \A s \in Streams : \A j \in DOMAIN tracks[s].held.of : tracks[s].held.of[j] \in 1..Len(received)
  BY DEF Inv, Given, GoodTrack, Fits
<1> QED
  BY <1>1, <1>2 DEF HeldSei, SeiOnly

LEMMA HeldSeiKept ==
  ASSUME Inv, HeldSei, [Next]_vars
  PROVE  HeldSei'
<1>1. received \in Seq(Messages) /\ tracks \in [Streams -> TrackType]
  BY DEF Inv, Types, Given
<1>2. ASSUME NEW m \in Messages, Analyze(m) PROVE HeldSei'
  <2>1. received' = Append(received, m) /\ UNCHANGED tracks
    BY <1>2 DEF Analyze
  <2> QED
    BY <2>1, SeiLonger DEF HeldSei
<1>3. ASSUME NEW m \in Messages, ReadNew(m) PROVE HeldSei'
  <2>1. received' = Append(received, m) /\ Dispatch(N, m)
    BY <1>3 DEF ReadNew
  <2>2. /\ received' \in Seq(Messages) /\ N \in 1..Len(received') /\ received'[N] = m
    BY <2>1, OneMore DEF N
  <2>3. \A s \in Streams : SeiOnly(tracks[s], received')
    BY <2>1, SeiLonger
  <2> DEFINE rec == received'
             n == N
  <2>4. rec \in Seq(Messages) /\ n \in 1..Len(rec) /\ Dispatch(n, rec[n])
        /\ \A s \in Streams : SeiOnly(tracks[s], rec)
    BY <2>1, <2>2, <2>3
  <2>5. \A s \in Streams : SeiOnly(tracks'[s], rec)
    <3> HIDE DEF rec, n
    <3> QED
      BY <1>1, <2>4, DispatchSei
  <2> QED
    BY <2>5 DEF HeldSei
<1>4. CASE ReadRecorded
  <2> DEFINE n == Head(entries)
  <2>1. Dispatch(n, received[n]) /\ UNCHANGED received /\ n \in 1..Len(received)
    BY <1>4, Rest DEF ReadRecorded, FromRecord, Inv, Types
  <2> HIDE DEF n
  <2>2. \A s \in Streams : SeiOnly(tracks'[s], received)
    BY <1>1, <2>1, DispatchSei DEF HeldSei
  <2> QED
    BY <2>1, <2>2 DEF HeldSei
<1>5. CASE ConnEnds
  <2>1. /\ UNCHANGED received
        /\ \A s \in Streams : tracks'[s] \in {tracks[s], FlushPending(tracks[s])}
    BY <1>1, <1>5 DEF ConnEnds
  <2>2. \A s \in Streams : FlushPending(tracks[s]).held.of \in {tracks[s].held.of, <<>>}
    BY <1>1, NoUnitFits DEF FlushPending, Give, TrackType
  <2> QED
    BY <2>1, <2>2, EmptyAmong DEF HeldSei, SeiOnly
<1>6. CASE UNCHANGED vars
  BY <1>6 DEF vars, HeldSei, SeiOnly
<1> QED
  BY <1>2, <1>3, <1>4, <1>5, <1>6 DEF Next, Receive

LEMMA InitSei == Init => HeldSei
BY EmptyAmong DEF Init, HeldSei, SeiOnly, NewTrack, NoUnit

\* The messages held for the one that is refused are SEI of its track and instant.
LEMMA Crowding ==
  ASSUME IdsFit, PubInv, HeldSei, phase = "ready", NEW m \in Messages, NEW n,
         n = Len(taken) + 1, n \in 1..Len(sent), Origin(m, sent[n]),
         m.kind \in LegacyKinds \cup FrameKinds, m.packet \in {"sei", "au"},
         NEW tr, tr = tracks[StreamOfMessage(m)],
         NoRoom(tr, m)
  PROVE  Crowded(n)
<1> DEFINE q == tr.held.of
           s == StreamOfMessage(m)
<1>1. /\ SendInv /\ FlowTypes /\ list \in TrackLists /\ n \in Nat /\ n - 1 = Len(taken)
      /\ sent \in Seq(FrameType) /\ Len(sent) \in Nat /\ Len(taken) \in Nat
  BY DEF PubInv, SendInv, WriterInv, FlowTypes, Inv, Types
<1>2. s \in Streams
  BY MessageFields DEF StreamOfMessage, Streams
<1>3. PICK i \in DOMAIN list :
        StreamOf(i) = s /\ sent[n].track = i /\ Time(m) = <<sent[n].pts, sent[n].dts>>
  BY <1>1, FromTrack
<1>4. n \in DOMAIN sent /\ sent[n].track # 0 /\ i # 0
  BY <1>1, <1>3, ListFields
<1>5. /\ tr \in TrackType /\ Sorted(tr) /\ Fits(tr.held, received)
      /\ \A x \in Nat : Holds(tr, x) => x \in 1..Len(taken) /\ Reaches(s, received[x])
      /\ SeiOnly(tr, received)
  BY <1>2 DEF PubInv, Inv, Given, GoodTrack, WholeInv, Whole, Complete, HeldSei
<1>6. q \in Seq(Nat) /\ Len(q) \in Nat /\ DOMAIN q = 1..Len(q) /\ \A j \in DOMAIN q : q[j] \in Nat
  <2>1. q \in Seq(Nat)
    BY <1>5 DEF TrackType, Units
  <2> HIDE DEF q
  <2> QED
    BY <2>1, ElementsOf
<1>7. IsFiniteSet(SeiBefore(n)) /\ Cardinality(SeiBefore(n)) \in Nat
  <2>1. IsFiniteSet(1..(n - 1))
    BY <1>1, FS_Interval
  <2>2. SeiBefore(n) \in SUBSET (1..(n - 1))
    BY DEF SeiBefore, FramesOf
  <2> QED
    BY <2>1, <2>2, FS_Subset, FS_CardinalityType
<1>8. CASE MaxUnits = 0
  BY <1>4, <1>7, <1>8 DEF Crowded
<1>9. CASE MaxUnits # 0
  <2>1. Len(q) >= MaxUnits /\ tr.held.time = Time(m)
    BY <1>9 DEF NoRoom
  <2>2. ASSUME NEW k \in DOMAIN q PROVE q[k] \in SeiBefore(n)
    <3> DEFINE x == q[k]
    <3>1. /\ x \in Nat /\ Holds(tr, x) /\ x \in 1..Len(received) /\ Time(received[x]) = Time(m)
          /\ received[x].packet = "sei"
      <4>1. x \in Nat
        BY <1>6
      <4>2. Holds(tr, x)
        BY DEF Holds, Among
      <4>3. x \in 1..Len(received) /\ Time(received[x]) = Time(m)
        BY <1>5, <2>1 DEF Fits
      <4>4. received[x].packet = "sei"
        BY <1>5 DEF SeiOnly
      <4> QED
        BY <4>1, <4>2, <4>3, <4>4
    <3>2. x \in 1..(n - 1) /\ Reaches(s, received[x])
      BY <1>1, <1>5, <3>1
    <3>3. Origin(received[x], sent[x])
      BY <1>1, <3>1, ReceivedFlow, Flowing
    <3> HIDE DEF x, q
    <3>4. s = StreamOfMessage(received[x]) /\ received[x].kind \in LegacyKinds \cup FrameKinds
      BY <1>2, <3>2, ReachesOne
    <3>5. PICK j \in DOMAIN list :
            /\ StreamOf(j) = s /\ sent[x].track = j /\ sent[x].payload = "sei"
            /\ Time(received[x]) = <<sent[x].pts, sent[x].dts>>
      BY <1>1, <3>1, <3>3, <3>4, FromTrack
    <3>6. j = i
      BY <1>1, <1>3, <3>5, StreamsDiffer
    <3>7. sent[x].pts = sent[n].pts /\ sent[x].dts = sent[n].dts
      BY <1>3, <3>1, <3>5
    <3> QED
      BY <1>3, <3>2, <3>5, <3>6, <3>7 DEF SeiBefore, FramesOf, x
  <2>3. \A k, l \in DOMAIN q : q[k] = q[l] => k = l
    <3>1. \A k, l \in DOMAIN q : k < l => q[k] < q[l]
      BY <1>5 DEF Sorted, Increasing
    <3> HIDE DEF q
    <3> QED
      BY <1>6, <3>1
  <2> HIDE DEF q
  <2>4. q \in Injection(1..Len(q), SeiBefore(n))
    <3>1. q \in [1..Len(q) -> Nat]
      BY <1>6
    <3>2. q = [k \in 1..Len(q) |-> q[k]]
      BY <3>1
    <3>3. q \in [1..Len(q) -> SeiBefore(n)]
      BY <1>6, <2>2, <3>2
    <3>4. IsInjective(q)
      BY <2>3 DEF IsInjective
    <3> QED
      BY <3>3, <3>4 DEF Injection
  <2>5. Cardinality(1..Len(q)) <= Cardinality(SeiBefore(n)) /\ Cardinality(1..Len(q)) = Len(q)
    <3>1. Cardinality(1..Len(q)) <= Cardinality(SeiBefore(n))
      BY <1>7, <2>4, FS_Injection
    <3>2. 1 \in Int /\ Len(q) \in Int
      BY <1>6
    <3>3. Cardinality(1..Len(q)) = IF 1 > Len(q) THEN 0 ELSE Len(q) - 1 + 1
      BY <3>2, FS_Interval
    <3> QED
      BY <1>6, <3>1, <3>3
  <2>6. Cardinality(SeiBefore(n)) >= MaxUnits
    BY <1>6, <1>7, <2>1, <2>5, TrackReaderAssumption DEF q
  <2> QED
    BY <1>4, <2>6 DEF Crowded
<1> QED
  BY <1>8, <1>9

\* What the kinds of refusal of a callback tell of the message and of the track.
LEMMA CallbackRefuses ==
  ASSUME NEW codec, NEW tr \in TrackType, NEW m, NEW n \in Nat
  PROVE  LET err == Callback(codec, tr, m, n).err
         IN /\ err = "undecodable" => m.packet = "bad"
            /\ err = "panic" => codec = "h265" /\ m.codec # "h265"
            /\ err = "limit" => m.packet \in {"sei", "au"} /\ NoRoom(tr, m)
<1> SUFFICES ASSUME NEW res, res = Callback(codec, tr, m, n)
             PROVE  /\ res.err = "undecodable" => m.packet = "bad"
                    /\ res.err = "panic" => codec = "h265" /\ m.codec # "h265"
                    /\ res.err = "limit" => m.packet \in {"sei", "au"} /\ NoRoom(tr, m)
  OBVIOUS
<1> QED
  BY CallbackFails

\* A callback refuses what a Writer sent only for want of room.
LEMMA ReadFails ==
  ASSUME IdsFit, PubInv, HeldSei, phase = "ready", NEW m \in Messages, NEW n,
         n = Len(taken) + 1, n \in 1..Len(sent), Origin(m, sent[n]), Dispatch(n, m),
         phase' \in {"limit", "undecodable", "panic"}
  PROVE  phase' = "limit" /\ Crowded(n)
<1> DEFINE s == StreamOfMessage(m)
           codec == MapOf(m)[m.id]
           res == Callback(codec, tracks[s], m, n)
<1>1. /\ list \in TrackLists /\ n \in Nat /\ m.id \in TrackIDs /\ FoundRight(found)
      /\ tracks \in [Streams -> TrackType]
  BY MessageFields DEF PubInv, SendInv, WriterInv, ReadInv, Inv, Types, Given
<1>2. s \in Streams /\ s[1] \in {"video", "audio"} /\ s[2] = m.id
  BY <1>1 DEF StreamOfMessage, Streams
<1>3. m.kind \in LegacyKinds \cup FrameKinds /\ IsUp(MapOf(m), m.id) /\ res.err = phase'
  BY DEF Dispatch, MapOf, StreamOfMessage
<1>4. PICK i \in DOMAIN list :
        StreamOf(i) = s /\ m.codec = list[i].codec /\ m.packet # "bad"
  BY <1>1, <1>3, FromTrack
<1>5. codec = m.codec
  <2>1. PICK j \in DOMAIN list : StreamOf(j) = s /\ codec = list[j].codec
    BY <1>1, <1>3 DEF FoundRight, MapOf, StreamOfMessage
  <2> QED
    BY <1>1, <1>4, <2>1, StreamsDiffer
<1> HIDE DEF s, codec
<1>6. /\ res.err = "undecodable" => m.packet = "bad"
      /\ res.err = "panic" => codec = "h265" /\ m.codec # "h265"
      /\ res.err = "limit" => m.packet \in {"sei", "au"} /\ NoRoom(tracks[s], m)
  <2>1. tracks[s] \in TrackType /\ n \in Nat
    BY <1>1, <1>2
  <2> QED
    BY <2>1, CallbackRefuses
<1> HIDE DEF res
<1>7. phase' = "limit"
  BY <1>3, <1>4, <1>5, <1>6
<1>8. m.packet \in {"sei", "au"} /\ NoRoom(tracks[s], m)
  BY <1>3, <1>6, <1>7
<1> QED
  BY <1>3, <1>7, <1>8, Crowding DEF s

\* The message that Read takes next, and where it is from.
LEMMA NextTaken ==
  ASSUME IdsFit, PubInv, (Deliver /\ ReadNew(Head(wire))) \/ (ReadRecorded /\ UNCHANGED sent)
  PROVE  \E m \in Messages, n \in 1..Len(sent) :
           /\ phase = "ready" /\ n = Len(taken) + 1 /\ Origin(m, sent[n]) /\ Dispatch(n, m)
           /\ Len(taken') = n /\ sent' = sent
<1>1. /\ SendInv /\ FlowTypes /\ Total \in Nat /\ Total <= Len(sent) /\ Len(sent) \in Nat
      /\ taken \in Seq(Nat) /\ Len(received) \in Nat /\ Numbered
  <2>1. SendInv /\ FlowTypes /\ Total <= Len(sent) /\ Numbered /\ taken \in Seq(Nat)
    BY DEF PubInv, SendInv, WriterInv, Inv, Types, WholeInv, Whole
  <2>2. Len(received) \in Nat /\ Len(wire) \in Nat /\ Len(sent) \in Nat
    BY <2>1 DEF FlowTypes
  <2> QED
    BY <2>1, <2>2 DEF Total
<1>2. ASSUME NEW m \in Messages, NEW n \in 1..Total, phase = "ready", n = Len(taken) + 1,
             Flow[n] = m, Dispatch(n, m), sent' = sent
      PROVE  \E x \in Messages, k \in 1..Len(sent) :
               /\ phase = "ready" /\ k = Len(taken) + 1 /\ Origin(x, sent[k]) /\ Dispatch(k, x)
               /\ Len(taken') = k /\ sent' = sent
  <2>1. n \in 1..Len(sent) /\ n \in Nat
    BY <1>1
  <2>2. Origin(m, sent[n])
    BY <1>1, <1>2, Flowing
  <2>3. taken' = Append(taken, n)
    BY <1>2 DEF Dispatch
  <2>4. Len(taken') = n
    BY <1>1, <1>2, <2>1, <2>3
  <2> QED
    BY <1>2, <2>1, <2>2, <2>4
<1>3. CASE Deliver /\ ReadNew(Head(wire))
  <2>1. /\ wire # <<>> /\ wire' = Tail(wire) /\ received' = Append(received, Head(wire))
        /\ phase = "ready" /\ entries = <<>> /\ Dispatch(N, Head(wire)) /\ sent' = sent
    BY <1>3 DEF Deliver, ReadNew, FromRecord, writerVars
  <2>2. /\ Head(wire) \in Messages /\ Len(received) + 1 \in 1..Total
        /\ Flow[Len(received) + 1] = Head(wire)
    BY <1>1, <2>1, DeliverFlow
  <2>3. N = Len(received) + 1 /\ N = Len(taken) + 1
    <3>1. Len(entries) = 0 /\ Len(taken) \in Nat
      BY <1>1, <2>1
    <3> QED
      BY <1>1, <2>1, <3>1 DEF Numbered, N
  <2> QED
    BY <1>2, <2>1, <2>2, <2>3
<1>4. CASE ReadRecorded /\ UNCHANGED sent
  <2> DEFINE n == Head(entries)
  <2>1. /\ phase = "ready" /\ Dispatch(n, received[n]) /\ sent' = sent /\ n \in 1..Len(received)
    BY <1>4, Rest DEF ReadRecorded, FromRecord, PubInv, Inv, Types
  <2>2. n = Len(taken) + 1
    <3>1. entries # <<>> /\ entries \in Seq(1..Len(received))
      BY <1>4 DEF ReadRecorded, FromRecord, PubInv, Inv, Types
    <3>2. n = entries[1] /\ 1 \in 1..Len(entries)
      BY <3>1
    <3> QED
      BY <1>1, <2>1, <3>2 DEF Numbered
  <2> HIDE DEF n
  <2>3. n \in 1..Total /\ Flow[n] = received[n] /\ received[n] \in Messages
    BY <1>1, <2>1, ReceivedFlow DEF FlowTypes
  <2> QED
    BY <1>2, <2>1, <2>2, <2>3
<1> QED
  BY <1>3, <1>4

LEMMA StepRefuses ==
  ASSUME IdsFit, PubInv, LearnInv, HeldSei, WhyRefused', [PublishNext]_publishVars, Refuses
  PROVE  \/ /\ phase' \in {"failed", "notSetUp"}
            /\ \/ \E i \in DOMAIN list : (Silent(i) \/ Unconfigured(list, i))'
               \/ RecordFull(entries)
         \/ phase' = "limit" /\ Crowded(Len(taken))'
<1>1. /\ phase' \in {"failed", "notSetUp", "limit", "undecodable", "panic"} /\ phase' # phase
      /\ received' # received \/ taken' # taken
      /\ list' = list
  BY SentStays DEF PubInv, Refuses
<1>0. sent' = sent
  <2>1. Deliver \/ Replay \/ ReaderEnds
    BY <1>1 DEF PublishNext, Announce, AnnounceTurn, WriteFails, WriterCloses, Drain, WriteFrame,
                Lose, Reading, ReaderCloses, readerVars, vars, publishVars
  <2> QED
    BY <2>1 DEF Deliver, Replay, ReaderEnds, writerVars
<1>2. CASE phase' = "notSetUp"
  BY <1>1, <1>2 DEF WhyRefused
<1>3. CASE phase' = "failed" /\ Deliver /\ Analyze(Head(wire)) /\ ~RecordFull(entries)
  <2> DEFINE h == Analyzed(found, Head(wire))
  <2>1. /\ N \in 1..Total /\ recorded' = N /\ UNCHANGED <<list, sent>>
        /\ h \in FoundType /\ Learned(h, N)
        /\ \A k \in 1..N : Up(h, Flow[k])
        /\ h.cur - h.start >= AnalyzePeriod => ~Silence(N)
        /\ phase' = IF h.cur - h.start >= AnalyzePeriod
                    THEN IF TracksFound(h) THEN "ready" ELSE "failed" ELSE "analyzing"
    BY <1>3, AnalyzeLearns
  <2> HIDE DEF h
  <2>2. ~Silence(N) /\ ~TracksFound(h)
    BY <1>3, <2>1
  <2>3. SendInv /\ N \in 0..Total
    BY <2>1 DEF PubInv
  <2>4. PICK i \in DOMAIN list : ~FoundBy(i, N)
    BY <2>1, <2>2, <2>3, FoundUnlessSilent
  <2>5. Silent(i)' \/ Unconfigured(list', i)
    BY <2>1, <2>4 DEF FoundBy, Silent, FoundInFrames, FramesOf
  <2> QED
    BY <1>3, <2>5
<1>4. CASE phase' = "failed" /\ Deliver /\ Analyze(Head(wire)) /\ RecordFull(entries)
  BY <1>4
<1>5. CASE Deliver /\ Analyze(Head(wire)) /\ phase' # "failed"
  BY <1>1, <1>5 DEF Analyze
<1>6. CASE (Deliver /\ ReadNew(Head(wire))) \/ ReadRecorded
  <2>1. phase' # "failed"
    <3>1. Deliver => Head(wire) \in Messages
      BY Delivered
    <3> QED
      BY <1>6, <3>1, ReadRecordedKeeps, ReadNewKeeps DEF PubInv
  <2>2. CASE phase' \in {"limit", "undecodable", "panic"}
    <3>1. PICK m \in Messages, n \in 1..Len(sent) :
            /\ phase = "ready" /\ n = Len(taken) + 1 /\ Origin(m, sent[n]) /\ Dispatch(n, m)
            /\ Len(taken') = n
      BY <1>0, <1>6, NextTaken
    <3>2. phase' = "limit" /\ Crowded(n)
      BY <2>2, <3>1, ReadFails
    <3>3. Crowded(Len(taken))'
      BY <1>0, <3>1, <3>2 DEF Crowded, SeiBefore, FramesOf
    <3> QED
      BY <3>2, <3>3
  <2> QED
    BY <1>1, <1>2, <2>1, <2>2
<1>7. CASE UNCHANGED vars \/ ConnEnds
  BY <1>1, <1>7 DEF vars, ConnEnds
<1> QED
  BY <1>1, <1>3, <1>4, <1>5, <1>6, <1>7, ReaderCases

\* What a Reader refuses of what a Writer sent has a cause in what the application
\* gave the Writer, or the record is full: a track that is found in its frames had
\* none while the tracks were looked for, the first AAC track has no configuration,
\* or as many SEI as an access unit may have came before at the same instant
\* (reader.go:488, 534-556, 712-740, 941-976, writer.go:331-585).
THEOREM RefusalsHaveCause ==
  ASSUME IdsFit
  PROVE  PublishSpec => RefusedForCause
<1>1. PubInv /\ LearnInv => WhyRefused
  BY RefusedSilent
<1>2. PublishInit => HeldSei
  BY InitSei DEF PublishInit
<1>3. PubInv /\ HeldSei /\ [PublishNext]_publishVars => HeldSei'
  BY ReaderStep, HeldSeiKept DEF PubInv
<1>4. PubInv /\ LearnInv /\ HeldSei /\ WhyRefused' /\ [PublishNext]_publishVars =>
        [Refuses =>
           \/ /\ phase' \in {"failed", "notSetUp"}
              /\ \/ \E i \in DOMAIN list : (Silent(i) \/ Unconfigured(list, i))'
                 \/ RecordFull(entries)
           \/ phase' = "limit" /\ Crowded(Len(taken))']_publishVars
  BY StepRefuses
<1> QED
  BY LearnAlways, <1>1, <1>2, <1>3, <1>4, PTL DEF PublishSpec, RefusedForCause
===============================================================================
