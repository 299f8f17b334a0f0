------------------------- MODULE ForeignSender_proofs -------------------------
(***************************************************************************)
(* Proofs about ForeignSender: a sender that does not inherit from an      *)
(* aborted message is followed chunk by chunk, whatever it interleaves,    *)
(* resizes and aborts.                                                     *)
(***************************************************************************)
EXTENDS ForeignSender, RawReader_proofs

LastType ==
  [used : BOOLEAN, broken : BOOLEAN, msid : Nat, typ : Nat, len : Nat, ts : Int,
   delta : Nat, ext : BOOLEAN]

Types ==
  /\ last \in [ChunkStreamIDs -> LastType]
  /\ current \in [ChunkStreamIDs -> Messages \cup {NoMessage}]
  /\ pos \in [ChunkStreamIDs -> Nat]
  /\ size \in Nat /\ size >= 1
  /\ reader \in ReaderType
  /\ done \in Seq(Messages)

\* What the preceding chunk of a stream says is what the reader holds; after an
\* abort, all but the length.
Matches(l, rs) ==
  /\ l.used = rs.avail
  /\ l.ext = rs.ext
  /\ l.used =>
       /\ rs.msid = l.msid /\ rs.typ = l.typ
       /\ rs.ts = U32(l.ts) /\ rs.delta = U32(l.delta)
       /\ ~l.broken => rs.len = l.len

\* A stream of the sender and the same of the reader, with n bytes of m sent.
Followed(l, m, n, rs) ==
  /\ Matches(l, rs)
  /\ m = NoMessage => Idle(rs)
  /\ m # NoMessage =>
       /\ n > 0 /\ n < m.len
       /\ l.used /\ ~l.broken
       /\ Collecting(rs, m, n) /\ HasHeader(rs, m) /\ rs.ts = U32(m.ts)

StreamsFollowed ==
  \A c \in ChunkStreamIDs :
    /\ current[c] # NoMessage => current[c].csid = c
    /\ Followed(last[c], current[c], pos[c], reader.streams[c])

FollowInv ==
  Types /\ StreamsFollowed /\ Follows /\ reader.size = size /\ Reassembled

LEMMA InitFollow == Init => FollowInv
<1> SUFFICES ASSUME Init PROVE FollowInv
  OBVIOUS
<1>1. /\ InitialChunkSize \in Nat /\ InitialChunkSize >= 1 /\ 0 \in 0..(TsMod - 1)
      /\ U32(0) = 0
  <2>1. 0 \in 0..(TsMod - 1) /\ TsMod \in Nat \ {0}
    BY FormatAssumption, SMT
  <2>2. U32(0) = 0
    BY <2>1, SmallRemainder DEF U32
  <2> QED
    BY <2>1, <2>2, FormatAssumption, SMT
<1>2. NewReader \in ReaderType
  BY <1>1 DEF NewReader, NewReaderStream, NoPart, ReaderType, ReaderStreamType
<1>3. Nothing \in LastType
  BY DEF Nothing, LastType
<1>4. Types
  BY <1>1, <1>2, <1>3 DEF Init, Types
<1>5. /\ \A c \in ChunkStreamIDs : last[c] = Nothing /\ current[c] = NoMessage
      /\ reader.streams = [c \in ChunkStreamIDs |-> NewReaderStream]
      /\ reader.size = InitialChunkSize /\ reader.state = "reading" /\ reader.got = <<>>
  BY DEF Init, NewReader
<1>6. Matches(Nothing, NewReaderStream) /\ Idle(NewReaderStream)
  BY <1>1 DEF Matches, Idle, Nothing, NewReaderStream
<1>7. StreamsFollowed
  BY <1>5, <1>6 DEF StreamsFollowed, Followed
<1> QED
  BY <1>4, <1>5, <1>7 DEF Init, FollowInv, Follows, Reassembled

\* A header that the sender may choose is understood.
LEMMA OpeningUnderstood ==
  ASSUME ~Inherit, NEW fmt \in 0..3, NEW l \in LastType, NEW rs \in ReaderStreamType,
         NEW m \in Messages, size \in Nat, Matches(l, rs), Idle(rs), Allowed(fmt, l, m)
  PROVE  LET c == Opening(fmt, l, m)
             h == TakeHeader(rs, c)
         IN /\ c \in Chunk /\ c.csid = m.csid /\ c.frag = Piece(m, 0, size)
            /\ ~Refuses(rs, c)
            /\ c.fmt = 3 => c.ext = rs.ext
            /\ HasHeader(h, m) /\ h.ts = U32(m.ts)
            /\ Matches(Opened(fmt, l, m), h)
            /\ Opened(fmt, l, m) \in LastType
            /\ Opened(fmt, l, m).used /\ ~Opened(fmt, l, m).broken
<1> DEFINE c == Opening(fmt, l, m)
           h == TakeHeader(rs, c)
           frag == Piece(m, 0, size)
           delta == Delta(l, m)
           o == Opened(fmt, l, m)
<1>1. /\ m.ts \in Int /\ m.typ \in Nat /\ m.len \in Nat /\ m.msid \in Nat
      /\ m.csid \in ChunkStreamIDs
      /\ l.ts \in Int /\ l.delta \in Nat /\ l.ext \in BOOLEAN /\ l.used \in BOOLEAN
      /\ l.broken \in BOOLEAN /\ rs.avail \in BOOLEAN
      /\ rs.recv = 0 /\ rs.avail = l.used /\ rs.ext = l.ext
  BY MessageType DEF LastType, ReaderStreamType, Idle, Matches
<1>2. frag \in Fragment
  <2>1. 0 \in 0..m.len
    BY <1>1, SMT
  <2> QED
    BY <2>1, PieceType
<1>3. \A n \in Int : U32(n) \in 0..(TsMod - 1) /\ Extended(U32(n)) \in BOOLEAN
  <2>1. \A n \in Int : U32(n) \in 0..(TsMod - 1)
    BY U32Type
  <2> QED
    BY <2>1, FormatAssumption, SMT DEF Extended
<1>4. /\ o.used = TRUE /\ o.broken = FALSE /\ o.msid = m.msid /\ o.typ = m.typ
      /\ o.len = m.len /\ o.ts = m.ts
      /\ o.delta = (IF fmt = 0 THEN 0 ELSE delta)
      /\ o.ext = (CASE fmt = 0 -> Extended(U32(m.ts))
                    [] fmt \in {1, 2} -> Extended(U32(delta))
                    [] OTHER -> l.ext)
  BY DEF Opened
<1>5. CASE fmt = 0
  <2>1. c = Chunk0(m, frag)
    BY <1>5 DEF Opening
  <2>2. c.fmt = 0 /\ c.csid = m.csid /\ c.ts = U32(m.ts) /\ c.typ = m.typ
        /\ c.msid = m.msid /\ c.len = m.len /\ c.frag = frag
    BY <2>1 DEF Chunk0
  <2>3. c \in Chunk
    BY <1>1, <1>2, <1>3, <2>1 DEF Chunk0, Chunk
  <2>4. h = [rs EXCEPT !.avail = TRUE, !.msid = c.msid, !.typ = c.typ,
                       !.ts = c.ts, !.delta = 0, !.len = c.len, !.ext = Extended(c.ts)]
    BY <2>2 DEF TakeHeader
  <2>5. /\ h.avail = TRUE /\ h.msid = m.msid /\ h.typ = m.typ /\ h.ts = U32(m.ts)
        /\ h.len = m.len /\ h.ext = Extended(U32(m.ts)) /\ h.delta = 0
    <3> HIDE DEF c, h
    <3> QED
      BY <2>2, <2>4 DEF ReaderStreamType
  <2>6. o.delta = 0 /\ o.ext = Extended(U32(m.ts))
    <3> HIDE DEF o
    <3> QED
      BY <1>4, <1>5
  <2>7. U32(0) = 0
    <3>1. 0 \in 0..(TsMod - 1) /\ TsMod \in Nat \ {0}
      BY FormatAssumption, SMT
    <3> QED
      BY <3>1, SmallRemainder DEF U32
  <2>8. o \in LastType
    <3>1. Extended(U32(m.ts)) \in BOOLEAN
      BY <1>1, <1>3
    <3> QED
      BY <1>1, <1>5, <3>1 DEF Opened, LastType
  <2> HIDE DEF c, h, o
  <2>9. ~Refuses(rs, c)
    BY <1>1, <2>2 DEF Refuses
  <2>10. HasHeader(h, m) /\ Matches(o, h)
    BY <1>4, <2>5, <2>6, <2>7 DEF HasHeader, Matches
  <2> QED
    BY <1>4, <2>2, <2>3, <2>5, <2>8, <2>9, <2>10 DEF c, h, o
<1>6. CASE fmt # 0
  <2>1. /\ l.used /\ delta \in Nat /\ l.msid = m.msid
        /\ fmt # 1 => l.typ = m.typ /\ l.len = m.len /\ ~l.broken
        /\ fmt = 3 => l.delta = delta
    BY <1>1, <1>6, SMT DEF Allowed, Delta
  <2>2. /\ rs.avail = TRUE /\ rs.msid = m.msid /\ rs.ts = U32(l.ts)
        /\ rs.delta = U32(l.delta)
        /\ fmt # 1 => rs.typ = m.typ /\ rs.len = m.len
    BY <1>1, <2>1 DEF Matches
  <2>3. U32(rs.ts + U32(delta)) = U32(m.ts)
    <3>1. l.ts \in Int /\ delta \in Int /\ l.ts + delta = m.ts
      BY <1>1, <2>1, SMT DEF Delta
    <3> HIDE DEF delta
    <3>2. U32(U32(l.ts) + U32(delta)) = U32(l.ts + delta)
      BY <3>1, U32Sum
    <3> QED
      BY <2>2, <3>1, <3>2
  <2>4. U32(delta) \in 0..(TsMod - 1) /\ Extended(U32(delta)) \in BOOLEAN
    BY <1>3, <2>1
  <2>5. o \in LastType
    <3> HIDE DEF delta
    <3> QED
      BY <1>1, <1>6, <2>1, <2>4 DEF Opened, LastType, delta
  <2>6. CASE fmt = 1
    <3>1. c = Chunk1(m, delta, frag)
      BY <2>6 DEF Opening
    <3>2. c.fmt = 1 /\ c.csid = m.csid /\ c.ts = U32(delta) /\ c.typ = m.typ /\ c.len = m.len
          /\ c.frag = frag
      BY <3>1 DEF Chunk1
    <3>3. c \in Chunk
      BY <1>1, <1>2, <2>4, <3>1 DEF Chunk1, Chunk
    <3>4. h = [rs EXCEPT !.typ = c.typ, !.ts = U32(rs.ts + c.ts), !.delta = c.ts,
                         !.len = c.len, !.ext = Extended(c.ts)]
      BY <3>2 DEF TakeHeader
    <3>5. /\ h.avail = TRUE /\ h.msid = m.msid /\ h.typ = m.typ /\ h.len = m.len
          /\ h.ts = U32(m.ts) /\ h.delta = U32(delta) /\ h.ext = Extended(U32(delta))
      <4> HIDE DEF c, h, delta
      <4> QED
        BY <1>1, <2>1, <2>2, <2>3, <3>2, <3>4 DEF ReaderStreamType
    <3>6. o.delta = delta /\ o.ext = Extended(U32(delta))
      <4> HIDE DEF o
      <4> QED
        BY <1>4, <2>6
    <3> HIDE DEF c, h, o, delta
    <3>7. ~Refuses(rs, c)
      BY <1>1, <2>1, <3>2 DEF Refuses
    <3>8. HasHeader(h, m) /\ Matches(o, h)
      BY <1>4, <3>5, <3>6 DEF HasHeader, Matches
    <3> QED
      BY <1>4, <2>5, <3>2, <3>3, <3>5, <3>7, <3>8 DEF c, h, o
  <2>7. CASE fmt = 2
    <3>1. c = Chunk2(m, delta, frag)
      BY <2>7 DEF Opening
    <3>2. c.fmt = 2 /\ c.csid = m.csid /\ c.ts = U32(delta) /\ c.frag = frag
      BY <3>1 DEF Chunk2
    <3>3. c \in Chunk
      BY <1>1, <1>2, <2>4, <3>1 DEF Chunk2, Chunk
    <3>4. h = [rs EXCEPT !.ts = U32(rs.ts + c.ts), !.delta = c.ts, !.ext = Extended(c.ts)]
      BY <3>2 DEF TakeHeader
    <3>5. /\ h.avail = TRUE /\ h.msid = m.msid /\ h.typ = m.typ /\ h.len = m.len
          /\ h.ts = U32(m.ts) /\ h.delta = U32(delta) /\ h.ext = Extended(U32(delta))
      <4>1. rs.typ = m.typ /\ rs.len = m.len
        BY <2>2, <2>7
      <4> HIDE DEF c, h, delta
      <4> QED
        BY <2>2, <2>3, <3>2, <3>4, <4>1 DEF ReaderStreamType
    <3>6. o.delta = delta /\ o.ext = Extended(U32(delta))
      <4> HIDE DEF o
      <4> QED
        BY <1>4, <2>7
    <3> HIDE DEF c, h, o, delta
    <3>7. ~Refuses(rs, c)
      BY <1>1, <2>1, <3>2 DEF Refuses
    <3>8. HasHeader(h, m) /\ Matches(o, h)
      BY <1>4, <3>5, <3>6 DEF HasHeader, Matches
    <3> QED
      BY <1>4, <2>5, <3>2, <3>3, <3>5, <3>7, <3>8 DEF c, h, o
  <2>8. CASE fmt = 3
    <3>1. c = Chunk3(m, l.ext, frag)
      BY <2>8 DEF Opening
    <3>2. c.fmt = 3 /\ c.csid = m.csid /\ c.ext = rs.ext /\ c.frag = frag
      BY <1>1, <3>1 DEF Chunk3
    <3>3. c \in Chunk
      BY <1>1, <1>2, <3>1 DEF Chunk3, Chunk
    <3>4. h = [rs EXCEPT !.ts = U32(rs.ts + rs.delta)]
      BY <1>1, <3>2 DEF TakeHeader
    <3>5. /\ h.avail = TRUE /\ h.msid = m.msid /\ h.typ = m.typ /\ h.len = m.len
          /\ h.ts = U32(m.ts) /\ h.delta = U32(delta) /\ h.ext = l.ext
      <4>1. rs.typ = m.typ /\ rs.len = m.len /\ l.delta = delta
        BY <2>1, <2>2, <2>8
      <4> HIDE DEF c, h, delta
      <4> QED
        BY <1>1, <2>2, <2>3, <3>4, <4>1 DEF ReaderStreamType
    <3>6. o.delta = delta /\ o.ext = l.ext
      <4> HIDE DEF o
      <4> QED
        BY <1>4, <2>8
    <3> HIDE DEF c, h, o, delta
    <3>7. ~Refuses(rs, c)
      BY <2>2, <3>2 DEF Refuses
    <3>8. HasHeader(h, m) /\ Matches(o, h)
      BY <1>4, <3>5, <3>6 DEF HasHeader, Matches
    <3> QED
      BY <1>4, <2>5, <3>2, <3>3, <3>5, <3>7, <3>8 DEF c, h, o
  <2> QED
    BY <1>6, <2>6, <2>7, <2>8
<1> QED
  BY <1>5, <1>6

\* A stream cut short, or that nothing happens to.
LEMMA Cut ==
  ASSUME NEW l \in LastType, NEW m, NEW n \in Nat, NEW rs \in ReaderStreamType,
         Followed(l, m, n, rs)
  PROVE  /\ m # NoMessage => Followed([l EXCEPT !.broken = TRUE], NoMessage, n, Aborted(rs))
         /\ m = NoMessage => Aborted(rs) = rs
         /\ [l EXCEPT !.broken = TRUE] \in LastType
<1>1. [l EXCEPT !.broken = TRUE] \in LastType
  BY DEF LastType
<1>2. CASE m = NoMessage
  BY <1>1, <1>2 DEF Followed, Idle, Aborted
<1>3. CASE m # NoMessage
  <2> DEFINE a == Aborted(rs)
             b == [l EXCEPT !.broken = TRUE]
  <2>1. rs.recv # 0
    BY <1>3, SMT DEF Followed, Collecting
  <2>2. a = [Cleared(rs) EXCEPT !.len = 0]
    BY <2>1 DEF Aborted
  <2>3. /\ a.avail = rs.avail /\ a.ext = rs.ext /\ a.msid = rs.msid /\ a.typ = rs.typ
        /\ a.ts = rs.ts /\ a.delta = rs.delta /\ a.recv = 0 /\ a.part = NoPart
    BY <2>2 DEF Cleared, ReaderStreamType
  <2>4. /\ b.used = l.used /\ b.broken = TRUE /\ b.ext = l.ext /\ b.msid = l.msid
        /\ b.typ = l.typ /\ b.ts = l.ts /\ b.delta = l.delta
    BY DEF LastType
  <2> HIDE DEF a, b
  <2>5. Followed(b, NoMessage, n, a)
    BY <2>3, <2>4 DEF Followed, Matches, Idle
  <2> QED
    BY <1>1, <1>3, <2>5 DEF a, b
<1> QED
  BY <1>2, <1>3

\* One more chunk of m, whose header is understood.
LEMMA Sent ==
  ASSUME FollowInv, NEW m \in Messages, NEW n \in 0..m.len, n # m.len \/ m.len = 0,
         NEW c \in Chunk, c.csid = m.csid, c.frag = Piece(m, n, size),
         current[m.csid] \in {NoMessage, m},
         NEW l \in LastType, l.used, ~l.broken,
         ~Refuses(reader.streams[m.csid], c),
         c.fmt = 3 => c.ext = reader.streams[m.csid].ext,
         Collecting(reader.streams[m.csid], m, n),
         HasHeader(TakeHeader(reader.streams[m.csid], c), m),
         TakeHeader(reader.streams[m.csid], c).ts = U32(m.ts),
         Matches(l, TakeHeader(reader.streams[m.csid], c)),
         Send(m, l, c, n + c.frag.len)
  PROVE  FollowInv'
<1> DEFINE k == m.csid
           rs == reader.streams[k]
           h == TakeHeader(rs, c)
           upto == n + c.frag.len
           new == Receive(reader, c)
           v == Value[m.body]
           cut == CutShort(m)
           ends == upto = m.len
<1>1. /\ Types /\ reader \in ReaderType /\ reader.state = "reading" /\ reader.size = size
      /\ size \in Nat /\ size >= 1
  BY DEF FollowInv, Types, Follows
<1>2. /\ k \in ChunkStreamIDs /\ m.len \in Nat /\ rs \in ReaderStreamType
      /\ m.csid = k
  BY <1>1, MessageType DEF ReaderType
<1>3. h \in ReaderStreamType
  BY <1>2, TakeHeaderType
<1>4. /\ new.state = "reading"
      /\ upto # m.len => new = [reader EXCEPT !.streams[k] = Holding(h, m, upto)]
      /\ upto = m.len =>
           /\ new.got = Append(reader.got, Stamped(m, h.ts))
           /\ new.size = SizeAfter(m, reader.size)
           /\ new.streams = StreamsAfter(m, [reader.streams EXCEPT ![k] = Cleared(h)])
  BY <1>1, PieceReceived
<1>5. new \in ReaderType
  BY <1>1, ReceiveType
<1>6. upto \in Nat /\ upto <= m.len /\ (upto # m.len => upto > 0 /\ upto < m.len)
  <2>1. upto \in 0..m.len
    BY <1>1, PieceType
  <2>2. upto # m.len => upto > 0
    BY <1>1, <1>2, SMT DEF Piece, Least
  <2> QED
    BY <1>2, <2>1, <2>2, SMT
<1> HIDE DEF h, new, upto
<1>7. /\ reader' = new
      /\ pos' = [pos EXCEPT ![k] = upto]
      /\ current' = [d \in ChunkStreamIDs |->
           CASE d \in (IF ends THEN cut ELSE {}) \/ (d = k /\ ends) -> NoMessage
             [] d = k /\ ~ends -> m
             [] OTHER -> current[d]]
      /\ last' = [d \in ChunkStreamIDs |->
           CASE d = k -> l
             [] d \in (IF ends THEN cut ELSE {}) -> [last[d] EXCEPT !.broken = TRUE]
             [] OTHER -> last[d]]
      /\ done' = IF ends THEN Append(done, m) ELSE done
      /\ size' = IF ends /\ m.typ = SetChunkSizeType THEN v ELSE size
  BY DEF Send, new, upto
<1>8. Matches(l, Holding(h, m, upto)) /\ Matches(l, Cleared(h)) /\ Idle(Cleared(h))
      /\ Holding(h, m, upto) \in ReaderStreamType /\ Cleared(h) \in ReaderStreamType
  <2>1. /\ Matches(l, h) /\ m.body \in Bodies
    BY MessageType DEF h
  <2>2. /\ Holding(h, m, upto).avail = h.avail /\ Holding(h, m, upto).ts = h.ts
        /\ Holding(h, m, upto).delta = h.delta /\ Holding(h, m, upto).typ = h.typ
        /\ Holding(h, m, upto).msid = h.msid /\ Holding(h, m, upto).len = h.len
        /\ Holding(h, m, upto).ext = h.ext
    BY <1>3 DEF Holding, ReaderStreamType
  <2>3. /\ Cleared(h).avail = h.avail /\ Cleared(h).ts = h.ts
        /\ Cleared(h).delta = h.delta /\ Cleared(h).typ = h.typ
        /\ Cleared(h).msid = h.msid /\ Cleared(h).len = h.len
        /\ Cleared(h).ext = h.ext /\ Idle(Cleared(h))
    BY <1>3 DEF Cleared, ReaderStreamType, Idle
  <2>4. Holding(h, m, upto) \in ReaderStreamType /\ Cleared(h) \in ReaderStreamType
    BY <1>3, <1>6, <2>1, ClearedType DEF Holding, ReaderStreamType
  <2> QED
    BY <2>1, <2>2, <2>3, <2>4 DEF Matches
<1>9. \A d \in ChunkStreamIDs :
        /\ last[d] \in LastType /\ pos[d] \in Nat
        /\ reader.streams[d] \in ReaderStreamType
        /\ current[d] \in Messages \cup {NoMessage}
        /\ current[d] # NoMessage => current[d].csid = d
        /\ Followed(last[d], current[d], pos[d], reader.streams[d])
  BY <1>1 DEF FollowInv, StreamsFollowed, Types, ReaderType
<1>10. size' \in Nat /\ size' >= 1
  <2>1. m.typ = SetChunkSizeType => v \in Nat /\ v >= 1
    BY MessagesAssumption, FormatAssumption, SMT
  <2> QED
    BY <1>1, <1>7, <2>1
<1>11. Types'
  <2>1. last' \in [ChunkStreamIDs -> LastType]
    <3>1. \A d \in ChunkStreamIDs : [last[d] EXCEPT !.broken = TRUE] \in LastType
      BY <1>9 DEF LastType
    <3> QED
      BY <1>7, <1>9, <3>1
  <2>2. current' \in [ChunkStreamIDs -> Messages \cup {NoMessage}]
    BY <1>7, <1>9
  <2>3. pos' \in [ChunkStreamIDs -> Nat]
    BY <1>1, <1>2, <1>6, <1>7 DEF Types
  <2>4. done' \in Seq(Messages)
    BY <1>1, <1>7 DEF Types
  <2> QED
    BY <1>5, <1>7, <1>10, <2>1, <2>2, <2>3, <2>4 DEF Types
<1>12. reader'.size = size' /\ Follows' /\ Reassembled'
  <2>1. CASE ~ends
    <3>1. new.size = reader.size /\ new.got = reader.got
      BY <1>1, <1>4, <2>1 DEF ReaderType
    <3> QED
      BY <1>1, <1>4, <1>7, <2>1, <3>1 DEF FollowInv, Follows, Reassembled
  <2>2. CASE ends
    <3>1. new.size = size'
      BY <1>1, <1>4, <1>7, <2>2 DEF SizeAfter
    <3>2. Stamped(m, h.ts) = AsReceived(m)
      <4>1. h.ts = U32(m.ts)
        BY DEF h
      <4> QED
        BY <4>1, StampedExactly
    <3>3. new.got = Append(reader.got, AsReceived(m)) /\ done' = Append(done, m)
      BY <1>4, <1>7, <2>2, <3>2
    <3>4. Reassembled'
      <4>1. /\ Len(reader.got) = Len(done) /\ Len(done) \in Nat
            /\ \A i \in 1..Len(done) : reader.got[i] = AsReceived(done[i])
        BY <1>1 DEF FollowInv, Reassembled, Types
      <4>2. /\ Len(new.got) = Len(done) + 1 /\ Len(done') = Len(done) + 1
            /\ \A i \in 1..Len(done) : new.got[i] = reader.got[i] /\ done'[i] = done[i]
            /\ new.got[Len(done) + 1] = AsReceived(m) /\ done'[Len(done) + 1] = m
            /\ DOMAIN done' = 1..(Len(done) + 1)
        BY <1>1, <3>3, <4>1 DEF Types, ReaderType
      <4>3. \A i \in 1..(Len(done) + 1) : i \in 1..Len(done) \/ i = Len(done) + 1
        BY <4>1, SMT
      <4>4. \A i \in 1..(Len(done) + 1) : new.got[i] = AsReceived(done'[i])
        BY <4>1, <4>2, <4>3, Zenon
      <4> QED
        BY <1>7, <4>2, <4>4 DEF Reassembled
    <3> QED
      BY <1>4, <1>7, <3>1, <3>4 DEF Follows
  <2> QED
    BY <2>1, <2>2
<1>13. StreamsFollowed'
  <2>1. CASE ~ends
    <3>1. \A d \in ChunkStreamIDs :
            /\ current'[d] = (IF d = k THEN m ELSE current[d])
            /\ last'[d] = (IF d = k THEN l ELSE last[d])
            /\ pos'[d] = (IF d = k THEN upto ELSE pos[d])
            /\ new.streams[d] = (IF d = k THEN Holding(h, m, upto) ELSE reader.streams[d])
      <4>1. new.streams = [reader.streams EXCEPT ![k] = Holding(h, m, upto)]
        BY <1>1, <1>4, <2>1 DEF ReaderType
      <4>2. \A d \in ChunkStreamIDs :
              /\ current'[d] = (IF d = k THEN m ELSE current[d])
              /\ last'[d] = (IF d = k THEN l ELSE last[d])
        BY <1>7, <2>1
      <4> QED
        BY <1>1, <1>7, <4>1, <4>2 DEF Types, ReaderType
    <3>2. Followed(l, m, upto, Holding(h, m, upto))
      <4>1. m # NoMessage
        BY SenderAssumption
      <4>2. /\ Collecting(Holding(h, m, upto), m, upto)
            /\ HasHeader(Holding(h, m, upto), m) /\ Holding(h, m, upto).ts = U32(m.ts)
        <5>1. upto # 0
          BY <1>6, <2>1
        <5>2. HasHeader(h, m) /\ h.ts = U32(m.ts)
          BY DEF h
        <5> QED
          BY <1>3, <5>1, <5>2
          DEF Collecting, Collected, Holding, ReaderStreamType, HasHeader
      <4> QED
        BY <1>6, <1>8, <2>1, <4>1, <4>2 DEF Followed
    <3> QED
      BY <1>2, <1>7, <1>9, <3>1, <3>2 DEF StreamsFollowed
  <2>2. CASE ends
    <3> DEFINE mid == [reader.streams EXCEPT ![k] = Cleared(h)]
    <3>1. /\ mid \in [ChunkStreamIDs -> ReaderStreamType]
          /\ mid[k] = Cleared(h) /\ \A d \in ChunkStreamIDs \ {k} : mid[d] = reader.streams[d]
      BY <1>1, <1>2, <1>8 DEF ReaderType
    <3> HIDE DEF mid
    <3>2. new.streams = StreamsAfter(m, mid)
      BY <1>4, <2>2 DEF mid
    <3>3. \A d \in ChunkStreamIDs :
            new.streams[d] = IF m.typ = AbortMessageType /\ d = v THEN Aborted(mid[d]) ELSE mid[d]
      BY <3>1, <3>2 DEF StreamsAfter
    <3>4. \A d \in ChunkStreamIDs :
            d \in cut <=> d # k /\ m.typ = AbortMessageType /\ d = v /\ current[d] # NoMessage
      BY DEF CutShort
    <3>5. \A d \in ChunkStreamIDs :
            /\ current'[d] = (IF d \in cut \/ d = k THEN NoMessage ELSE current[d])
            /\ last'[d] = (IF d = k THEN l
                           ELSE IF d \in cut THEN [last[d] EXCEPT !.broken = TRUE] ELSE last[d])
            /\ pos'[d] = (IF d = k THEN upto ELSE pos[d])
      <4>1. \A d \in ChunkStreamIDs : pos'[d] = (IF d = k THEN upto ELSE pos[d])
        BY <1>1, <1>7 DEF Types
      <4>2. \A d \in ChunkStreamIDs :
              current'[d] = (IF d \in cut \/ d = k THEN NoMessage ELSE current[d])
        <5> HIDE DEF cut
        <5> QED
          BY <1>7, <2>2
      <4>3. \A d \in ChunkStreamIDs :
              last'[d] = (IF d = k THEN l
                          ELSE IF d \in cut THEN [last[d] EXCEPT !.broken = TRUE] ELSE last[d])
        <5> DEFINE broken(d) == [last[d] EXCEPT !.broken = TRUE]
        <5>1. \A d \in ChunkStreamIDs :
                last'[d] = (CASE d = k -> l
                              [] d \in (IF ends THEN cut ELSE {}) -> broken(d)
                              [] OTHER -> last[d])
          BY <1>7
        <5> HIDE DEF cut, broken
        <5>2. \A d \in ChunkStreamIDs :
                last'[d] = (IF d = k THEN l ELSE IF d \in cut THEN broken(d) ELSE last[d])
          <6>1. k \notin cut
            BY DEF cut, CutShort
          <6> QED
            BY <2>2, <5>1, <6>1
        <5> QED
          BY <5>2 DEF broken
      <4> QED
        BY <4>1, <4>2, <4>3
    <3>6. ASSUME NEW d \in ChunkStreamIDs
          PROVE  Followed(last'[d], current'[d], pos'[d], new.streams[d])
      <4>1. CASE d = k
        <5>1. Aborted(Cleared(h)) = Cleared(h)
          BY <1>8 DEF Aborted, Idle
        <5>2. new.streams[d] = Cleared(h)
          BY <3>1, <3>3, <4>1, <5>1
        <5>3. last'[d] = l /\ current'[d] = NoMessage
          BY <3>5, <4>1
        <5> QED
          BY <1>8, <5>2, <5>3 DEF Followed
      <4>2. CASE d # k /\ d \in cut
        <5>1. new.streams[d] = Aborted(reader.streams[d]) /\ current[d] # NoMessage
          BY <3>1, <3>3, <3>4, <4>2
        <5>2. /\ last'[d] = [last[d] EXCEPT !.broken = TRUE]
              /\ current'[d] = NoMessage /\ pos'[d] = pos[d]
          BY <3>5, <4>2
        <5> QED
          BY <1>9, <5>1, <5>2, Cut
      <4>3. CASE d # k /\ d \notin cut
        <5>1. new.streams[d] = reader.streams[d]
          <6>1. CASE m.typ = AbortMessageType /\ d = v
            <7>1. current[d] = NoMessage
              BY <3>4, <4>3, <6>1
            <7>2. Aborted(reader.streams[d]) = reader.streams[d]
              <8>1. reader.streams[d].recv = 0
                BY <1>9, <7>1 DEF Followed, Idle
              <8> QED
                BY <8>1 DEF Aborted
            <7> QED
              BY <3>1, <3>3, <4>3, <6>1, <7>2
          <6>2. CASE ~(m.typ = AbortMessageType /\ d = v)
            BY <3>1, <3>3, <4>3, <6>2
          <6> QED
            BY <6>1, <6>2
        <5>2. last'[d] = last[d] /\ current'[d] = current[d] /\ pos'[d] = pos[d]
          BY <3>5, <4>3
        <5> QED
          BY <1>9, <5>1, <5>2
      <4> QED
        BY <4>1, <4>2, <4>3
    <3>7. \A d \in ChunkStreamIDs : current'[d] # NoMessage => current'[d].csid = d
      BY <1>9, <3>5
    <3> QED
      BY <1>7, <3>6, <3>7 DEF StreamsFollowed
  <2> QED
    BY <2>1, <2>2
<1> QED
  BY <1>11, <1>12, <1>13 DEF FollowInv

LEMMA NextFollow ==
  ASSUME ~Inherit, FollowInv, [Next]_vars
  PROVE  FollowInv'
<1>1. /\ Types /\ reader \in ReaderType /\ size \in Nat
      /\ \A d \in ChunkStreamIDs :
           /\ last[d] \in LastType
           /\ reader.streams[d] \in ReaderStreamType
           /\ Followed(last[d], current[d], pos[d], reader.streams[d])
           /\ current[d] # NoMessage => current[d].csid = d
  BY DEF FollowInv, StreamsFollowed, Types, ReaderType
<1>2. ASSUME NEW m \in Messages, NEW fmt \in 0..3, Begin(m, fmt)
      PROVE  FollowInv'
  <2>1. /\ m.csid \in ChunkStreamIDs /\ m.len \in Nat
        /\ current[m.csid] = NoMessage /\ Allowed(fmt, last[m.csid], m)
    BY <1>2, MessageType DEF Begin
  <2>2. Matches(last[m.csid], reader.streams[m.csid]) /\ Idle(reader.streams[m.csid])
    BY <1>1, <2>1 DEF Followed
  <2>3. PICK c \in Chunk : c = Opening(fmt, last[m.csid], m)
    BY <1>1, <2>1, <2>2, OpeningUnderstood
  <2>4. PICK l \in LastType : l = Opened(fmt, last[m.csid], m)
    BY <1>1, <2>1, <2>2, OpeningUnderstood
  <2>5. /\ c.csid = m.csid /\ c.frag = Piece(m, 0, size)
        /\ ~Refuses(reader.streams[m.csid], c)
        /\ c.fmt = 3 => c.ext = reader.streams[m.csid].ext
        /\ HasHeader(TakeHeader(reader.streams[m.csid], c), m)
        /\ TakeHeader(reader.streams[m.csid], c).ts = U32(m.ts)
        /\ Matches(l, TakeHeader(reader.streams[m.csid], c))
        /\ l.used /\ ~l.broken
    BY <1>1, <2>1, <2>2, <2>3, <2>4, OpeningUnderstood
  <2>6. Send(m, l, c, 0 + c.frag.len)
    <3>1. c.frag.len \in Nat
      BY ChunkFields
    <3>2. 0 + c.frag.len = c.frag.len
      BY <3>1
    <3> QED
      BY <1>2, <2>3, <2>4, <3>2 DEF Begin
  <2>7. Collecting(reader.streams[m.csid], m, 0)
    BY <2>2 DEF Collecting, Collected, Idle
  <2>8. 0 \in 0..m.len /\ (0 # m.len \/ m.len = 0)
    BY <2>1, SMT
  <2> QED
    BY <2>1, <2>5, <2>6, <2>7, <2>8, Sent
<1>3. ASSUME NEW k \in ChunkStreamIDs, Continue(k)
      PROVE  FollowInv'
  <2>1. PICK m \in Messages : m = current[k]
    BY <1>1, <1>3 DEF Continue, Types
  <2>2. /\ m # NoMessage /\ m.csid = k /\ m.len \in Nat
    BY <1>1, <1>3, <2>1, MessageType DEF Continue
  <2>3. PICK l \in LastType : l = last[k]
    BY <1>1
  <2>4. PICK n \in 0..m.len : n = pos[k] /\ n > 0 /\ n # m.len
    <3>1. pos[k] \in Nat /\ pos[k] > 0 /\ pos[k] < m.len
      BY <1>1, <2>1, <2>2 DEF Followed, Types
    <3> QED
      BY <2>2, <3>1
  <2>5. /\ Matches(l, reader.streams[k]) /\ l.used /\ ~l.broken
        /\ Collecting(reader.streams[k], m, n) /\ HasHeader(reader.streams[k], m)
        /\ reader.streams[k].ts = U32(m.ts)
    BY <1>1, <2>1, <2>2, <2>3, <2>4 DEF Followed
  <2>6. Chunk3(m, l.ext, Piece(m, n, size)) \in Chunk
    <3>1. Piece(m, n, size) \in Fragment
      BY <1>1, PieceType
    <3> QED
      BY <2>2, <3>1 DEF Chunk3, Chunk, LastType
  <2>7. PICK c \in Chunk : c = Chunk3(m, l.ext, Piece(m, n, size))
    BY <2>6
  <2>8. /\ c.fmt = 3 /\ c.csid = m.csid /\ c.ext = l.ext /\ c.frag = Piece(m, n, size)
    BY <2>7 DEF Chunk3
  <2>9. TakeHeader(reader.streams[k], c) = reader.streams[k]
    BY <2>4, <2>5, <2>8 DEF TakeHeader, Collecting
  <2>10. ~Refuses(reader.streams[k], c) /\ c.ext = reader.streams[k].ext
    BY <2>5, <2>8 DEF Refuses, HasHeader, Matches
  <2>11. Send(m, l, c, n + c.frag.len)
    BY <1>3, <2>1, <2>3, <2>4, <2>7 DEF Continue
  <2> QED
    BY <2>1, <2>2, <2>4, <2>5, <2>8, <2>9, <2>10, <2>11, Sent
<1>4. CASE UNCHANGED vars
  BY <1>4 DEF vars, FollowInv, Types, StreamsFollowed, Follows, Reassembled
<1> QED
  BY <1>2, <1>3, <1>4 DEF Next

LEMMA Following ==
  ASSUME ~Inherit
  PROVE  Spec => []FollowInv
<1>1. FollowInv /\ [Next]_vars => FollowInv'
  BY NextFollow
<1> QED
  BY <1>1, InitFollow, PTL DEF Spec

\* However a sender that repeats the header after an abort interleaves its chunk
\* streams, changes the chunk size and aborts messages, the reader takes the
\* right number of bytes of every chunk and refuses none (reader.go:72-234,
\* 294-305).
THEOREM AlwaysFollows ==
  ASSUME ~Inherit
  PROVE  Spec => []Follows
<1>1. FollowInv => Follows
  BY DEF FollowInv
<1> QED
  BY <1>1, Following, PTL

\* To the same sender, the reader returns the messages in the order in which
\* they are completed, each with its own header values and bytes, and of an
\* aborted one nothing (reader.go:18-25, 42-46).
THEOREM AlwaysReassembled ==
  ASSUME ~Inherit
  PROVE  Spec => []Reassembled
<1>1. FollowInv => Reassembled
  BY DEF FollowInv
<1> QED
  BY <1>1, Following, PTL
===============================================================================
