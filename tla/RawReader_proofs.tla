--------------------------- MODULE RawReader_proofs ---------------------------
(***************************************************************************)
(* Lemmas on remainders, which counters and timestamps are, and about the  *)
(* formats and the reader, that any sender can use: types, and what a      *)
(* chunk does to a reader that has collected the bytes before it.          *)
(***************************************************************************)
EXTENDS RawReader, TLAPS

(***************************************************************************)
(* Arithmetic of counters and timestamps that wrap.                        *)
(***************************************************************************)
\* What a division leaves.
LEMMA Division ==
  ASSUME NEW n \in Int, NEW k \in Nat \ {0}
  PROVE  n \div k \in Int /\ n = k * (n \div k) + (n % k) /\ n % k \in 0..(k - 1)
BY SMT

\* The only multiple of k within k of zero is zero.
LEMMA NoMultiple ==
  ASSUME NEW q \in Int, NEW k \in Nat \ {0}, k * q < k, -k < k * q
  PROVE  q = 0
<1>1. CASE q >= 1
  <2>1. k * (q - 1) >= 0
    BY <1>1, SMT
  <2> QED
    BY <1>1, <2>1, SMT
<1>2. CASE q <= -1
  <2>1. k * (-1 - q) >= 0
    BY <1>2, SMT
  <2> QED
    BY <1>2, <2>1, SMT
<1> QED
  BY <1>1, <1>2, SMT

\* A number within 0..(k - 1) of a multiple of k is the remainder.
LEMMA Remainder ==
  ASSUME NEW n \in Int, NEW q \in Int, NEW k \in Nat \ {0}, NEW r \in 0..(k - 1),
         n = k * q + r
  PROVE  n % k = r
<1>1. /\ n = k * (n \div k) + (n % k) /\ n % k \in 0..(k - 1) /\ n \div k \in Int
  BY Division
<1>2. k * (q - (n \div k)) = (n % k) - r
  BY <1>1, SMT
<1>3. q - (n \div k) = 0
  BY <1>1, <1>2, NoMultiple, SMT
<1> QED
  BY <1>1, <1>2, <1>3, SMT

\* Multiples do not count.
LEMMA SameRemainder ==
  ASSUME NEW n \in Int, NEW q \in Int, NEW k \in Nat \ {0}
  PROVE  (n + k * q) % k = n % k
<1>1. /\ n = k * (n \div k) + (n % k) /\ n % k \in 0..(k - 1) /\ n \div k \in Int
  BY Division
<1>2. n + k * q \in Int /\ n + k * q = k * ((n \div k) + q) + (n % k)
  BY <1>1, SMT
<1>3. (n \div k) + q \in Int
  BY <1>1, SMT
<1> QED
  BY <1>1, <1>2, <1>3, Remainder

\* Sums and differences may be wrapped at any moment.
LEMMA RemainderOfSum ==
  ASSUME NEW a \in Int, NEW b \in Int, NEW k \in Nat \ {0}
  PROVE  /\ ((a % k) + (b % k)) % k = (a + b) % k
         /\ ((a % k) + b) % k = (a + b) % k
         /\ ((a % k) - (b % k)) % k = (a - b) % k
<1> DEFINE p == a \div k
           q == b \div k
           x == a % k
           y == b % k
<1>1. /\ a = k * p + x /\ x \in Int /\ p \in Int
      /\ b = k * q + y /\ y \in Int /\ q \in Int
  BY Division, SMT
<1> HIDE DEF p, q, x, y
<1>2. /\ a + b = (x + y) + k * (p + q) /\ x + y \in Int /\ p + q \in Int
      /\ a + b = (x + b) + k * p /\ x + b \in Int /\ p \in Int
      /\ a - b = (x - y) + k * (p - q) /\ x - y \in Int /\ p - q \in Int
  BY <1>1, SMT
<1>3. ((x + y) + k * (p + q)) % k = (x + y) % k
  BY <1>2, SameRemainder
<1>4. ((x + b) + k * p) % k = (x + b) % k
  <2>1. x + b \in Int /\ p \in Int
    BY <1>2
  <2> QED
    BY <2>1, SameRemainder
<1>5. ((x - y) + k * (p - q)) % k = (x - y) % k
  BY <1>2, SameRemainder
<1>6. (x + y) % k = (a + b) % k /\ (x + b) % k = (a + b) % k /\ (x - y) % k = (a - b) % k
  BY <1>2, <1>3, <1>4, <1>5
<1> QED
  BY <1>6 DEF x, y

\* A small number is its own remainder.
LEMMA SmallRemainder ==
  ASSUME NEW k \in Nat \ {0}, NEW n \in 0..(k - 1)
  PROVE  n % k = n
<1>1. n \in Int /\ n = k * 0 + n
  BY SMT
<1> QED
  BY <1>1, Remainder

(***************************************************************************)
(* Timestamps, messages and fragments.                                     *)
(***************************************************************************)

\* A truncated timestamp is a 32-bit timestamp.
LEMMA U32Type == ASSUME NEW n \in Int PROVE U32(n) \in 0..(TsMod - 1)
BY FormatAssumption, SMT DEF U32

\* A message of the application is a message, its body no longer than the limit.
LEMMA MessageType ==
  ASSUME NEW m \in Messages
  PROVE  /\ m \in Message
         /\ m.csid \in ChunkStreamIDs /\ m.msid \in Nat /\ m.typ \in Nat
         /\ m.ts \in Int /\ m.len \in Nat /\ m.body \in Bodies
BY MessagesAssumption DEF Message

\* A fragment is a range of bytes of its message.
LEMMA PieceType ==
  ASSUME NEW m \in Messages, NEW p \in 0..m.len, NEW size \in Nat
  PROVE  /\ Piece(m, p, size) \in Fragment
         /\ p + Piece(m, p, size).len \in 0..m.len
<1>1. m.len \in Nat /\ m.body \in Bodies
  BY MessageType
<1>2. Least(m.len - p, size) \in 0..(m.len - p)
  BY <1>1, SMT DEF Least
<1> QED
  BY <1>1, <1>2, SMT DEF Piece, Fragment

(***************************************************************************)
(* Types of what the reader's operators return.                            *)
(***************************************************************************)

\* The parts of a chunk a reader uses, whichever its format.
LEMMA ChunkFields ==
  ASSUME NEW c \in Chunk
  PROVE  /\ c.fmt \in 0..3
         /\ c.csid \in ChunkStreamIDs
         /\ c.frag \in Fragment
         /\ c.frag.of \in Bodies /\ c.frag.from \in Nat /\ c.frag.len \in Nat
         /\ c.fmt \in {0, 1, 2} => c.ts \in 0..(TsMod - 1)
         /\ c.fmt \in {0, 1} => c.typ \in Nat /\ c.len \in Nat
         /\ c.fmt = 0 => c.msid \in Nat
BY DEF Chunk, Fragment

\* Reading a header keeps the state of the chunk stream of its type.
LEMMA TakeHeaderType ==
  ASSUME NEW rs \in ReaderStreamType, NEW c \in Chunk
  PROVE  /\ TakeHeader(rs, c) \in ReaderStreamType
         /\ TakeHeader(rs, c).recv = rs.recv
         /\ TakeHeader(rs, c).part = rs.part
<1>1. /\ rs.ts \in Int /\ rs.delta \in Int /\ rs.recv \in Nat
      /\ \A n \in 0..(TsMod - 1) : n \in Int /\ Extended(n) \in BOOLEAN
  BY FormatAssumption, SMT DEF ReaderStreamType, Extended
<1>2. c.fmt \in 0..3
  BY ChunkFields
<1>3. CASE c.fmt = 0
  <2>1. TakeHeader(rs, c) =
          [rs EXCEPT !.avail = TRUE, !.msid = c.msid, !.typ = c.typ, !.ts = c.ts,
                     !.delta = 0, !.len = c.len, !.ext = Extended(c.ts)]
    BY <1>3 DEF TakeHeader
  <2>2. /\ c.msid \in Nat /\ c.typ \in Nat /\ c.len \in Nat
        /\ c.ts \in 0..(TsMod - 1) /\ Extended(c.ts) \in BOOLEAN
        /\ 0 \in 0..(TsMod - 1)
    BY <1>1, <1>3, ChunkFields, FormatAssumption, SMT
  <2> QED
    BY <2>1, <2>2 DEF ReaderStreamType
<1>4. CASE c.fmt \in {1, 2}
  <2>1. c.ts \in 0..(TsMod - 1) /\ Extended(c.ts) \in BOOLEAN
    BY <1>1, <1>4, ChunkFields
  <2>2. U32(rs.ts + c.ts) \in 0..(TsMod - 1)
    <3>1. rs.ts + c.ts \in Int
      BY <1>1, <2>1, SMT
    <3> QED
      BY <3>1, U32Type
  <2>3. CASE c.fmt = 1
    <3>1. TakeHeader(rs, c) =
            [rs EXCEPT !.typ = c.typ, !.ts = U32(rs.ts + c.ts), !.delta = c.ts,
                       !.len = c.len, !.ext = Extended(c.ts)]
      BY <2>3 DEF TakeHeader
    <3>2. c.typ \in Nat /\ c.len \in Nat
      BY <2>3, ChunkFields
    <3> QED
      BY <2>1, <2>2, <3>1, <3>2 DEF ReaderStreamType
  <2>4. CASE c.fmt = 2
    <3>1. TakeHeader(rs, c) =
            [rs EXCEPT !.ts = U32(rs.ts + c.ts), !.delta = c.ts,
                       !.ext = Extended(c.ts)]
      BY <2>4 DEF TakeHeader
    <3> QED
      BY <2>1, <2>2, <3>1 DEF ReaderStreamType
  <2> QED
    BY <1>4, <2>3, <2>4
<1>5. CASE c.fmt = 3
  <2>1. U32(rs.ts + rs.delta) \in 0..(TsMod - 1)
    <3>1. rs.ts + rs.delta \in Int
      BY <1>1, SMT
    <3> QED
      BY <3>1, U32Type
  <2> QED
    BY <2>1, <1>5 DEF TakeHeader, ReaderStreamType
<1> QED
  BY <1>2, <1>3, <1>4, <1>5, SMT

\* So does taking a fragment.
LEMMA TakeFragmentType ==
  ASSUME NEW rs \in ReaderStreamType, NEW f \in Fragment
  PROVE  TakeFragment(rs, f) \in ReaderStreamType
<1>1. /\ f.of \in Bodies /\ f.from \in Nat /\ f.len \in Nat
      /\ rs.recv \in Nat /\ rs.part.upto \in Nat
  BY DEF Fragment, ReaderStreamType
<1>2. /\ f.from + f.len \in Nat
      /\ rs.part.upto + f.len \in Nat
      /\ rs.recv + f.len \in Nat
  BY <1>1, SMT
<1>3. Join(rs.part, f) \in [of : Bodies \cup {NoBody, Garbled}, upto : Nat]
  BY <1>1, <1>2 DEF Join
<1> QED
  BY <1>2, <1>3 DEF TakeFragment, ReaderStreamType

LEMMA ClearedType ==
  ASSUME NEW rs \in ReaderStreamType
  PROVE  Cleared(rs) \in ReaderStreamType /\ Aborted(rs) \in ReaderStreamType
BY DEF Cleared, Aborted, NoPart, ReaderStreamType

LEMMA AssembledType ==
  ASSUME NEW rs \in ReaderStreamType, NEW c \in ChunkStreamIDs
  PROVE  Assembled(c, rs) \in ReceivedMessage
<1>1. rs.ts \in Nat
  BY FormatAssumption, SMT DEF ReaderStreamType
<1> QED
  BY <1>1 DEF Assembled, ReaderStreamType, ReceivedMessage

\* A reader that has applied and returned a message is still a reader.
LEMMA DeliverType ==
  ASSUME NEW rd \in ReaderType, NEW m \in ReceivedMessage
  PROVE  Deliver(rd, m) \in ReaderType
<1>1. Apply(rd, m) \in ReaderType /\ Apply(rd, m).got = rd.got
  <2>1. CASE m.typ \notin {SetChunkSizeType, AbortMessageType}
    BY <2>1 DEF Apply
  <2>2. CASE m.typ \in {SetChunkSizeType, AbortMessageType} /\ m.body \notin Bodies
    <3>1. Apply(rd, m) = [rd EXCEPT !.state = "lost"]
      BY <2>2 DEF Apply, SetChunkSizeType, AbortMessageType
    <3> QED
      BY <3>1 DEF ReaderType
  <2>3. CASE m.typ \in {SetChunkSizeType, AbortMessageType} /\ m.body \in Bodies
    <3>1. Value[m.body] \in Nat
      BY <2>3, FormatAssumption
    <3>2. CASE m.typ = SetChunkSizeType
      <4>1. Apply(rd, m) = ApplySetChunkSize(rd, Value[m.body])
        BY <2>3, <3>2 DEF Apply
      <4>2. \/ Apply(rd, m) = [rd EXCEPT !.state = "refused"]
            \/ Apply(rd, m) = [rd EXCEPT !.size = Value[m.body]]
        BY <4>1 DEF ApplySetChunkSize
      <4> QED
        BY <4>2, <3>1 DEF ReaderType
    <3>3. CASE m.typ = AbortMessageType
      <4>1. Apply(rd, m) = ApplyAbort(rd, Value[m.body])
        BY <2>3, <3>3 DEF Apply, SetChunkSizeType, AbortMessageType
      <4>2. CASE Value[m.body] \in ChunkStreamIDs
        <5>1. Aborted(rd.streams[Value[m.body]]) \in ReaderStreamType
          BY <4>2, ClearedType DEF ReaderType
        <5> QED
          BY <4>1, <4>2, <5>1 DEF ApplyAbort, ReaderType
      <4>3. CASE Value[m.body] \notin ChunkStreamIDs
        BY <4>1, <4>3 DEF ApplyAbort
      <4> QED
        BY <4>2, <4>3
    <3> QED
      BY <2>3, <3>2, <3>3
  <2> QED
    BY <2>1, <2>2, <2>3
<1>2. Append(rd.got, m) \in Seq(ReceivedMessage)
  BY DEF ReaderType
<1> QED
  BY <1>1, <1>2 DEF Deliver, ReaderType

\* Whatever a chunk does to a reader, it leaves a reader.
LEMMA ReceiveType ==
  ASSUME NEW rd \in ReaderType, NEW c \in Chunk
  PROVE  Receive(rd, c) \in ReaderType
<1> DEFINE rs == TakeFragment(TakeHeader(rd.streams[c.csid], c), c.frag)
           done == [rd EXCEPT !.streams[c.csid] = Cleared(rs)]
<1>1. c.csid \in ChunkStreamIDs /\ rd.streams[c.csid] \in ReaderStreamType
  BY ChunkFields DEF ReaderType
<1>2. rs \in ReaderStreamType
  BY <1>1, ChunkFields, TakeHeaderType, TakeFragmentType
<1>3. Accept(rd, c) \in ReaderType
  <2>1. [rd EXCEPT !.state = "refused"] \in ReaderType
    BY DEF ReaderType
  <2>2. [rd EXCEPT !.streams[c.csid] = rs] \in ReaderType
    BY <1>1, <1>2 DEF ReaderType
  <2>3. Deliver(done, Assembled(c.csid, rs)) \in ReaderType
    <3>1. Cleared(rs) \in ReaderStreamType
      BY <1>2, ClearedType
    <3>2. done \in ReaderType
      BY <1>1, <3>1 DEF ReaderType
    <3>3. Assembled(c.csid, rs) \in ReceivedMessage
      BY <1>1, <1>2, AssembledType
    <3> QED
      BY <3>2, <3>3, DeliverType
  <2>4. \/ Accept(rd, c) = [rd EXCEPT !.state = "refused"]
        \/ Accept(rd, c) = [rd EXCEPT !.streams[c.csid] = rs]
        \/ Accept(rd, c) = Deliver(done, Assembled(c.csid, rs))
    BY DEF Accept
  <2> QED
    BY <2>1, <2>2, <2>3, <2>4
<1> QED
  BY <1>3 DEF Receive, ReaderType

(***************************************************************************)
(* What a reader makes of the next bytes of a message.                     *)
(***************************************************************************)

\* The timestamps of the reader are those of the sender, truncated.
LEMMA U32Sum ==
  ASSUME NEW a \in Int, NEW b \in Int
  PROVE  U32(U32(a) + U32(b)) = U32(a + b)
BY FormatAssumption, RemainderOfSum DEF U32

\* What a chunk stream has collected of message m after n bytes of it.
Collected(m, n) == IF n = 0 THEN NoPart ELSE [of |-> m.body, upto |-> n]
Collecting(rs, m, n) == rs.recv = n /\ rs.part = Collected(m, n)
Holding(rs, m, n) ==
  [rs EXCEPT !.recv = n, !.part = [of |-> m.body, upto |-> n]]
Idle(rs) == rs.recv = 0 /\ rs.part = NoPart

\* The values of a message that come in headers, the timestamp apart.
HasHeader(rs, m) == rs.avail /\ rs.msid = m.msid /\ rs.typ = m.typ /\ rs.len = m.len

\* The message as it is returned with timestamp t.
Stamped(m, t) == [AsReceived(m) EXCEPT !.ts = t]

\* Its fields.
LEMMA StampedFields ==
  ASSUME NEW m \in Messages, NEW t
  PROVE  Stamped(m, t) = [csid |-> m.csid, msid |-> m.msid, typ |-> m.typ, ts |-> t,
                          len |-> m.len, body |-> m.body]
<1>1. m = [csid |-> m.csid, msid |-> m.msid, typ |-> m.typ, ts |-> m.ts,
           len |-> m.len, body |-> m.body]
  BY MessageType DEF Message
<1>2. AsReceived(m) = [csid |-> m.csid, msid |-> m.msid, typ |-> m.typ, ts |-> U32(m.ts),
                       len |-> m.len, body |-> m.body]
  BY <1>1 DEF AsReceived
<1> QED
  BY <1>2 DEF Stamped

\* With the timestamp of m, truncated, it is m as it must be received.
LEMMA StampedExactly ==
  ASSUME NEW m \in Messages
  PROVE  Stamped(m, U32(m.ts)) = AsReceived(m)
<1>1. m = [csid |-> m.csid, msid |-> m.msid, typ |-> m.typ, ts |-> m.ts,
           len |-> m.len, body |-> m.body]
  BY MessageType DEF Message
<1>2. AsReceived(m) = [csid |-> m.csid, msid |-> m.msid, typ |-> m.typ, ts |-> U32(m.ts),
                       len |-> m.len, body |-> m.body]
  BY <1>1 DEF AsReceived
<1> QED
  BY <1>2, StampedFields

\* A chunk with the bytes of m from byte n on, in a form the stream takes.
LEMMA Fits ==
  ASSUME NEW rs \in ReaderStreamType, NEW m \in Messages, NEW n \in 0..m.len,
         NEW c \in Chunk, NEW size \in Nat,
         c.frag = Piece(m, n, size),
         rs.recv = n,
         TakeHeader(rs, c).len = m.len,
         c.fmt = 3 => c.ext = rs.ext
  PROVE  InFrame(rs, c, size)
<1>1. m.len \in Nat /\ c.fmt \in 0..3
  BY MessageType, ChunkFields
<1>2. (IF c.fmt \in {0, 1} THEN c.len ELSE rs.len) = m.len
  <2>1. CASE c.fmt \in {0, 1}
    BY <2>1, ChunkFields DEF TakeHeader, ReaderStreamType
  <2>2. CASE c.fmt \in {2, 3}
    BY <2>2 DEF TakeHeader, ReaderStreamType
  <2> QED
    BY <1>1, <2>1, <2>2, SMT
<1> QED
  BY <1>1, <1>2 DEF InFrame, Wanted, Piece

\* The stream that takes it.
LEMMA Taken ==
  ASSUME NEW rs \in ReaderStreamType, NEW m \in Messages, NEW n \in 0..m.len,
         NEW size \in Nat, Collecting(rs, m, n)
  PROVE  TakeFragment(rs, Piece(m, n, size)) = Holding(rs, m, n + Piece(m, n, size).len)
<1>1. /\ m.body \in Bodies /\ n \in Nat
      /\ Piece(m, n, size).of = m.body /\ Piece(m, n, size).from = n
  BY MessageType, SMT DEF Piece
<1>2. Join(rs.part, Piece(m, n, size)) = [of |-> m.body, upto |-> n + Piece(m, n, size).len]
  BY <1>1 DEF Join, Collecting, Collected, NoPart
<1> QED
  BY <1>2 DEF TakeFragment, Collecting, Holding

\* What a message changes once it is read: the chunk size, or the stream that
\* it aborts.
SizeAfter(m, size) == IF m.typ = SetChunkSizeType THEN Value[m.body] ELSE size
StreamsAfter(m, streams) ==
  IF m.typ = AbortMessageType /\ Value[m.body] \in ChunkStreamIDs
  THEN [streams EXCEPT ![Value[m.body]] = Aborted(streams[Value[m.body]])]
  ELSE streams

\* A whole message is applied and returned.
LEMMA Returned ==
  ASSUME NEW rd \in ReaderType, rd.state = "reading", NEW m \in Messages, NEW t
  PROVE  LET new == Deliver(rd, Stamped(m, t))
         IN /\ new.state = "reading"
            /\ new.got = Append(rd.got, Stamped(m, t))
            /\ new.size = SizeAfter(m, rd.size)
            /\ new.streams = StreamsAfter(m, rd.streams)
<1> DEFINE mm == Stamped(m, t)
           applied == Apply(rd, mm)
<1>1. /\ mm.typ = m.typ /\ mm.body = m.body
      /\ m.typ \in Nat /\ m.body \in Bodies
  BY MessageType DEF Stamped, AsReceived, Message
<1>2. /\ applied.state = "reading" /\ applied.got = rd.got
      /\ applied.size = SizeAfter(m, rd.size)
      /\ applied.streams = StreamsAfter(m, rd.streams)
      /\ DOMAIN applied = DOMAIN rd
  <2>1. CASE m.typ \notin {SetChunkSizeType, AbortMessageType}
    <3>1. applied = rd
      BY <1>1, <2>1 DEF Apply
    <3> QED
      BY <2>1, <3>1 DEF SizeAfter, StreamsAfter
  <2>2. CASE m.typ = SetChunkSizeType
    <3>1. Value[m.body] \in Nat /\ Value[m.body] <= MaxBodySize
      BY <2>2, MessagesAssumption, FormatAssumption, SMT DEF SetChunkSizeType
    <3>2. applied = ApplySetChunkSize(rd, Value[m.body])
      BY <1>1, <2>2 DEF Apply
    <3>3. applied = [rd EXCEPT !.size = Value[m.body]]
      <4>1. ~(Value[m.body] > MaxBodySize)
        BY <3>1, FormatAssumption, SMT
      <4> QED
        BY <3>2, <4>1 DEF ApplySetChunkSize
    <3> QED
      BY <2>2, <3>3 DEF ReaderType, SizeAfter, StreamsAfter, SetChunkSizeType, AbortMessageType
  <2>3. CASE m.typ = AbortMessageType
    <3>1. applied = ApplyAbort(rd, Value[m.body])
      BY <1>1, <2>3 DEF Apply, SetChunkSizeType, AbortMessageType
    <3>2. CASE Value[m.body] \in ChunkStreamIDs
      <4>1. applied = [rd EXCEPT !.streams = StreamsAfter(m, rd.streams)]
        BY <2>3, <3>1, <3>2 DEF ApplyAbort, StreamsAfter
      <4> QED
        BY <2>3, <4>1 DEF ReaderType, SizeAfter, SetChunkSizeType, AbortMessageType
    <3>3. CASE Value[m.body] \notin ChunkStreamIDs
      BY <2>3, <3>1, <3>3 DEF ApplyAbort, SizeAfter, StreamsAfter, SetChunkSizeType, AbortMessageType
    <3> QED
      BY <3>2, <3>3
  <2> QED
    BY <2>1, <2>2, <2>3
<1> HIDE DEF applied, mm
<1>3. Deliver(rd, mm) = [applied EXCEPT !.got = Append(rd.got, mm)]
  BY <1>2 DEF Deliver, applied
<1> QED
  BY <1>2, <1>3 DEF ReaderType, mm

\* A reader that has collected n bytes of a message takes the next ones: it goes
\* on collecting, or it returns the message and is ready for another.
LEMMA PieceReceived ==
  ASSUME NEW rd \in ReaderType, rd.state = "reading",
         NEW m \in Messages, NEW n \in 0..m.len, NEW c \in Chunk,
         c.csid = m.csid, c.frag = Piece(m, n, rd.size),
         ~Refuses(rd.streams[m.csid], c),
         c.fmt = 3 => c.ext = rd.streams[m.csid].ext,
         Collecting(rd.streams[m.csid], m, n),
         HasHeader(TakeHeader(rd.streams[m.csid], c), m)
  PROVE  LET h == TakeHeader(rd.streams[m.csid], c)
             upto == n + c.frag.len
             new == Receive(rd, c)
         IN /\ new.state = "reading"
            /\ upto # m.len =>
                 new = [rd EXCEPT !.streams[m.csid] = Holding(h, m, upto)]
            /\ upto = m.len =>
                 /\ new.got = Append(rd.got, Stamped(m, h.ts))
                 /\ new.size = SizeAfter(m, rd.size)
                 /\ new.streams =
                      StreamsAfter(m, [rd.streams EXCEPT ![m.csid] = Cleared(h)])
<1> DEFINE rs == rd.streams[m.csid]
           h == TakeHeader(rs, c)
           upto == n + c.frag.len
           taken == Holding(h, m, upto)
<1>1. /\ m.csid \in ChunkStreamIDs /\ rs \in ReaderStreamType /\ rd.size \in Nat
      /\ m.len \in Nat /\ m.len <= MaxBodySize /\ m.body \in Bodies
  BY MessageType, MessagesAssumption DEF ReaderType
<1>2. h \in ReaderStreamType /\ h.recv = rs.recv /\ h.part = rs.part
  BY <1>1, TakeHeaderType
<1>3. h.len = m.len /\ h.typ = m.typ /\ h.msid = m.msid
  BY DEF HasHeader
<1>4. InFrame(rs, c, rd.size)
  BY <1>1, <1>3, Fits DEF Collecting
<1>5. Receive(rd, c) = Accept(rd, c)
  BY <1>4 DEF Receive
<1>6. TakeFragment(h, c.frag) = taken
  <2>1. Collecting(h, m, n)
    BY <1>2 DEF Collecting
  <2>2. c.frag = Piece(m, n, rd.size)
    OBVIOUS
  <2> HIDE DEF h, rs
  <2> QED
    BY <1>1, <1>2, <2>1, <2>2, Taken
<1>7. taken.len = m.len /\ taken.recv = upto /\ ~(taken.len > MaxBodySize)
  BY <1>1, <1>2, <1>3, FormatAssumption, SMT DEF ReaderStreamType, Holding
<1>8. Complete(taken) <=> upto = m.len
  BY <1>7 DEF Complete
<1>9. CASE upto # m.len
  <2>1. Accept(rd, c) = [rd EXCEPT !.streams[m.csid] = taken]
    <3> HIDE DEF taken, h, rs, upto
    <3> QED
      BY <1>6, <1>7, <1>8, <1>9, FormatAssumption, <1>1, SMT DEF Accept, rs, h
  <2> QED
    BY <1>5, <1>9, <2>1 DEF ReaderType
<1>10. CASE upto = m.len
  <2> DEFINE done == [rd EXCEPT !.streams[m.csid] = Cleared(h)]
  <2>1. Cleared(taken) = Cleared(h)
    BY <1>2 DEF Cleared, ReaderStreamType, Holding
  <2>2. Assembled(m.csid, taken) = Stamped(m, h.ts)
    <3>1. /\ taken.ts = h.ts /\ taken.msid = m.msid /\ taken.typ = m.typ
          /\ taken.len = m.len /\ taken.part.of = m.body
      BY <1>2, <1>3 DEF ReaderStreamType, Holding
    <3> HIDE DEF taken, h
    <3> QED
      BY <3>1, StampedFields DEF Assembled
  <2>3. Accept(rd, c) = Deliver(done, Stamped(m, h.ts))
    <3> HIDE DEF taken, h, rs, upto
    <3> QED
      BY <1>6, <1>7, <1>8, <1>10, <2>1, <2>2, <1>1, FormatAssumption, SMT DEF Accept, rs, h
  <2>4. done \in ReaderType /\ done.state = "reading" /\ done.got = rd.got
        /\ done.size = rd.size /\ done.streams = [rd.streams EXCEPT ![m.csid] = Cleared(h)]
    BY <1>1, <1>2, ClearedType DEF ReaderType
  <2> HIDE DEF done
  <2> QED
    BY <1>5, <1>10, <2>3, <2>4, Returned
<1> QED
  BY <1>9, <1>10
===============================================================================
