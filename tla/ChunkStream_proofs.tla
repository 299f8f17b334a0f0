-------------------------- MODULE ChunkStream_proofs --------------------------
(***************************************************************************)
(* Proofs about ChunkStream: types, mutual exclusion of the two mutexes,   *)
(* delivery, and the refinement of MessageChannel, for every set of        *)
(* goroutines, messages and chunk sizes.                                   *)
(***************************************************************************)
EXTENDS ChunkStream, RawReader_proofs

(***************************************************************************)
(* What the writer makes of a message.                                     *)
(***************************************************************************)

\* A delta that is used is not negative.
LEMMA DeltaType ==
  ASSUME NEW ws \in WriterStreamType, NEW m \in Messages
  PROVE  TimestampDelta(ws, m) \in Nat \cup {NoDelta}
BY MessageType, SMT DEF TimestampDelta, WriterStreamType, NoDelta

\* Every format but the full one has a delta.
LEMMA FormatDelta ==
  ASSUME NEW ws \in WriterStreamType, NEW m \in Messages
  PROVE  /\ Format(ws, m) \in 0..3
         /\ Format(ws, m) # 0 => TimestampDelta(ws, m) \in Nat
BY DeltaType, SMT DEF Format, NeedsFull, NoDelta

\* The first chunk of a message is a chunk that holds its first bytes.
LEMMA FirstChunkType ==
  ASSUME NEW ws \in WriterStreamType, NEW m \in Messages, NEW size \in Nat
  PROVE  /\ FirstChunk(ws, m, size) \in Chunk
         /\ FirstChunk(ws, m, size).frag = Piece(m, 0, size)
<1> DEFINE delta == TimestampDelta(ws, m)
           frag  == Piece(m, 0, size)
<1>1. /\ m.csid \in ChunkStreamIDs /\ m.msid \in Nat /\ m.typ \in Nat
      /\ m.ts \in Int /\ m.len \in Nat
  BY MessageType
<1>2. frag \in Fragment
  BY <1>1, PieceType, SMT
<1>3. U32(m.ts) \in 0..(TsMod - 1)
  BY <1>1, U32Type
<1>4. Format(ws, m) \in 0..3 /\ ws.ext \in BOOLEAN
  BY FormatDelta DEF WriterStreamType
<1>5. CASE Format(ws, m) = 0
  <2>1. FirstChunk(ws, m, size) = Chunk0(m, frag)
    BY <1>5 DEF FirstChunk
  <2> QED
    BY <2>1, <1>1, <1>2, <1>3 DEF Chunk0, Chunk
<1>6. CASE Format(ws, m) \in {1, 2}
  <2>1. U32(delta) \in 0..(TsMod - 1)
    BY <1>6, FormatDelta, U32Type
  <2>2. CASE Format(ws, m) = 1
    <3>1. FirstChunk(ws, m, size) = Chunk1(m, delta, frag)
      BY <2>2 DEF FirstChunk
    <3> QED
      BY <3>1, <2>1, <1>1, <1>2 DEF Chunk1, Chunk
  <2>3. CASE Format(ws, m) = 2
    <3>1. FirstChunk(ws, m, size) = Chunk2(m, delta, frag)
      BY <2>3 DEF FirstChunk
    <3> QED
      BY <3>1, <2>1, <1>1, <1>2 DEF Chunk2, Chunk
  <2> QED
    BY <1>6, <2>2, <2>3
<1>7. CASE Format(ws, m) = 3
  <2>1. FirstChunk(ws, m, size) = Chunk3(m, ws.ext, frag)
    BY <1>7 DEF FirstChunk
  <2> QED
    BY <2>1, <1>1, <1>2, <1>4 DEF Chunk3, Chunk
<1> QED
  BY <1>4, <1>5, <1>6, <1>7

\* So are the others.
LEMMA FollowingChunkType ==
  ASSUME NEW ws \in WriterStreamType, NEW m \in Messages,
         NEW p \in 0..m.len, NEW size \in Nat
  PROVE  /\ FollowingChunk(ws, m, p, size) \in Chunk
         /\ FollowingChunk(ws, m, p, size).frag = Piece(m, p, size)
BY MessageType, PieceType DEF FollowingChunk, Chunk3, Chunk, WriterStreamType

\* What the writer keeps of a chunk stream stays of its type.
LEMMA ExtAfterType ==
  ASSUME NEW ws \in WriterStreamType, NEW m \in Messages
  PROVE  ExtAfter(ws, m) \in BOOLEAN
<1>1. ASSUME NEW n \in Int PROVE Extended(n) \in BOOLEAN
  BY FormatAssumption, SMT DEF Extended
<1>2. Format(ws, m) \in 0..3 /\ ws.ext \in BOOLEAN
  BY FormatDelta DEF WriterStreamType
<1>3. CASE Format(ws, m) = 0
  <2>1. ExtAfter(ws, m) = Extended(U32(m.ts))
    BY <1>3 DEF ExtAfter
  <2>2. U32(m.ts) \in Int
    BY MessageType, U32Type, FormatAssumption, SMT
  <2> QED
    BY <2>1, <2>2, <1>1, Zenon
<1>4. CASE Format(ws, m) \in {1, 2}
  <2>1. ExtAfter(ws, m) = Extended(U32(TimestampDelta(ws, m)))
    BY <1>4 DEF ExtAfter
  <2>2. U32(TimestampDelta(ws, m)) \in Int
    BY <1>4, FormatDelta, U32Type, FormatAssumption, SMT
  <2> QED
    BY <2>1, <2>2, <1>1, Zenon
<1>5. CASE Format(ws, m) = 3
  BY <1>2, <1>5 DEF ExtAfter
<1> QED
  BY <1>2, <1>3, <1>4, <1>5

LEMMA AfterMessageType ==
  ASSUME NEW ws \in WriterStreamType, NEW m \in Messages
  PROVE  AfterMessage(ws, m) \in WriterStreamType
BY MessageType, DeltaType DEF AfterMessage, Header, WriterStreamType

(***************************************************************************)
(* Types.  TypeOK is not inductive: a goroutine between Lock and Unlock    *)
(* has a message, and no more than its bytes are in chunks.                *)
(***************************************************************************)
AtWork ==
  \A t \in Writers :
    /\ pc[t] # "idle" => job[t] \in Messages
    /\ pc[t] = "following" => pos[t] <= job[t].len

TypeInv == TypeOK /\ AtWork

LEMMA InitType == Init => TypeInv
<1> SUFFICES ASSUME Init PROVE TypeInv
  OBVIOUS
<1>1. NewWriterStream \in WriterStreamType
  BY DEF NewWriterStream, WriterStreamType, NoHeader
<1>2. NewReader \in ReaderType
  <2>1. 0 \in 0..(TsMod - 1) /\ InitialChunkSize \in Nat
    BY FormatAssumption, SMT
  <2> QED
    BY <2>1 DEF NewReader, NewReaderStream, NoPart, ReaderType, ReaderStreamType
<1>3. InitialChunkSize \in Nat
  BY FormatAssumption, SMT
<1> QED
  BY <1>1, <1>2, <1>3 DEF Init, TypeInv, TypeOK, AtWork

LEMMA NextType == TypeInv /\ [Next]_vars => TypeInv'
<1> SUFFICES ASSUME TypeInv, [Next]_vars PROVE TypeInv'
  OBVIOUS
<1> USE DEF TypeInv, TypeOK, AtWork
<1>1. ASSUME NEW t \in Writers, NEW m \in Messages, Lock(t, m) PROVE TypeInv'
  BY <1>1 DEF Lock
<1>2. ASSUME NEW t \in Writers, Begin(t) PROVE TypeInv'
  <2>1. job[t] \in Messages
    BY <1>2 DEF Begin
  <2>2. sent' \in Seq(Messages)
    BY <1>2, <2>1 DEF Begin
  <2> QED
    BY <1>2, <2>1, <2>2 DEF Begin
<1>3. ASSUME NEW t \in Writers, WriteFirst(t) PROVE TypeInv'
  <2> DEFINE m == job[t]
             ws == wstreams[m.csid]
             ch == FirstChunk(ws, m, wsize)
  <2>1. /\ m \in Messages
        /\ m.csid \in ChunkStreamIDs /\ m.len \in Nat /\ ws \in WriterStreamType
    BY <1>3, MessageType DEF WriteFirst
  <2>2. ch \in Chunk /\ ch.frag.len \in 0..m.len
    <3>1. 0 + Piece(m, 0, wsize).len \in 0..m.len /\ Piece(m, 0, wsize) \in Fragment
      BY <2>1, PieceType, SMT
    <3>2. Piece(m, 0, wsize).len \in 0..m.len
      BY <3>1, SMT DEF Fragment
    <3> QED
      BY <2>1, <3>2, FirstChunkType
  <2>3. ExtAfter(ws, m) \in BOOLEAN
    BY <2>1, ExtAfterType
  <2>4. wstreams' \in [ChunkStreamIDs -> WriterStreamType]
    <3>1. [ws EXCEPT !.ext = ExtAfter(ws, m)] \in WriterStreamType
      BY <2>1, <2>3 DEF WriterStreamType
    <3>2. wstreams' = [wstreams EXCEPT ![m.csid] = [ws EXCEPT !.ext = ExtAfter(ws, m)]]
      BY <1>3 DEF WriteFirst
    <3> QED
      BY <2>1, <3>1, <3>2
  <2>5. wire' \in Seq(Chunk)
    BY <1>3, <2>2 DEF WriteFirst
  <2>6. /\ pos' = [pos EXCEPT ![t] = ch.frag.len]
        /\ pc' = [pc EXCEPT ![t] = "following"]
        /\ UNCHANGED <<messageMutex, rawMutex, job, wsize, reader, sent>>
    BY <1>3 DEF WriteFirst
  <2>7. pos' = [pos EXCEPT ![t] = ch.frag.len]
    BY <2>6
  <2>8. job[t] \in Messages /\ ch.frag.len \in Nat /\ ch.frag.len <= job[t].len
    BY <2>1, <2>2, SMT
  <2> HIDE DEF m, ws, ch
  <2>9. pos' \in [Writers -> Nat] /\ pos'[t] <= job[t].len
    BY <2>7, <2>8
  <2>10. AtWork'
    BY <2>6, <2>7, <2>8
  <2> QED
    BY <2>4, <2>5, <2>6, <2>9, <2>10
<1>4. ASSUME NEW t \in Writers, WriteFollowing(t) PROVE TypeInv'
  <2> DEFINE m == job[t]
             ch == FollowingChunk(wstreams[m.csid], m, pos[t], wsize)
  <2>1. /\ m \in Messages
        /\ m.csid \in ChunkStreamIDs /\ m.len \in Nat
        /\ wstreams[m.csid] \in WriterStreamType
        /\ pos[t] \in 0..m.len
    BY <1>4, MessageType, SMT DEF WriteFollowing
  <2>2. ch \in Chunk /\ pos[t] + ch.frag.len \in 0..m.len
    BY <2>1, PieceType, FollowingChunkType
  <2>3. wire' \in Seq(Chunk)
    BY <1>4, <2>2 DEF WriteFollowing
  <2>4. /\ pos' = [pos EXCEPT ![t] = pos[t] + ch.frag.len]
        /\ UNCHANGED <<messageMutex, rawMutex, pc, job, wstreams, wsize, reader, sent>>
    BY <1>4 DEF WriteFollowing
  <2>5. pos[t] + ch.frag.len \in Nat /\ pos[t] + ch.frag.len <= job[t].len
    BY <2>1, <2>2, SMT
  <2> HIDE DEF m, ch
  <2> QED
    BY <2>1, <2>3, <2>4, <2>5
<1>5. ASSUME NEW t \in Writers, Finish(t) PROVE TypeInv'
  <2> DEFINE m == job[t]
  <2>1. m \in Messages /\ m.csid \in ChunkStreamIDs
    BY <1>5, MessageType DEF Finish
  <2>2. AfterMessage(wstreams[m.csid], m) \in WriterStreamType
    BY <2>1, AfterMessageType
  <2>3. wstreams' = [wstreams EXCEPT ![m.csid] = AfterMessage(wstreams[m.csid], m)]
    BY <1>5 DEF Finish
  <2>4. wstreams' \in [ChunkStreamIDs -> WriterStreamType]
    BY <2>1, <2>2, <2>3
  <2>5. \/ pc' = [pc EXCEPT ![t] = "apply"]
        \/ pc' = [pc EXCEPT ![t] = "unlock"]
    BY <1>5 DEF Finish
  <2> QED
    BY <1>5, <2>1, <2>4, <2>5 DEF Finish
<1>6. ASSUME NEW t \in Writers, ApplyChunkSize(t) PROVE TypeInv'
  <2>1. job[t] \in Messages /\ Value[job[t].body] \in Nat
    BY <1>6, MessageType, FormatAssumption DEF ApplyChunkSize
  <2> QED
    BY <1>6, <2>1 DEF ApplyChunkSize
<1>7. ASSUME NEW t \in Writers, Unlock(t) PROVE TypeInv'
  BY <1>7 DEF Unlock
<1>8. CASE Read
  <2>1. Head(wire) \in Chunk /\ Tail(wire) \in Seq(Chunk)
    BY <1>8 DEF Read
  <2>2. Receive(reader, Head(wire)) \in ReaderType
    BY <2>1, ReceiveType
  <2> QED
    BY <1>8, <2>1, <2>2 DEF Read
<1>9. CASE UNCHANGED vars
  BY <1>9 DEF vars
<1> QED
  BY <1>1, <1>2, <1>3, <1>4, <1>5, <1>6, <1>7, <1>8, <1>9 DEF Next, Step

\* Every variable keeps its type, whatever the goroutines and messages: in
\* particular no stream ever holds a fragment that is not of its message's body
\* or out of 32 bits (writer.go:14-23, reader.go:29-40).
THEOREM TypeCorrect == Spec => []TypeOK
<1>1. TypeInv => TypeOK
  BY DEF TypeInv
<1> QED
  BY <1>1, InitType, NextType, PTL DEF Spec

(***************************************************************************)
(* Mutual exclusion, which is inductive with the types.                    *)
(***************************************************************************)
LEMMA InitExclusive == Init => Exclusive
BY WritersAssumption DEF Init, Exclusive

LEMMA NextExclusive == TypeOK /\ Exclusive /\ [Next]_vars => Exclusive'
<1> SUFFICES ASSUME TypeOK, Exclusive, [Next]_vars PROVE Exclusive'
  OBVIOUS
<1> USE WritersAssumption DEF Exclusive
<1>0. /\ pc \in [Writers -> {"idle", "begin", "first", "following", "apply", "unlock"}]
      /\ messageMutex \in Writers \cup {Nobody} /\ rawMutex \in Writers \cup {Nobody}
  BY DEF TypeOK
<1>1. ASSUME NEW t \in Writers, NEW m \in Messages, Lock(t, m) PROVE Exclusive'
  BY <1>0, <1>1 DEF Lock
<1>2. ASSUME NEW t \in Writers, Begin(t) PROVE Exclusive'
  BY <1>0, <1>2 DEF Begin
<1>3. ASSUME NEW t \in Writers, WriteFirst(t) PROVE Exclusive'
  BY <1>0, <1>3 DEF WriteFirst
<1>4. ASSUME NEW t \in Writers, WriteFollowing(t) PROVE Exclusive'
  BY <1>0, <1>4 DEF WriteFollowing
<1>5. ASSUME NEW t \in Writers, Finish(t) PROVE Exclusive'
  BY <1>0, <1>5 DEF Finish
<1>6. ASSUME NEW t \in Writers, ApplyChunkSize(t) PROVE Exclusive'
  BY <1>0, <1>6 DEF ApplyChunkSize
<1>7. ASSUME NEW t \in Writers, Unlock(t) PROVE Exclusive'
  BY <1>0, <1>7 DEF Unlock
<1>8. CASE Read
  BY <1>8 DEF Read
<1>9. CASE UNCHANGED vars
  BY <1>9 DEF vars
<1> QED
  BY <1>1, <1>2, <1>3, <1>4, <1>5, <1>6, <1>7, <1>8, <1>9 DEF Next, Step

\* At most one goroutine is between the lock and the unlock of each mutex, so
\* the chunks of a message and the change of chunk size that it announces are
\* one block for all the other goroutines (message/writer.go:55-79).
THEOREM MutualExclusion == Spec => []Exclusive
BY InitExclusive, NextExclusive, TypeCorrect, PTL DEF Spec

(***************************************************************************)
(* Delivery.  Nothing that concerns the chunks in flight is inductive by   *)
(* itself: what matters is the reader as it will be once it has taken all  *)
(* of them.  The chunks in flight carry the reader through a sequence of   *)
(* readers, each faithful to what was sent; the last of them is in step    *)
(* with the writer, up to the message that a goroutine is writing.         *)
(***************************************************************************)

\* A chunk stream belongs to one message stream: what the library writes, with
\* one message stream for each chunk stream id that it uses.
OneMessageStream ==
  \A m1, m2 \in Messages : m1.csid = m2.csid => m1.msid = m2.msid

\* What is returned for m: m, and its timestamp if chunk streams are not shared.
Seen(r, m) ==
  \E t \in 0..(TsMod - 1) :
    /\ r = Stamped(m, t)
    /\ OneMessageStream => t = U32(m.ts)

\* A reader that has returned the first of the messages ms.
Faithful(rd, ms) ==
  /\ rd.state = "reading"
  /\ Len(rd.got) <= Len(ms)
  /\ \A i \in 1..Len(rd.got) : Seen(rd.got[i], ms[i])

\* The reader rd takes the chunks cs one by one.
Carried(rd, cs, rds) ==
  /\ rds \in Seq(ReaderType)
  /\ Len(rds) = Len(cs) + 1
  /\ rds[1] = rd
  /\ \A i \in 1..Len(cs) : rds[i + 1] = Receive(rds[i], cs[i])

\* What a reader needs to know of a chunk stream to read its next header.
Agrees(ws, rs) ==
  /\ ws.used = rs.avail
  /\ ws.ext = rs.ext
  /\ ws.used =>
       /\ rs.msid = ws.last.msid
       /\ rs.typ = ws.last.typ
       /\ rs.len = ws.last.len
       /\ OneMessageStream =>
            /\ rs.ts = U32(ws.last.ts)
            /\ ws.delta # NoDelta => rs.delta = U32(ws.delta)

\* A reader ready for the next message on every chunk stream but those of cs.
ReadyBut(rd, cs) ==
  \A c \in ChunkStreamIDs \ cs :
    Agrees(wstreams[c], rd.streams[c]) /\ Idle(rd.streams[c])

\* Everything sent is returned; everything but m, the last.
AllReturned(rd) == Len(rd.got) = Len(sent)
AllReturnedBut(rd, m) == Len(rd.got) + 1 = Len(sent) /\ sent[Len(sent)] = m

\* A reader that has taken every chunk in flight, for each place of the writer.
BetweenMessages(rd) ==
  rawMutex = Nobody => ReadyBut(rd, {}) /\ AllReturned(rd)

BeforeFirst(rd, t) ==
  pc[t] = "first" => ReadyBut(rd, {}) /\ AllReturnedBut(rd, job[t])

BeforeFollowing(rd, t) ==
  LET m  == job[t]
      rs == rd.streams[m.csid]
  IN pc[t] = "following" =>
       /\ ReadyBut(rd, {m.csid})
       /\ Agrees(AfterMessage(wstreams[m.csid], m), rs)
       /\ pos[t] # m.len => pos[t] > 0 /\ Collecting(rs, m, pos[t]) /\ AllReturnedBut(rd, m)
       /\ pos[t] = m.len => Idle(rs) /\ AllReturned(rd)

\* The chunk size announced is in force in the reader as soon as it has the
\* message, in the writer later.
SizeInStep(rd) ==
  /\ wsize >= 1
  /\ \A t \in Writers :
       /\ pc[t] = "apply" => job[t].typ = SetChunkSizeType
       /\ pc[t] = "apply" \/ (pc[t] = "following" /\ pos[t] = job[t].len) =>
            rd.size = SizeAfter(job[t], wsize)
       /\ pc[t] = "following" /\ pos[t] # job[t].len => rd.size = wsize
  /\ (\A t \in Writers : pc[t] \notin {"following", "apply"}) => rd.size = wsize

CaughtUp(rd) ==
  /\ BetweenMessages(rd)
  /\ \A t \in Writers : BeforeFirst(rd, t) /\ BeforeFollowing(rd, t)
  /\ SizeInStep(rd)

\* A message written on a chunk stream is one of its messages.
OfItsStream ==
  \A c \in ChunkStreamIDs : wstreams[c].used =>
    \E m \in Messages : m.csid = c /\ m.msid = wstreams[c].last.msid

Carriage ==
  \E rds \in Seq(ReaderType) :
    /\ Carried(reader, wire, rds)
    /\ \A i \in 1..Len(rds) : Faithful(rds[i], sent)
    /\ CaughtUp(rds[Len(rds)])

DeliveryInv == TypeInv /\ Exclusive /\ OfItsStream /\ Carriage

\* The header that the writer makes of a message is understood, and it leaves
\* both ends in agreement.
LEMMA HeaderUnderstood ==
  ASSUME NEW ws \in WriterStreamType, NEW rs \in ReaderStreamType,
         NEW m \in Messages, NEW size \in Nat,
         Agrees(ws, rs), Idle(rs),
         ws.used => \E o \in Messages : o.csid = m.csid /\ o.msid = ws.last.msid
  PROVE  LET c == FirstChunk(ws, m, size)
             h == TakeHeader(rs, c)
         IN /\ ~Refuses(rs, c)
            /\ c.csid = m.csid
            /\ c.fmt = 3 => c.ext = rs.ext
            /\ HasHeader(h, m)
            /\ Agrees(AfterMessage([ws EXCEPT !.ext = ExtAfter(ws, m)], m), h)
<1> DEFINE c == FirstChunk(ws, m, size)
           h == TakeHeader(rs, c)
           delta == TimestampDelta(ws, m)
           frag == Piece(m, 0, size)
           after == AfterMessage([ws EXCEPT !.ext = ExtAfter(ws, m)], m)
<1>1. /\ m.ts \in Int /\ m.typ \in Nat /\ m.len \in Nat /\ m.msid \in Nat
      /\ m.csid \in ChunkStreamIDs
      /\ ws.used \in BOOLEAN /\ ws.last.ts \in Int /\ ws.ext \in BOOLEAN
      /\ ws.delta \in Nat \cup {NoDelta}
      /\ rs.recv = 0
  BY MessageType DEF WriterStreamType, Idle
<1>2. delta \in Nat \cup {NoDelta}
  BY DeltaType
<1>3. /\ after.used = TRUE /\ after.last = Header(m) /\ after.ext = ExtAfter(ws, m)
      /\ after.delta = delta
  BY DEF AfterMessage, TimestampDelta, WriterStreamType
<1>4. /\ Header(m).msid = m.msid /\ Header(m).typ = m.typ
      /\ Header(m).len = m.len /\ Header(m).ts = m.ts
  BY DEF Header
<1>5. Format(ws, m) \in 0..3
  BY FormatDelta
<1>6. CASE Format(ws, m) = 0
  <2>1. c = Chunk0(m, frag)
    BY <1>6 DEF FirstChunk
  <2>2. c.fmt = 0 /\ c.csid = m.csid /\ c.ts = U32(m.ts) /\ c.typ = m.typ
        /\ c.msid = m.msid /\ c.len = m.len
    BY <2>1 DEF Chunk0
  <2>3. h = [rs EXCEPT !.avail = TRUE, !.msid = c.msid, !.typ = c.typ,
                       !.ts = c.ts, !.delta = 0, !.len = c.len, !.ext = Extended(c.ts)]
    BY <2>2 DEF TakeHeader
  <2>4. /\ h.avail = TRUE /\ h.msid = m.msid /\ h.typ = m.typ /\ h.ts = U32(m.ts)
        /\ h.len = m.len /\ h.ext = Extended(U32(m.ts))
    <3> HIDE DEF c, h
    <3> QED
      BY <2>2, <2>3 DEF ReaderStreamType
  <2>5. ExtAfter(ws, m) = Extended(U32(m.ts))
    BY <1>6 DEF ExtAfter
  <2>6. OneMessageStream => delta = NoDelta
    <3>1. NeedsFull(ws, m)
      BY <1>6 DEF Format
    <3>2. ~ws.used => delta = NoDelta
      BY DEF TimestampDelta
    <3>3. OneMessageStream /\ ws.used => ws.last.msid = m.msid
      BY DEF OneMessageStream
    <3> QED
      BY <3>1, <3>2, <3>3 DEF NeedsFull
  <2> HIDE DEF c, h, after, delta
  <2>7. ~Refuses(rs, c)
    BY <1>1, <2>2 DEF Refuses
  <2>8. HasHeader(h, m)
    BY <2>4 DEF HasHeader
  <2>9. Agrees(after, h)
    BY <1>3, <1>4, <2>4, <2>5, <2>6 DEF Agrees
  <2> QED
    BY <2>2, <2>7, <2>8, <2>9 DEF c, h, after
<1>7. CASE Format(ws, m) # 0
  <2>1. /\ delta \in Nat /\ delta # NoDelta
        /\ ws.used /\ delta = m.ts - ws.last.ts
        /\ ws.last.msid = m.msid
    <3>1. ~NeedsFull(ws, m)
      BY <1>7 DEF Format
    <3>2. delta # NoDelta /\ ws.last.msid = m.msid
      BY <3>1 DEF NeedsFull
    <3> QED
      BY <1>2, <3>2, SMT DEF TimestampDelta, NoDelta
  <2>2. /\ rs.avail = TRUE /\ rs.msid = m.msid /\ rs.typ = ws.last.typ
        /\ rs.len = ws.last.len /\ rs.ext = ws.ext
        /\ OneMessageStream =>
             /\ rs.ts = U32(ws.last.ts)
             /\ ws.delta # NoDelta => rs.delta = U32(ws.delta)
    BY <2>1 DEF Agrees, ReaderStreamType
  <2>3. OneMessageStream => U32(rs.ts + U32(delta)) = U32(m.ts)
    <3>1. U32(U32(ws.last.ts) + U32(delta)) = U32(ws.last.ts + delta)
      <4>1. ws.last.ts \in Int /\ delta \in Int
        BY <1>1, <2>1, SMT
      <4> HIDE DEF delta
      <4> QED
        BY <4>1, U32Sum
    <3>2. ws.last.ts + delta = m.ts
      BY <1>1, <2>1, SMT
    <3> QED
      BY <2>2, <3>1, <3>2
  <2>4. CASE Format(ws, m) = 1
    <3>1. c = Chunk1(m, delta, frag)
      BY <2>4 DEF FirstChunk
    <3>2. c.fmt = 1 /\ c.csid = m.csid /\ c.ts = U32(delta) /\ c.typ = m.typ /\ c.len = m.len
      BY <3>1 DEF Chunk1
    <3>3. h = [rs EXCEPT !.typ = c.typ, !.ts = U32(rs.ts + c.ts), !.delta = c.ts,
                         !.len = c.len, !.ext = Extended(c.ts)]
      BY <3>2 DEF TakeHeader
    <3>4. /\ h.avail = TRUE /\ h.msid = m.msid /\ h.typ = m.typ /\ h.len = m.len
          /\ h.ts = U32(rs.ts + U32(delta)) /\ h.delta = U32(delta)
          /\ h.ext = Extended(U32(delta))
      <4> HIDE DEF c, h, delta
      <4> QED
        BY <2>2, <3>2, <3>3 DEF ReaderStreamType
    <3>5. ExtAfter(ws, m) = Extended(U32(delta))
      BY <2>4 DEF ExtAfter
    <3> HIDE DEF c, h, after, delta
    <3>6. ~Refuses(rs, c)
      BY <1>1, <2>2, <3>2 DEF Refuses
    <3>7. HasHeader(h, m)
      BY <3>4 DEF HasHeader
    <3>8. Agrees(after, h)
      BY <1>3, <1>4, <2>3, <3>4, <3>5 DEF Agrees
    <3> QED
      BY <3>2, <3>6, <3>7, <3>8 DEF c, h, after
  <2>5. CASE Format(ws, m) = 2
    <3>1. c = Chunk2(m, delta, frag)
      BY <2>5 DEF FirstChunk
    <3>2. c.fmt = 2 /\ c.csid = m.csid /\ c.ts = U32(delta)
      BY <3>1 DEF Chunk2
    <3>3. h = [rs EXCEPT !.ts = U32(rs.ts + c.ts), !.delta = c.ts, !.ext = Extended(c.ts)]
      BY <3>2 DEF TakeHeader
    <3>4. ws.last.typ = m.typ /\ ws.last.len = m.len
      BY <2>5 DEF Format
    <3>5. /\ h.avail = TRUE /\ h.msid = m.msid /\ h.typ = m.typ /\ h.len = m.len
          /\ h.ts = U32(rs.ts + U32(delta)) /\ h.delta = U32(delta)
          /\ h.ext = Extended(U32(delta))
      <4> HIDE DEF c, h, delta
      <4> QED
        BY <2>2, <3>2, <3>3, <3>4 DEF ReaderStreamType
    <3>6. ExtAfter(ws, m) = Extended(U32(delta))
      BY <2>5 DEF ExtAfter
    <3> HIDE DEF c, h, after, delta
    <3>7. ~Refuses(rs, c)
      BY <1>1, <2>2, <3>2 DEF Refuses
    <3>8. HasHeader(h, m)
      BY <3>5 DEF HasHeader
    <3>9. Agrees(after, h)
      BY <1>3, <1>4, <2>3, <3>5, <3>6 DEF Agrees
    <3> QED
      BY <3>2, <3>7, <3>8, <3>9 DEF c, h, after
  <2>6. CASE Format(ws, m) = 3
    <3>1. c = Chunk3(m, ws.ext, frag)
      BY <2>6 DEF FirstChunk
    <3>2. c.fmt = 3 /\ c.csid = m.csid /\ c.ext = ws.ext
      BY <3>1 DEF Chunk3
    <3>3. h = [rs EXCEPT !.ts = U32(rs.ts + rs.delta)]
      BY <1>1, <3>2 DEF TakeHeader
    <3>4. ws.last.typ = m.typ /\ ws.last.len = m.len /\ ws.delta = delta
      BY <2>6 DEF Format
    <3>5. /\ h.avail = TRUE /\ h.msid = m.msid /\ h.typ = m.typ /\ h.len = m.len
          /\ h.ts = U32(rs.ts + rs.delta) /\ h.delta = rs.delta
          /\ h.ext = ws.ext
      <4> HIDE DEF c, h, delta
      <4> QED
        BY <2>2, <3>3, <3>4 DEF ReaderStreamType
    <3>6. ExtAfter(ws, m) = ws.ext
      BY <2>6 DEF ExtAfter
    <3>7. OneMessageStream => h.ts = U32(m.ts) /\ h.delta = U32(delta)
      BY <2>1, <2>2, <2>3, <3>4, <3>5
    <3> HIDE DEF c, h, after, delta
    <3>8. ~Refuses(rs, c)
      BY <2>2, <3>2 DEF Refuses
    <3>9. HasHeader(h, m)
      BY <3>5 DEF HasHeader
    <3>10. Agrees(after, h)
      BY <1>3, <1>4, <3>5, <3>6, <3>7 DEF Agrees
    <3> QED
      BY <2>2, <3>2, <3>8, <3>9, <3>10 DEF c, h, after
  <2> QED
    BY <1>5, <1>7, <2>4, <2>5, <2>6
<1> QED
  BY <1>6, <1>7

\* Agreement is about headers only.
LEMMA AgreesHeader ==
  ASSUME NEW ws, NEW rs \in ReaderStreamType, NEW m, NEW n, Agrees(ws, rs)
  PROVE  Agrees(ws, Holding(rs, m, n)) /\ Agrees(ws, Cleared(rs))
<1>1. /\ Holding(rs, m, n).avail = rs.avail /\ Holding(rs, m, n).ts = rs.ts
      /\ Holding(rs, m, n).delta = rs.delta /\ Holding(rs, m, n).typ = rs.typ
      /\ Holding(rs, m, n).msid = rs.msid /\ Holding(rs, m, n).len = rs.len
      /\ Holding(rs, m, n).ext = rs.ext
  BY DEF Holding, ReaderStreamType
<1>2. /\ Cleared(rs).avail = rs.avail /\ Cleared(rs).ts = rs.ts
      /\ Cleared(rs).delta = rs.delta /\ Cleared(rs).typ = rs.typ
      /\ Cleared(rs).msid = rs.msid /\ Cleared(rs).len = rs.len
      /\ Cleared(rs).ext = rs.ext
  BY DEF Cleared, ReaderStreamType
<1> QED
  BY <1>1, <1>2 DEF Agrees

\* A stream with no message in progress has nothing to abort.
LEMMA NothingAborted ==
  ASSUME NEW m \in Messages, NEW streams \in [ChunkStreamIDs -> ReaderStreamType],
         \A c \in ChunkStreamIDs : streams[c].recv = 0
  PROVE  StreamsAfter(m, streams) = streams
BY DEF StreamsAfter, Aborted

\* What a reader has become once it has taken the bytes of m up to n, when after
\* is the writer's stream at the end of m and size the chunk size.
Progress(rd, new, m, n, size, after) ==
  /\ new.state = "reading"
  /\ \A c \in ChunkStreamIDs \ {m.csid} : new.streams[c] = rd.streams[c]
  /\ Agrees(after, new.streams[m.csid])
  /\ n # m.len => /\ Collecting(new.streams[m.csid], m, n) /\ n > 0
                   /\ new.got = rd.got /\ new.size = size
  /\ n = m.len => /\ Idle(new.streams[m.csid])
                   /\ \E r : Seen(r, m) /\ new.got = Append(rd.got, r)
                   /\ new.size = SizeAfter(m, size)

\* A piece of m, the first or not, once its header is understood.
LEMMA PieceProgress ==
  ASSUME NEW rd \in ReaderType, rd.state = "reading", rd.size >= 1,
         NEW m \in Messages, NEW n \in 0..m.len, NEW c \in Chunk, NEW after,
         n # m.len \/ m.len = 0,
         c.csid = m.csid, c.frag = Piece(m, n, rd.size),
         ~Refuses(rd.streams[m.csid], c),
         c.fmt = 3 => c.ext = rd.streams[m.csid].ext,
         Collecting(rd.streams[m.csid], m, n),
         HasHeader(TakeHeader(rd.streams[m.csid], c), m),
         after.used, after.last = Header(m),
         Agrees(after, TakeHeader(rd.streams[m.csid], c)),
         \A k \in ChunkStreamIDs \ {m.csid} : Idle(rd.streams[k])
  PROVE  Progress(rd, Receive(rd, c), m, n + c.frag.len, rd.size, after)
<1> DEFINE h == TakeHeader(rd.streams[m.csid], c)
           upto == n + c.frag.len
           new == Receive(rd, c)
<1>1. /\ m.csid \in ChunkStreamIDs /\ rd.streams[m.csid] \in ReaderStreamType
      /\ rd.size \in Nat /\ m.len \in Nat /\ m.ts \in Int
      /\ rd.streams \in [ChunkStreamIDs -> ReaderStreamType]
  BY MessageType DEF ReaderType
<1>2. h \in ReaderStreamType
  BY <1>1, TakeHeaderType
<1>3. /\ new.state = "reading"
      /\ upto # m.len => new = [rd EXCEPT !.streams[m.csid] = Holding(h, m, upto)]
      /\ upto = m.len =>
           /\ new.got = Append(rd.got, Stamped(m, h.ts))
           /\ new.size = SizeAfter(m, rd.size)
           /\ new.streams = StreamsAfter(m, [rd.streams EXCEPT ![m.csid] = Cleared(h)])
  BY PieceReceived
<1>4. upto # m.len => upto > 0
  BY <1>1, SMT DEF Piece, Least
<1>5. CASE upto # m.len
  <2>1. new.streams = [rd.streams EXCEPT ![m.csid] = Holding(h, m, upto)]
        /\ new.got = rd.got /\ new.size = rd.size
    BY <1>3, <1>5 DEF ReaderType
  <2>2. Agrees(after, Holding(h, m, upto))
    BY <1>2, AgreesHeader
  <2>3. Collecting(Holding(h, m, upto), m, upto)
    <3> HIDE DEF h
    <3>1. upto # 0
      BY <1>4, <1>5
    <3> HIDE DEF upto
    <3> QED
      BY <1>2, <3>1 DEF Collecting, Collected, Holding, ReaderStreamType
  <2> HIDE DEF h, upto, new
  <2> QED
    BY <1>1, <1>3, <1>4, <1>5, <2>1, <2>2, <2>3 DEF Progress, upto, new
<1>6. CASE upto = m.len
  <2> DEFINE streams == [rd.streams EXCEPT ![m.csid] = Cleared(h)]
  <2>1. streams \in [ChunkStreamIDs -> ReaderStreamType] /\ Idle(Cleared(h))
    BY <1>1, <1>2, ClearedType DEF Idle, Cleared, ReaderStreamType
  <2>2. \A k \in ChunkStreamIDs : streams[k].recv = 0
    BY <1>1, <2>1 DEF Idle
  <2>3. new.streams = streams
    <3> HIDE DEF streams
    <3> QED
      BY <1>3, <1>6, <2>1, <2>2, NothingAborted DEF streams
  <2>4. Agrees(after, Cleared(h))
    BY <1>2, AgreesHeader
  <2>5. Seen(Stamped(m, h.ts), m)
    <3>1. h.ts \in 0..(TsMod - 1)
      BY <1>2 DEF ReaderStreamType
    <3>2. OneMessageStream => h.ts = U32(m.ts)
      BY DEF Agrees, Header
    <3> QED
      BY <3>1, <3>2 DEF Seen
  <2> HIDE DEF h, new
  <2> QED
    BY <1>1, <1>3, <1>6, <2>1, <2>3, <2>4, <2>5 DEF Progress, upto, new
<1> QED
  BY <1>5, <1>6

\* The first chunk of a message.
LEMMA FirstProgress ==
  ASSUME NEW rd \in ReaderType, rd.state = "reading", rd.size >= 1,
         NEW m \in Messages, NEW ws \in WriterStreamType,
         Agrees(ws, rd.streams[m.csid]),
         \A k \in ChunkStreamIDs : Idle(rd.streams[k]),
         ws.used => \E o \in Messages : o.csid = m.csid /\ o.msid = ws.last.msid
  PROVE  LET c == FirstChunk(ws, m, rd.size)
             after == AfterMessage([ws EXCEPT !.ext = ExtAfter(ws, m)], m)
         IN Progress(rd, Receive(rd, c), m, c.frag.len, rd.size, after)
<1> DEFINE c == FirstChunk(ws, m, rd.size)
           rs == rd.streams[m.csid]
           after == AfterMessage([ws EXCEPT !.ext = ExtAfter(ws, m)], m)
<1>1. /\ rs \in ReaderStreamType /\ Idle(rs) /\ Agrees(ws, rs)
      /\ rd.size \in Nat /\ m.len \in Nat
  BY MessageType DEF ReaderType
<1>2. /\ ~Refuses(rs, c)
      /\ c.csid = m.csid
      /\ c.fmt = 3 => c.ext = rs.ext
      /\ HasHeader(TakeHeader(rs, c), m)
      /\ Agrees(after, TakeHeader(rs, c))
  BY <1>1, HeaderUnderstood
<1>3. c \in Chunk /\ c.frag = Piece(m, 0, rd.size) /\ c.frag.len \in Nat
  <2>1. c \in Chunk /\ c.frag = Piece(m, 0, rd.size)
    BY <1>1, FirstChunkType
  <2> HIDE DEF c
  <2> QED
    BY <2>1, ChunkFields
<1>4. Collecting(rs, m, 0)
  BY <1>1 DEF Collecting, Collected, Idle
<1>5. after.used /\ after.last = Header(m)
  BY DEF AfterMessage, WriterStreamType
<1>6. 0 \in 0..m.len /\ (0 # m.len \/ m.len = 0)
  BY <1>1, SMT
<1> HIDE DEF c, after
<1>7. Progress(rd, Receive(rd, c), m, 0 + c.frag.len, rd.size, after)
  BY <1>1, <1>2, <1>3, <1>4, <1>5, <1>6, PieceProgress
<1>8. 0 + c.frag.len = c.frag.len
  BY <1>3
<1> QED
  BY <1>7, <1>8 DEF c, after

\* Any other chunk of it.
LEMMA FollowingProgress ==
  ASSUME NEW rd \in ReaderType, rd.state = "reading", rd.size >= 1,
         NEW m \in Messages, NEW n \in 0..m.len, n # m.len, n > 0,
         NEW ws \in WriterStreamType,
         Agrees(AfterMessage(ws, m), rd.streams[m.csid]),
         Collecting(rd.streams[m.csid], m, n),
         \A k \in ChunkStreamIDs \ {m.csid} : Idle(rd.streams[k])
  PROVE  LET c == FollowingChunk(ws, m, n, rd.size)
         IN Progress(rd, Receive(rd, c), m, n + c.frag.len, rd.size, AfterMessage(ws, m))
<1> DEFINE c == FollowingChunk(ws, m, n, rd.size)
           rs == rd.streams[m.csid]
           after == AfterMessage(ws, m)
<1>1. rs \in ReaderStreamType /\ rd.size \in Nat /\ m.len \in Nat /\ n # 0
  BY MessageType, SMT DEF ReaderType
<1>2. after.used /\ after.last = Header(m) /\ after.ext = ws.ext
  BY DEF AfterMessage, WriterStreamType
<1>3. c.fmt = 3 /\ c.csid = m.csid /\ c.ext = ws.ext
  BY DEF FollowingChunk, Chunk3
<1>4. c \in Chunk /\ c.frag = Piece(m, n, rd.size)
  BY <1>1, FollowingChunkType
<1>5. rs.avail = TRUE /\ rs.ext = ws.ext /\ HasHeader(rs, m)
  BY <1>1, <1>2 DEF Agrees, HasHeader, Header, ReaderStreamType
<1> HIDE DEF c, after
<1>6. TakeHeader(rs, c) = rs
  BY <1>1, <1>3 DEF TakeHeader, Collecting
<1>7. ~Refuses(rs, c)
  BY <1>3, <1>5 DEF Refuses
<1>8. Agrees(after, rs)
  BY DEF after
<1> QED
  BY <1>1, <1>2, <1>3, <1>4, <1>5, <1>6, <1>7, <1>8, PieceProgress DEF c, after

\* The readers on the way: one chunk more, or the first one taken.
LEMMA CarriedMore ==
  ASSUME NEW rd, NEW cs \in Seq(Chunk), NEW rds \in Seq(ReaderType), Carried(rd, cs, rds),
         NEW c \in Chunk, NEW new \in ReaderType, new = Receive(rds[Len(rds)], c)
  PROVE  /\ Append(rds, new) \in Seq(ReaderType)
         /\ Carried(rd, Append(cs, c), Append(rds, new))
         /\ Len(Append(rds, new)) = Len(rds) + 1
         /\ Append(rds, new)[Len(rds) + 1] = new
         /\ \A i \in 1..Len(rds) : Append(rds, new)[i] = rds[i]
<1>1. /\ Len(rds) = Len(cs) + 1 /\ rds[1] = rd
      /\ \A i \in 1..Len(cs) : rds[i + 1] = Receive(rds[i], cs[i])
  BY DEF Carried
<1>2. /\ Append(rds, new) \in Seq(ReaderType)
      /\ Len(Append(rds, new)) = Len(rds) + 1
      /\ Append(rds, new)[Len(rds) + 1] = new
      /\ \A i \in 1..Len(rds) : Append(rds, new)[i] = rds[i]
      /\ Len(Append(cs, c)) = Len(cs) + 1
      /\ Append(cs, c)[Len(cs) + 1] = c
      /\ \A i \in 1..Len(cs) : Append(cs, c)[i] = cs[i]
  OBVIOUS
<1>3. Append(rds, new)[1] = rd
  BY <1>1, <1>2
<1>4. ASSUME NEW i \in 1..(Len(cs) + 1)
      PROVE  Append(rds, new)[i + 1] = Receive(Append(rds, new)[i], Append(cs, c)[i])
  <2>1. CASE i \in 1..Len(cs)
    <3>1. i + 1 \in 1..Len(rds) /\ i \in 1..Len(rds)
      BY <1>1, <2>1
    <3> QED
      BY <1>1, <1>2, <2>1, <3>1
  <2>2. CASE i = Len(cs) + 1
    <3>1. i = Len(rds) /\ i \in 1..Len(rds)
      BY <1>1, <2>2
    <3>2. /\ Append(rds, new)[i + 1] = new /\ Append(cs, c)[i] = c
          /\ Append(rds, new)[i] = rds[Len(rds)]
      BY <1>2, <2>2, <3>1
    <3> QED
      BY <3>2
  <2>3. i \in 1..Len(cs) \/ i = Len(cs) + 1
    BY SMT
  <2> QED
    BY <2>1, <2>2, <2>3, Zenon
<1> QED
  BY <1>1, <1>2, <1>3, <1>4 DEF Carried

LEMMA CarriedOn ==
  ASSUME NEW rd, NEW cs \in Seq(Chunk), cs # <<>>, NEW rds \in Seq(ReaderType),
         Carried(rd, cs, rds)
  PROVE  /\ Tail(rds) \in Seq(ReaderType)
         /\ Carried(Receive(rd, Head(cs)), Tail(cs), Tail(rds))
         /\ Len(Tail(rds)) = Len(rds) - 1 /\ Len(rds) > 1
         /\ \A i \in 1..Len(Tail(rds)) : i + 1 \in 1..Len(rds) /\ Tail(rds)[i] = rds[i + 1]
<1>1. /\ Len(rds) = Len(cs) + 1 /\ rds[1] = rd /\ Len(cs) > 0
      /\ \A i \in 1..Len(cs) : rds[i + 1] = Receive(rds[i], cs[i])
  BY DEF Carried
<1>2. rds # <<>>
  BY <1>1
<1>3. /\ Tail(rds) \in Seq(ReaderType)
      /\ Len(Tail(rds)) = Len(rds) - 1
      /\ \A i \in 1..Len(Tail(rds)) : i + 1 \in 1..Len(rds) /\ Tail(rds)[i] = rds[i + 1]
      /\ Len(Tail(cs)) = Len(cs) - 1
      /\ \A i \in 1..Len(Tail(cs)) : i + 1 \in 1..Len(cs) /\ Tail(cs)[i] = cs[i + 1]
      /\ Head(cs) = cs[1]
  BY <1>1, <1>2
<1>4. Tail(rds)[1] = Receive(rd, Head(cs))
  BY <1>1, <1>3
<1>5. ASSUME NEW i \in 1..Len(Tail(cs))
      PROVE  Tail(rds)[i + 1] = Receive(Tail(rds)[i], Tail(cs)[i])
  <2>1. i \in 1..Len(Tail(rds)) /\ i + 1 \in 1..Len(Tail(rds)) /\ i + 1 \in 1..Len(cs)
    BY <1>1, <1>3
  <2> QED
    BY <1>1, <1>3, <2>1
<1> QED
  BY <1>1, <1>3, <1>4, <1>5 DEF Carried

\* A reader stays faithful when one more message is sent, and when it returns
\* the one message it was late by.
LEMMA FaithfulSent ==
  ASSUME NEW rd \in ReaderType, NEW ms \in Seq(Messages), NEW m \in Messages,
         Faithful(rd, ms)
  PROVE  Faithful(rd, Append(ms, m))
BY DEF Faithful, ReaderType

LEMMA FaithfulNext ==
  ASSUME NEW rd \in ReaderType, NEW new \in ReaderType, NEW ms \in Seq(Messages),
         Faithful(rd, ms), new.state = "reading", Len(rd.got) + 1 = Len(ms),
         NEW r, Seen(r, ms[Len(ms)]), new.got = Append(rd.got, r)
  PROVE  Faithful(new, ms) /\ Len(new.got) = Len(ms)
<1>1. Len(new.got) = Len(rd.got) + 1
  BY DEF ReaderType
<1>2. new.got[Len(rd.got) + 1] = r /\ \A i \in 1..Len(rd.got) : new.got[i] = rd.got[i]
  BY DEF ReaderType
<1>3. Len(rd.got) \in Nat
  BY DEF ReaderType
<1> QED
  BY <1>1, <1>2, <1>3 DEF Faithful

\* With one goroutine at work all the others are idle.
LEMMA OthersIdle ==
  ASSUME TypeOK, Exclusive, NEW t \in Writers, pc[t] # "idle"
  PROVE  \A u \in Writers \ {t} : pc[u] = "idle"
BY DEF Exclusive

LEMMA NobodyInRaw ==
  ASSUME TypeOK, Exclusive, \A t \in Writers : pc[t] \notin {"first", "following"}
  PROVE  rawMutex = Nobody
BY DEF Exclusive, TypeOK

LEMMA NextOfItsStream == TypeInv /\ OfItsStream /\ [Next]_vars => OfItsStream'
<1> SUFFICES ASSUME TypeInv, OfItsStream, [Next]_vars PROVE OfItsStream'
  OBVIOUS
<1> USE DEF TypeInv, TypeOK, AtWork, OfItsStream
<1>1. CASE UNCHANGED wstreams
  BY <1>1
<1>2. ASSUME NEW t \in Writers, WriteFirst(t) PROVE OfItsStream'
  <2>1. \A c \in ChunkStreamIDs :
          wstreams'[c].used = wstreams[c].used /\ wstreams'[c].last = wstreams[c].last
    BY <1>2 DEF WriteFirst, WriterStreamType
  <2> QED
    BY <2>1
<1>3. ASSUME NEW t \in Writers, Finish(t) PROVE OfItsStream'
  <2>1. job[t] \in Messages
    BY <1>3 DEF Finish
  <2>2. /\ \A c \in ChunkStreamIDs \ {job[t].csid} : wstreams'[c] = wstreams[c]
        /\ job[t].csid \in ChunkStreamIDs =>
             wstreams'[job[t].csid].last.msid = job[t].msid
    BY <1>3, <2>1 DEF Finish, AfterMessage, Header, WriterStreamType
  <2> QED
    BY <2>1, <2>2
<1> QED
  BY <1>1, <1>2, <1>3 DEF Next, Step, Lock, Begin, WriteFollowing, ApplyChunkSize, Unlock,
                          Read, vars

\* A chunk that t has written leaves everything as a goroutine in the middle of
\* a message needs it.
LEMMA Written ==
  ASSUME TypeInv, NEW t \in Writers, NEW n \in Nat, job[t] \in Messages,
         NEW rd \in ReaderType, NEW new \in ReaderType, Faithful(rd, sent),
         Progress(rd, new, job[t], n, wsize, AfterMessage(wstreams'[job[t].csid], job[t])),
         ReadyBut(rd, {job[t].csid}), AllReturnedBut(rd, job[t]), wsize >= 1,
         \A u \in Writers \ {t} : pc'[u] = "idle",
         \A c \in ChunkStreamIDs \ {job[t].csid} : wstreams'[c] = wstreams[c],
         pc'[t] = "following", pos'[t] = n, rawMutex' = t,
         job' = job, wsize' = wsize, sent' = sent
  PROVE  Faithful(new, sent)' /\ CaughtUp(new)'
<1> DEFINE m == job[t]
<1>1. /\ m.csid \in ChunkStreamIDs /\ m.len \in Nat
      /\ sent \in Seq(Messages) /\ new.got \in Seq(ReceivedMessage)
  BY MessageType DEF TypeInv, TypeOK, ReaderType
<1>2. Faithful(new, sent) /\ (n = m.len => AllReturned(new))
      /\ (n # m.len => AllReturnedBut(new, m))
  <2>1. CASE n = m.len
    <3>1. PICK r : Seen(r, m) /\ new.got = Append(rd.got, r)
      BY <2>1 DEF Progress
    <3>2. Len(rd.got) + 1 = Len(sent) /\ Seen(r, sent[Len(sent)]) /\ new.state = "reading"
      BY <3>1 DEF AllReturnedBut, Progress
    <3> QED
      BY <1>1, <2>1, <3>1, <3>2, FaithfulNext DEF AllReturned
  <2>2. CASE n # m.len
    BY <2>2 DEF Progress, Faithful, AllReturnedBut
  <2> QED
    BY <2>1, <2>2
<1>3. Faithful(new, sent)'
  BY <1>2 DEF Faithful
<1>4. BetweenMessages(new)'
  BY WritersAssumption DEF BetweenMessages
<1>5. ASSUME NEW u \in Writers PROVE BeforeFirst(new, u)'
  BY DEF BeforeFirst
<1>6. BeforeFollowing(new, t)'
  <2>1. ReadyBut(new, {m.csid})'
    BY DEF ReadyBut, Progress
  <2>2. Agrees(AfterMessage(wstreams[m.csid], m), new.streams[m.csid])'
    BY DEF Progress
  <2>3. n # m.len => n > 0 /\ Collecting(new.streams[m.csid], m, n)
    BY DEF Progress
  <2>4. n = m.len => Idle(new.streams[m.csid])
    BY DEF Progress
  <2>5. (n # m.len => AllReturnedBut(new, m)') /\ (n = m.len => AllReturned(new)')
    BY <1>2 DEF AllReturnedBut, AllReturned
  <2> QED
    BY <2>1, <2>2, <2>3, <2>4, <2>5 DEF BeforeFollowing
<1>7. ASSUME NEW u \in Writers PROVE BeforeFollowing(new, u)'
  <2>1. CASE u = t
    BY <1>6, <2>1
  <2>2. CASE u # t
    BY <2>2 DEF BeforeFollowing
  <2> QED
    BY <2>1, <2>2
<1>8. SizeInStep(new)'
  <2>1. new.size = IF n = m.len THEN SizeAfter(m, wsize) ELSE wsize
    BY DEF Progress
  <2> QED
    BY <2>1 DEF SizeInStep
<1> QED
  BY <1>3, <1>4, <1>5, <1>7, <1>8 DEF CaughtUp

(***************************************************************************)
(* The inductive invariant of delivery, action by action.                  *)
(***************************************************************************)
LEMMA InitDelivery == Init => DeliveryInv
<1> SUFFICES ASSUME Init PROVE DeliveryInv
  OBVIOUS
<1>1. TypeInv /\ Exclusive
  BY InitType, InitExclusive
<1>2. OfItsStream
  BY DEF Init, OfItsStream, NewWriterStream
<1>3. reader \in ReaderType /\ reader = NewReader
  BY <1>1 DEF TypeInv, TypeOK, Init
<1>4. <<reader>> \in Seq(ReaderType) /\ Carried(reader, wire, <<reader>>)
  BY <1>3 DEF Init, Carried
<1>5. Faithful(reader, sent)
  BY <1>3 DEF Init, Faithful, NewReader
<1>6. CaughtUp(reader)
  <2>1. /\ \A t \in Writers : pc[t] = "idle"
        /\ wsize = reader.size /\ wsize >= 1
    BY <1>3, FormatAssumption, SMT DEF Init, NewReader
  <2>2. ReadyBut(reader, {})
    <3>1. Agrees(NewWriterStream, NewReaderStream) /\ Idle(NewReaderStream)
      BY DEF Agrees, Idle, NewReaderStream, NewWriterStream
    <3>2. \A c \in ChunkStreamIDs :
            wstreams[c] = NewWriterStream /\ reader.streams[c] = NewReaderStream
      <4>1. /\ wstreams = [c \in ChunkStreamIDs |-> NewWriterStream]
            /\ reader.streams = [c \in ChunkStreamIDs |-> NewReaderStream]
        BY <1>3 DEF Init, NewReader
      <4> QED
        BY <4>1
    <3> QED
      BY <3>1, <3>2 DEF ReadyBut
  <2>3. AllReturned(reader)
    BY <1>3 DEF Init, AllReturned, NewReader
  <2> QED
    BY <2>1, <2>2, <2>3
    DEF CaughtUp, BetweenMessages, BeforeFirst, BeforeFollowing, SizeInStep
<1>7. Carriage
  <2>1. Len(<<reader>>) = 1 /\ <<reader>>[1] = reader
    OBVIOUS
  <2>2. \A i \in 1..Len(<<reader>>) : Faithful(<<reader>>[i], sent)
    BY <1>5, <2>1
  <2>3. CaughtUp(<<reader>>[Len(<<reader>>)])
    BY <1>6, <2>1
  <2> QED
    BY <1>4, <2>2, <2>3 DEF Carriage
<1> QED
  BY <1>1, <1>2, <1>7 DEF DeliveryInv

\* A step that writes no chunk and reads none needs only the last reader.
LEMMA SameReaders ==
  ASSUME NEW rds \in Seq(ReaderType), Carried(reader, wire, rds),
         \A i \in 1..Len(rds) : Faithful(rds[i], sent)',
         CaughtUp(rds[Len(rds)])', UNCHANGED <<reader, wire>>
  PROVE  Carriage'
<1>1. Carried(reader', wire', rds)
  BY DEF Carried
<1> QED
  BY <1>1 DEF Carriage

\* A step that writes a chunk adds a reader.
LEMMA OneMoreReader ==
  ASSUME TypeOK, NEW rds \in Seq(ReaderType), Carried(reader, wire, rds),
         \A i \in 1..Len(rds) : Faithful(rds[i], sent)',
         NEW c \in Chunk, wire' = Append(wire, c), UNCHANGED reader,
         Faithful(Receive(rds[Len(rds)], c), sent)',
         CaughtUp(Receive(rds[Len(rds)], c))'
  PROVE  Carriage'
<1> DEFINE new == Receive(rds[Len(rds)], c)
           more == Append(rds, new)
<1>1. rds[Len(rds)] \in ReaderType /\ Len(rds) \in Nat
  BY DEF Carried, TypeOK
<1>2. new \in ReaderType
  BY <1>1, ReceiveType
<1> HIDE DEF new
<1>3. /\ more \in Seq(ReaderType)
      /\ Carried(reader, Append(wire, c), more)
      /\ Len(more) = Len(rds) + 1
      /\ more[Len(rds) + 1] = new
      /\ \A i \in 1..Len(rds) : more[i] = rds[i]
  <2>1. new = Receive(rds[Len(rds)], c) /\ wire \in Seq(Chunk)
    BY DEF new, TypeOK
  <2> QED
    BY <1>2, <2>1, CarriedMore
<1> HIDE DEF more
<1>4. Carried(reader', wire', more)
  BY <1>3
<1>5. ASSUME NEW i \in 1..Len(more) PROVE Faithful(more[i], sent)'
  <2>1. i \in 1..Len(rds) \/ i = Len(rds) + 1
    BY <1>1, <1>3, SMT
  <2> QED
    BY <1>3, <2>1 DEF new
<1>6. CaughtUp(more[Len(more)])'
  BY <1>3 DEF new
<1> QED
  BY <1>3, <1>4, <1>5, <1>6 DEF Carriage

LEMMA NextDelivery == DeliveryInv /\ [Next]_vars => DeliveryInv'
<1> SUFFICES ASSUME DeliveryInv, [Next]_vars PROVE DeliveryInv'
  OBVIOUS
<1>1. /\ TypeInv /\ TypeOK /\ AtWork /\ Exclusive /\ OfItsStream
      /\ TypeInv' /\ Exclusive' /\ OfItsStream'
  BY NextType, NextExclusive, NextOfItsStream DEF DeliveryInv, TypeInv
<1>2. PICK rds \in Seq(ReaderType) :
        /\ Carried(reader, wire, rds)
        /\ \A i \in 1..Len(rds) : Faithful(rds[i], sent)
        /\ CaughtUp(rds[Len(rds)])
  BY DEF DeliveryInv, Carriage
<1> DEFINE last == rds[Len(rds)]
<1>3. Len(rds) \in Nat /\ Len(rds) = Len(wire) + 1 /\ wire \in Seq(Chunk)
  BY <1>1, <1>2 DEF Carried, TypeOK
<1>4. last \in ReaderType /\ Faithful(last, sent) /\ CaughtUp(last)
  BY <1>2, <1>3
<1> HIDE DEF last
<1>5. UNCHANGED sent => \A i \in 1..Len(rds) : Faithful(rds[i], sent)'
  BY <1>2
<1>6. ASSUME UNCHANGED <<reader, wire, sent>>, CaughtUp(last)'
      PROVE  Carriage'
  BY <1>2, <1>5, <1>6, SameReaders DEF last
<1>7. ASSUME NEW t \in Writers, NEW m \in Messages, Lock(t, m) PROVE Carriage'
  <2>1. /\ pc[t] = "idle" /\ pc' = [pc EXCEPT ![t] = "begin"] /\ job' = [job EXCEPT ![t] = m]
        /\ UNCHANGED <<rawMutex, pos, wstreams, wsize, wire, reader, sent>>
    BY <1>7 DEF Lock
  <2>2. pc'[t] = "begin" /\ \A u \in Writers \ {t} : pc'[u] = pc[u] /\ job'[u] = job[u]
    BY <1>1, <2>1 DEF TypeOK
  <2>3. CaughtUp(last)'
    BY <1>4, <2>1, <2>2
    DEF CaughtUp, BetweenMessages, BeforeFirst, BeforeFollowing, SizeInStep, ReadyBut,
        AllReturned, AllReturnedBut
  <2> QED
    BY <1>6, <2>1, <2>3
<1>8. ASSUME NEW t \in Writers, Begin(t) PROVE Carriage'
  <2> DEFINE m == job[t]
  <2>1. /\ pc[t] = "begin" /\ rawMutex = Nobody /\ rawMutex' = t
        /\ pc' = [pc EXCEPT ![t] = "first"] /\ sent' = Append(sent, m)
        /\ pos' = [pos EXCEPT ![t] = 0]
        /\ UNCHANGED <<messageMutex, job, wstreams, wsize, wire, reader>>
    BY <1>8 DEF Begin
  <2>2. m \in Messages /\ sent \in Seq(Messages)
    BY <1>1, <2>1 DEF AtWork, TypeOK
  <2>3. /\ pc'[t] = "first" /\ \A u \in Writers \ {t} : pc[u] = "idle" /\ pc'[u] = "idle"
    BY <1>1, <2>1, OthersIdle DEF TypeOK
  <2>4. Len(sent') = Len(sent) + 1 /\ sent'[Len(sent')] = m
    BY <2>1, <2>2
  <2>5. \A i \in 1..Len(rds) : Faithful(rds[i], sent)'
    <3>1. ASSUME NEW i \in 1..Len(rds) PROVE Faithful(rds[i], Append(sent, m))
      BY <1>2, <2>2, FaithfulSent
    <3> QED
      BY <2>1, <3>1
  <2>6. ReadyBut(last, {}) /\ AllReturned(last)
    BY <1>4, <2>1 DEF CaughtUp, BetweenMessages
  <2>7. ReadyBut(last, {})'
    BY <2>1, <2>6 DEF ReadyBut
  <2>8. AllReturnedBut(last, m)'
    BY <2>1, <2>4, <2>6 DEF AllReturned, AllReturnedBut
  <2>9. wsize >= 1 /\ last.size = wsize
    BY <1>4, <2>1, <2>3 DEF CaughtUp, SizeInStep
  <2>10. CaughtUp(last)'
    <3>1. BetweenMessages(last)'
      BY <2>1, WritersAssumption DEF BetweenMessages
    <3>2. \A u \in Writers : BeforeFirst(last, u)' /\ BeforeFollowing(last, u)'
      BY <2>1, <2>3, <2>7, <2>8 DEF BeforeFirst, BeforeFollowing
    <3>3. SizeInStep(last)'
      BY <2>1, <2>3, <2>9 DEF SizeInStep
    <3> QED
      BY <3>1, <3>2, <3>3 DEF CaughtUp
  <2> QED
    BY <1>2, <2>1, <2>5, <2>10, SameReaders DEF last
<1>9. ASSUME NEW t \in Writers, WriteFirst(t) PROVE Carriage'
  <2> DEFINE m == job[t]
             ws == wstreams[m.csid]
  <2>1. m \in Messages /\ m.csid \in ChunkStreamIDs /\ ws \in WriterStreamType /\ wsize \in Nat
    <3>1. m \in Messages
      BY <1>1, <1>9 DEF AtWork, WriteFirst
    <3> QED
      BY <1>1, <3>1, MessageType DEF TypeOK
  <2>2. PICK c \in Chunk : c = FirstChunk(ws, m, wsize)
    BY <2>1, FirstChunkType
  <2> DEFINE n == c.frag.len
  <2>3. /\ pc[t] = "first" /\ wire' = Append(wire, c)
        /\ pos' = [pos EXCEPT ![t] = n]
        /\ wstreams' = [wstreams EXCEPT ![m.csid] = [ws EXCEPT !.ext = ExtAfter(ws, m)]]
        /\ pc' = [pc EXCEPT ![t] = "following"]
        /\ UNCHANGED <<messageMutex, rawMutex, job, wsize, reader, sent>>
    BY <1>9, <2>2 DEF WriteFirst
  <2>4. /\ pc'[t] = "following" /\ pos'[t] = n /\ rawMutex' = t
        /\ \A u \in Writers \ {t} : pc[u] = "idle" /\ pc'[u] = "idle"
    BY <1>1, <2>3, OthersIdle DEF TypeOK, Exclusive
  <2>5. ReadyBut(last, {}) /\ AllReturnedBut(last, m)
    BY <1>4, <2>3 DEF CaughtUp, BeforeFirst
  <2>6. wsize >= 1 /\ last.size = wsize
    BY <1>4, <2>3, <2>4 DEF CaughtUp, SizeInStep
  <2>7. n \in Nat
    BY ChunkFields
  <2>8. Progress(last, Receive(last, c), m, n, wsize,
                 AfterMessage([ws EXCEPT !.ext = ExtAfter(ws, m)], m))
    <3>1. Agrees(ws, last.streams[m.csid]) /\ \A k \in ChunkStreamIDs : Idle(last.streams[k])
      BY <2>1, <2>5 DEF ReadyBut
    <3>2. ws.used => \E o \in Messages : o.csid = m.csid /\ o.msid = ws.last.msid
      BY <1>1, <2>1 DEF OfItsStream
    <3>3. last.state = "reading" /\ last.size >= 1
      BY <1>4, <2>6 DEF Faithful
    <3> QED
      BY <1>4, <2>1, <2>2, <2>6, <3>1, <3>2, <3>3, FirstProgress
  <2> HIDE DEF n
  <2>9. Receive(last, c) \in ReaderType
    BY <1>4, ReceiveType
  <2>10. /\ wstreams'[m.csid] = [ws EXCEPT !.ext = ExtAfter(ws, m)]
        /\ \A k \in ChunkStreamIDs \ {m.csid} : wstreams'[k] = wstreams[k]
    BY <1>1, <2>1, <2>3 DEF TypeOK
  <2>11. ReadyBut(last, {m.csid})
    BY <2>5 DEF ReadyBut
  <2>12. Faithful(Receive(last, c), sent)' /\ CaughtUp(Receive(last, c))'
    BY <1>1, <1>4, <2>1, <2>3, <2>4, <2>5, <2>6, <2>7, <2>8, <2>9, <2>10, <2>11, Written
  <2> QED
    BY <1>1, <1>2, <1>5, <2>2, <2>3, <2>12, OneMoreReader DEF last
<1>10. ASSUME NEW t \in Writers, WriteFollowing(t) PROVE Carriage'
  <2> DEFINE m == job[t]
             ws == wstreams[m.csid]
  <2>1. /\ m \in Messages /\ m.csid \in ChunkStreamIDs /\ ws \in WriterStreamType
        /\ wsize \in Nat /\ pos[t] \in 0..m.len
    <3>1. m \in Messages /\ pos[t] \in Nat /\ pos[t] <= m.len
      BY <1>1, <1>10 DEF AtWork, TypeOK, WriteFollowing
    <3>2. m.len \in Nat
      BY <3>1, MessageType
    <3> QED
      BY <1>1, <3>1, <3>2, MessageType DEF TypeOK
  <2>2. PICK c \in Chunk : c = FollowingChunk(ws, m, pos[t], wsize)
    BY <2>1, FollowingChunkType
  <2>3. PICK n \in Nat : n = pos[t] + c.frag.len
    BY <2>1, ChunkFields
  <2>4. /\ pc[t] = "following" /\ pos[t] # m.len /\ wire' = Append(wire, c)
        /\ pos' = [pos EXCEPT ![t] = n]
        /\ UNCHANGED <<messageMutex, rawMutex, pc, job, wstreams, wsize, reader, sent>>
    BY <1>10, <2>2, <2>3 DEF WriteFollowing
  <2>5. /\ pc'[t] = "following" /\ pos'[t] = n /\ rawMutex' = t
        /\ \A u \in Writers \ {t} : pc[u] = "idle" /\ pc'[u] = "idle"
    BY <1>1, <2>4, OthersIdle DEF TypeOK, Exclusive
  <2>6. /\ ReadyBut(last, {m.csid}) /\ AllReturnedBut(last, m)
        /\ Agrees(AfterMessage(ws, m), last.streams[m.csid])
        /\ pos[t] > 0 /\ Collecting(last.streams[m.csid], m, pos[t])
    BY <1>4, <2>4 DEF CaughtUp, BeforeFollowing
  <2>7. wsize >= 1 /\ last.size = wsize
    BY <1>4, <2>4, <2>5 DEF CaughtUp, SizeInStep
  <2>8. Progress(last, Receive(last, c), m, n, wsize, AfterMessage(ws, m))
    <3>1. \A k \in ChunkStreamIDs \ {m.csid} : Idle(last.streams[k])
      BY <2>6 DEF ReadyBut
    <3>2. last.state = "reading" /\ last.size >= 1
      BY <1>4, <2>7 DEF Faithful
    <3> QED
      BY <1>4, <2>1, <2>2, <2>3, <2>4, <2>6, <2>7, <3>1, <3>2, FollowingProgress
  <2>9. Receive(last, c) \in ReaderType
    BY <1>4, ReceiveType
  <2>10. wstreams' = wstreams
    BY <2>4
  <2>11. Faithful(Receive(last, c), sent)' /\ CaughtUp(Receive(last, c))'
    BY <1>1, <1>4, <2>1, <2>3, <2>4, <2>5, <2>6, <2>7, <2>8, <2>9, <2>10, Written
  <2> QED
    BY <1>1, <1>2, <1>5, <2>2, <2>4, <2>11, OneMoreReader DEF last
<1>11. ASSUME NEW t \in Writers, Finish(t) PROVE Carriage'
  <2> DEFINE m == job[t]
             ws == wstreams[m.csid]
  <2>1. /\ pc[t] = "following" /\ pos[t] = m.len
        /\ wstreams' = [wstreams EXCEPT ![m.csid] = AfterMessage(ws, m)]
        /\ rawMutex' = Nobody
        /\ pc' = [pc EXCEPT ![t] = IF m.typ = SetChunkSizeType THEN "apply" ELSE "unlock"]
        /\ UNCHANGED <<messageMutex, job, pos, wsize, wire, reader, sent>>
    BY <1>11 DEF Finish
  <2>2. m \in Messages /\ m.csid \in ChunkStreamIDs
    <3>1. m \in Messages
      BY <1>1, <2>1 DEF AtWork
    <3> QED
      BY <3>1, MessageType
  <2>3. /\ pc'[t] = IF m.typ = SetChunkSizeType THEN "apply" ELSE "unlock"
        /\ \A u \in Writers \ {t} : pc[u] = "idle" /\ pc'[u] = "idle"
    BY <1>1, <2>1, OthersIdle DEF TypeOK
  <2>4. /\ ReadyBut(last, {m.csid}) /\ Agrees(AfterMessage(ws, m), last.streams[m.csid])
        /\ Idle(last.streams[m.csid]) /\ AllReturned(last)
    BY <1>4, <2>1 DEF CaughtUp, BeforeFollowing
  <2>5. wsize >= 1 /\ last.size = SizeAfter(m, wsize)
    BY <1>4, <2>1 DEF CaughtUp, SizeInStep
  <2>6. /\ wstreams'[m.csid] = AfterMessage(ws, m)
        /\ \A k \in ChunkStreamIDs \ {m.csid} : wstreams'[k] = wstreams[k]
    BY <1>1, <2>1, <2>2 DEF TypeOK
  <2>7. ReadyBut(last, {})' /\ AllReturned(last)'
    BY <2>1, <2>4, <2>6 DEF ReadyBut, AllReturned
  <2>8. CaughtUp(last)'
    <3>1. BetweenMessages(last)'
      BY <2>7 DEF BetweenMessages
    <3>2. \A u \in Writers : BeforeFirst(last, u)' /\ BeforeFollowing(last, u)'
      BY <2>1, <2>3 DEF BeforeFirst, BeforeFollowing
    <3>3. SizeInStep(last)'
      <4>1. m.typ # SetChunkSizeType => last.size = wsize
        BY <2>5 DEF SizeAfter
      <4>2. \A u \in Writers : pc'[u] = "apply" => u = t /\ m.typ = SetChunkSizeType
        BY <2>3
      <4>3. \A u \in Writers : pc'[u] # "following"
        BY <2>3
      <4>4. (\A u \in Writers : pc'[u] \notin {"following", "apply"}) => last.size = wsize
        BY <2>3, <4>1
      <4> QED
        BY <2>1, <2>5, <4>2, <4>3, <4>4 DEF SizeInStep
    <3> QED
      BY <3>1, <3>2, <3>3 DEF CaughtUp
  <2> QED
    BY <1>6, <2>1, <2>8
<1>12. ASSUME NEW t \in Writers, ApplyChunkSize(t) PROVE Carriage'
  <2> DEFINE m == job[t]
  <2>1. /\ pc[t] = "apply" /\ wsize' = Value[m.body]
        /\ pc' = [pc EXCEPT ![t] = "unlock"]
        /\ UNCHANGED <<messageMutex, rawMutex, job, pos, wstreams, wire, reader, sent>>
    BY <1>12 DEF ApplyChunkSize
  <2>2. /\ pc'[t] = "unlock"
        /\ \A u \in Writers \ {t} : pc[u] = "idle" /\ pc'[u] = "idle"
    BY <1>1, <2>1, OthersIdle DEF TypeOK
  <2>3. m \in Messages
    BY <1>1, <2>1 DEF AtWork
  <2>4. m.typ = SetChunkSizeType /\ last.size = SizeAfter(m, wsize)
    BY <1>4, <2>1 DEF CaughtUp, SizeInStep
  <2>5. wsize' >= 1 /\ last.size = wsize'
    BY <2>1, <2>3, <2>4, MessagesAssumption, SMT DEF SizeAfter
  <2>6. CaughtUp(last)'
    <3>1. BetweenMessages(last)'
      BY <1>4, <2>1 DEF CaughtUp, BetweenMessages, ReadyBut, AllReturned
    <3>2. \A u \in Writers : BeforeFirst(last, u)' /\ BeforeFollowing(last, u)'
      BY <2>2 DEF BeforeFirst, BeforeFollowing
    <3>3. SizeInStep(last)'
      BY <2>2, <2>5 DEF SizeInStep
    <3> QED
      BY <3>1, <3>2, <3>3 DEF CaughtUp
  <2> QED
    BY <1>6, <2>1, <2>6
<1>13. ASSUME NEW t \in Writers, Unlock(t) PROVE Carriage'
  <2>1. /\ pc[t] = "unlock" /\ pc' = [pc EXCEPT ![t] = "idle"]
        /\ UNCHANGED <<rawMutex, pos, wstreams, wsize, wire, reader, sent>>
    BY <1>13 DEF Unlock
  <2>2. /\ pc'[t] = "idle"
        /\ \A u \in Writers \ {t} : pc[u] = "idle" /\ pc'[u] = "idle"
    BY <1>1, <2>1, OthersIdle DEF TypeOK
  <2>3. wsize >= 1 /\ last.size = wsize
    BY <1>4, <2>1, <2>2 DEF CaughtUp, SizeInStep
  <2>4. CaughtUp(last)'
    <3>1. BetweenMessages(last)'
      BY <1>4, <2>1 DEF CaughtUp, BetweenMessages, ReadyBut, AllReturned
    <3>2. \A u \in Writers : BeforeFirst(last, u)' /\ BeforeFollowing(last, u)'
      BY <2>2 DEF BeforeFirst, BeforeFollowing
    <3>3. SizeInStep(last)'
      BY <2>1, <2>2, <2>3 DEF SizeInStep
    <3> QED
      BY <3>1, <3>2, <3>3 DEF CaughtUp
  <2> QED
    BY <1>6, <2>1, <2>4
<1>14. ASSUME Read PROVE Carriage'
  <2>1. /\ wire # <<>> /\ reader' = Receive(reader, Head(wire)) /\ wire' = Tail(wire)
        /\ UNCHANGED <<messageMutex, rawMutex, pc, job, pos, wstreams, wsize, sent>>
    BY <1>14 DEF Read
  <2>2. /\ Tail(rds) \in Seq(ReaderType)
        /\ Carried(Receive(reader, Head(wire)), Tail(wire), Tail(rds))
        /\ Len(Tail(rds)) = Len(rds) - 1 /\ Len(rds) > 1
        /\ \A i \in 1..Len(Tail(rds)) : i + 1 \in 1..Len(rds) /\ Tail(rds)[i] = rds[i + 1]
    BY <1>2, <1>3, <2>1, CarriedOn
  <2>3. Carried(reader', wire', Tail(rds))
    BY <2>1, <2>2
  <2>4. \A i \in 1..Len(Tail(rds)) : Faithful(Tail(rds)[i], sent)'
    BY <1>2, <2>1, <2>2
  <2>5. Tail(rds)[Len(Tail(rds))] = last
    <3>1. Len(Tail(rds)) \in 1..Len(Tail(rds)) /\ Len(Tail(rds)) + 1 = Len(rds)
      BY <1>3, <2>2
    <3> QED
      BY <2>2, <3>1 DEF last
  <2>6. CaughtUp(last)'
    BY <1>4, <2>1
    DEF CaughtUp, BetweenMessages, BeforeFirst, BeforeFollowing, SizeInStep, ReadyBut,
        AllReturned, AllReturnedBut
  <2> QED
    BY <2>2, <2>3, <2>4, <2>5, <2>6 DEF Carriage
<1>15. ASSUME UNCHANGED vars PROVE Carriage'
  <2>1. CaughtUp(last)'
    BY <1>4, <1>15
    DEF vars, CaughtUp, BetweenMessages, BeforeFirst, BeforeFollowing, SizeInStep, ReadyBut,
        AllReturned, AllReturnedBut
  <2> QED
    BY <1>6, <1>15, <2>1 DEF vars
<1> QED
  BY <1>1, <1>7, <1>8, <1>9, <1>10, <1>11, <1>12, <1>13, <1>14, <1>15
  DEF Next, Step, DeliveryInv

LEMMA Delivery == Spec => []DeliveryInv
BY InitDelivery, NextDelivery, PTL DEF Spec

\* The reader is the first of the readers on the way.
ReaderFaithful ==
  reader \in ReaderType /\ sent \in Seq(Messages) /\ Faithful(reader, sent)

LEMMA FirstOfReaders == DeliveryInv => ReaderFaithful
<1> SUFFICES ASSUME DeliveryInv PROVE ReaderFaithful
  OBVIOUS
<1>1. reader \in ReaderType /\ sent \in Seq(Messages) /\ wire \in Seq(Chunk)
  BY DEF DeliveryInv, TypeInv, TypeOK
<1>2. PICK rds \in Seq(ReaderType) :
        Carried(reader, wire, rds) /\ \A i \in 1..Len(rds) : Faithful(rds[i], sent)
  BY DEF DeliveryInv, Carriage
<1>3. 1 \in 1..Len(rds) /\ rds[1] = reader
  BY <1>1, <1>2 DEF Carried
<1> QED
  BY <1>1, <1>2, <1>3 DEF ReaderFaithful

\* Whatever chunk sizes are announced, timestamps go back or wrap, and
\* goroutines and chunk streams interleave, the reader takes as many bytes as
\* the writer put and refuses no header (reader.go:72-234 against
\* writer.go:47-156).
THEOREM AlwaysInFrame == Spec => []StaysInFrame
<1>1. DeliveryInv => StaysInFrame
  BY FirstOfReaders DEF ReaderFaithful, Faithful, StaysInFrame
<1> QED
  BY <1>1, Delivery, PTL

\* What a faithful reader has returned.
LEMMA SeenIntact ==
  ASSUME OneMessageStream, NEW m \in Messages, NEW r, Seen(r, m)
  PROVE  r = AsReceived(m)
BY StampedExactly DEF Seen

\* What the reader returns is what the writers wrote, message by message, in the
\* order in which they got the mutex, timestamps included, as long as no chunk
\* stream id is shared by two message streams (writer.go:222-233,
\* reader.go:308-342).
THEOREM DeliveredIntact ==
  ASSUME OneMessageStream
  PROVE  Spec => []Intact
<1>1. DeliveryInv => Intact
  <2> SUFFICES ASSUME DeliveryInv PROVE Intact
    OBVIOUS
  <2>1. reader \in ReaderType /\ sent \in Seq(Messages) /\ Faithful(reader, sent)
    BY FirstOfReaders DEF ReaderFaithful
  <2>2. ASSUME NEW i \in DOMAIN reader.got PROVE reader.got[i] = AsReceived(sent[i])
    <3>1. i \in 1..Len(reader.got) /\ i \in 1..Len(sent)
      BY <2>1 DEF Faithful, ReaderType
    <3>2. sent[i] \in Messages /\ Seen(reader.got[i], sent[i])
      BY <2>1, <3>1 DEF Faithful
    <3> QED
      BY <3>2, SeenIntact
  <2> QED
    BY <2>1, <2>2 DEF Intact, Faithful
<1> QED
  BY <1>1, Delivery, PTL

\* With nothing in flight and nobody writing, both ends hold the same state of
\* every chunk stream and the same chunk size, on the same condition
\* (writer.go:14-23 and reader.go:29-40).
THEOREM BothInStep ==
  ASSUME OneMessageStream
  PROVE  Spec => []InStep
<1>1. DeliveryInv => InStep
  <2> SUFFICES ASSUME DeliveryInv, messageMutex = Nobody, wire = <<>>
               PROVE  /\ wsize = reader.size
                      /\ \A c \in ChunkStreamIDs : Mirrors(wstreams[c], reader.streams[c])
    BY DEF InStep
  <2>1. TypeOK /\ Exclusive
    BY DEF DeliveryInv, TypeInv
  <2>2. \A t \in Writers : pc[t] = "idle"
    BY <2>1, WritersAssumption DEF Exclusive
  <2>3. rawMutex = Nobody
    BY <2>1, <2>2, NobodyInRaw
  <2>4. CaughtUp(reader)
    <3>1. PICK rds \in Seq(ReaderType) : Carried(reader, wire, rds) /\ CaughtUp(rds[Len(rds)])
      BY DEF DeliveryInv, Carriage
    <3>2. Len(rds) = 1 /\ rds[1] = reader
      BY <3>1 DEF Carried
    <3> QED
      BY <3>1, <3>2
  <2>5. wsize = reader.size
    BY <2>2, <2>4 DEF CaughtUp, SizeInStep
  <2>6. \A c \in ChunkStreamIDs :
          Agrees(wstreams[c], reader.streams[c]) /\ Idle(reader.streams[c])
    BY <2>3, <2>4 DEF CaughtUp, BetweenMessages, ReadyBut
  <2>7. \A c \in ChunkStreamIDs : Mirrors(wstreams[c], reader.streams[c])
    BY <2>6 DEF Mirrors, Agrees, Idle
  <2> QED
    BY <2>5, <2>7
<1> QED
  BY <1>1, Delivery, PTL

(***************************************************************************)
(* The refinement: every step of the mutexes, the chunks and the headers   *)
(* is a step of the channel of messages, or none.                          *)
(***************************************************************************)

\* A chunk completes one message at most.
LEMMA OneMessageAtMost ==
  ASSUME NEW rd \in ReaderType, NEW c \in Chunk
  PROVE  \/ Receive(rd, c).got = rd.got
         \/ \E r : Receive(rd, c).got = Append(rd.got, r)
<1>1. ASSUME NEW d \in ReaderType, NEW m, d.got = rd.got
      PROVE  \/ Deliver(d, m).got = rd.got
             \/ Deliver(d, m).got = Append(rd.got, m)
  <2>1. Apply(d, m).got = rd.got
    BY <1>1 DEF Apply, ApplySetChunkSize, ApplyAbort, ReaderType
  <2>2. DOMAIN Apply(d, m) = DOMAIN d
    BY <1>1 DEF Apply, ApplySetChunkSize, ApplyAbort, ReaderType
  <2>3. [Apply(d, m) EXCEPT !.got = Append(d.got, m)].got = Append(rd.got, m)
    BY <1>1, <2>2 DEF ReaderType
  <2> QED
    BY <1>1, <2>1, <2>3 DEF Deliver
<1> DEFINE rs == TakeFragment(TakeHeader(rd.streams[c.csid], c), c.frag)
           done == [rd EXCEPT !.streams[c.csid] = Cleared(rs)]
<1>2. done \in ReaderType /\ done.got = rd.got
  <2>1. c.csid \in ChunkStreamIDs /\ rd.streams[c.csid] \in ReaderStreamType
        /\ c.frag \in Fragment
    BY ChunkFields DEF ReaderType
  <2>2. Cleared(rs) \in ReaderStreamType
    BY <2>1, TakeHeaderType, TakeFragmentType, ClearedType
  <2> HIDE DEF rs
  <2> QED
    BY <2>1, <2>2 DEF ReaderType
<1>3. \/ Accept(rd, c).got = rd.got
      \/ \E r : Accept(rd, c).got = Append(rd.got, r)
  <2>1. \/ Accept(rd, c) = [rd EXCEPT !.state = "refused"]
        \/ Accept(rd, c) = [rd EXCEPT !.streams[c.csid] = rs]
        \/ Accept(rd, c) = Deliver(done, Assembled(c.csid, rs))
    BY DEF Accept
  <2> HIDE DEF rs, done
  <2> QED
    BY <1>1, <1>2, <2>1 DEF ReaderType
<1> QED
  BY <1>3 DEF Receive, ReaderType

LEMMA ReadDelivers ==
  ASSUME OneMessageStream, TypeOK, ReaderFaithful, ReaderFaithful', Read
  PROVE  [Channel!Deliver]_<<sent, reader.got>>
<1>1. /\ reader \in ReaderType /\ sent \in Seq(Messages) /\ Faithful(reader, sent)
      /\ reader' \in ReaderType /\ Faithful(reader', sent')
  BY DEF ReaderFaithful
<1>2. /\ reader' = Receive(reader, Head(wire)) /\ Head(wire) \in Chunk /\ sent' = sent
  BY DEF Read, TypeOK
<1>3. CASE reader'.got = reader.got
  BY <1>2, <1>3
<1>4. ASSUME NEW r, reader'.got = Append(reader.got, r)
      PROVE  Channel!Deliver
  <2>1. Len(reader'.got) = Len(reader.got) + 1 /\ reader'.got[Len(reader.got) + 1] = r
        /\ Len(reader.got) \in Nat
    BY <1>1, <1>4 DEF ReaderType
  <2>2. Len(reader.got) + 1 \in 1..Len(sent) /\ Seen(r, sent[Len(reader.got) + 1])
    BY <1>1, <1>2, <2>1 DEF Faithful
  <2>3. sent[Len(reader.got) + 1] \in Messages
    BY <1>1, <2>2
  <2>4. r = AsReceived(sent[Len(reader.got) + 1])
    BY <2>2, <2>3, SeenIntact
  <2> QED
    BY <1>2, <1>4, <2>1, <2>2, <2>4 DEF Channel!Deliver
<1> QED
  BY <1>1, <1>2, <1>3, <1>4, OneMessageAtMost

\* Every behaviour of the chunk streams is, seen from the messages written and
\* returned, a behaviour of a channel that returns each message once, whole and
\* in the order of the mutex: the safety part of ImplementsChannel.
THEOREM ChannelSteps ==
  ASSUME OneMessageStream
  PROVE  Spec => Channel!Init /\ [][Channel!Next]_<<sent, reader.got>>
<1>1. Init => Channel!Init
  BY DEF Init, NewReader, Channel!Init
<1>2. DeliveryInv /\ ReaderFaithful /\ ReaderFaithful' /\ [Next]_vars
        => [Channel!Next]_<<sent, reader.got>>
  <2> SUFFICES ASSUME DeliveryInv, ReaderFaithful, ReaderFaithful', [Next]_vars
               PROVE  [Channel!Next]_<<sent, reader.got>>
    OBVIOUS
  <2>1. ASSUME NEW t \in Writers, Begin(t) PROVE Channel!Send
    <3>1. job[t] \in Messages
      BY <2>1 DEF DeliveryInv, TypeInv, AtWork, Begin
    <3> QED
      BY <2>1, <3>1 DEF Begin, Channel!Send
  <2>2. CASE Read
    BY <2>2, ReadDelivers DEF Channel!Next, DeliveryInv, TypeInv
  <2>3. CASE UNCHANGED <<sent, reader>>
    BY <2>3
  <2> QED
    BY <2>1, <2>2, <2>3
    DEF Next, Step, Lock, WriteFirst, WriteFollowing, Finish, ApplyChunkSize, Unlock, vars,
        Channel!Next
<1> QED
  BY <1>1, <1>2, FirstOfReaders, Delivery, PTL DEF Spec
===============================================================================
