------------------------------ MODULE RawWriter ------------------------------
(***************************************************************************)
(* writerChunkStream of pkg/rawmessage/writer.go: the state the writer     *)
(* keeps for one chunk stream and the chunks it makes of one message.      *)
(* lastMessageStreamID, lastType, lastBodyLen and lastTimestamp are set    *)
(* together and are one field here.                                        *)
(***************************************************************************)
EXTENDS ChunkFormat

NoDelta == -1   \* a nil *int64 delta: deltas in use are never negative

Header(m) == [msid |-> m.msid, typ |-> m.typ, len |-> m.len, ts |-> m.ts]
NoHeader == [msid |-> 0, typ |-> 0, len |-> 0, ts |-> 0]

WriterStreamType ==
  [used : BOOLEAN, last : [msid : Nat, typ : Nat, len : Nat, ts : Int],
   delta : Nat \cup {NoDelta}, ext : BOOLEAN]

NewWriterStream == [used |-> FALSE, last |-> NoHeader, delta |-> NoDelta, ext |-> FALSE]

\* Mutant: a delta for a timestamp that goes back.
DeltaUnchecked(ws, m) == IF ws.used THEN m.ts - ws.last.ts ELSE NoDelta

\* "use delta only if it is positive"
TimestampDelta(ws, m) ==
  IF ws.used /\ m.ts >= ws.last.ts THEN m.ts - ws.last.ts ELSE NoDelta

NeedsFull(ws, m) ==
  TimestampDelta(ws, m) = NoDelta \/ ws.last.msid # m.msid

Format(ws, m) ==
  CASE NeedsFull(ws, m) -> 0
    [] ~NeedsFull(ws, m) /\ (ws.last.typ # m.typ \/ ws.last.len # m.len) -> 1
    [] ~NeedsFull(ws, m) /\ ws.last.typ = m.typ /\ ws.last.len = m.len
         /\ ws.delta # TimestampDelta(ws, m) -> 2
    [] OTHER -> 3

\* Mutant: a delta that needs the extended field is forgotten.
ExtOfFullOnly(ws, m) == IF Format(ws, m) = 0 THEN Extended(U32(m.ts)) ELSE ws.ext

\* hasExtendedTimestamp once the first chunk of m is out.
ExtAfter(ws, m) ==
  CASE Format(ws, m) = 0 -> Extended(U32(m.ts))
    [] Format(ws, m) \in {1, 2} -> Extended(U32(TimestampDelta(ws, m)))
    [] OTHER -> ws.ext

\* The first chunk of a message, with chunks of at most size bytes.
FirstChunk(ws, m, size) ==
  LET delta == TimestampDelta(ws, m)
      frag  == Piece(m, 0, size)
  IN CASE Format(ws, m) = 0 -> Chunk0(m, frag)
       [] Format(ws, m) = 1 -> Chunk1(m, delta, frag)
       [] Format(ws, m) = 2 -> Chunk2(m, delta, frag)
       [] OTHER -> Chunk3(m, ws.ext, frag)

\* Every other chunk of the message, from byte pos on.
FollowingChunk(ws, m, pos, size) == Chunk3(m, ws.ext, Piece(m, pos, size))

\* Mutant: a message without delta leaves that of the one before.
AfterKeepsDelta(ws, m) ==
  [ws EXCEPT !.used = TRUE, !.last = Header(m),
             !.delta = IF TimestampDelta(ws, m) = NoDelta THEN @ ELSE TimestampDelta(ws, m)]

\* The state of the chunk stream once the whole of m is written; delta is the
\* one computed when the message was begun.
AfterMessage(ws, m) ==
  [ws EXCEPT !.used = TRUE, !.last = Header(m), !.delta = TimestampDelta(ws, m)]
=============================================================================
