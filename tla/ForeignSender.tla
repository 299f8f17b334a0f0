---------------------------- MODULE ForeignSender ----------------------------
(***************************************************************************)
(* The reader against a sender that is not this library's writer: it may   *)
(* interleave the chunks of messages of different chunk streams, change    *)
(* the chunk size or abort a message while others are in progress, and     *)
(* choose any header that pkg/chunk's comments allow.  The reader sees the *)
(* chunks in order and nothing else, so each is handed over at once.       *)
(***************************************************************************)
EXTENDS RawReader, FiniteSets

CONSTANTS
  NoMessage,     \* no message in progress
  Inherit,       \* may a chunk inherit from an aborted message?
  MaxDone,       \* bound: messages completed in a behaviour
  MaxAborts      \* bound: messages aborted in a behaviour

ASSUME SenderAssumption ==
  NoMessage \notin Messages /\ Inherit \in BOOLEAN /\ MaxDone \in Nat /\ MaxAborts \in Nat

VARIABLES
  last,     \* per chunk stream, what the preceding chunk says
  current,  \* per chunk stream, the message in progress
  pos,      \* bytes of it sent
  size,     \* the sender's chunk size
  reader,   \* this library's reader
  done,     \* history: messages completed
  aborts    \* messages aborted so far

vars == <<last, current, pos, size, reader, done, aborts>>

Nothing == [used |-> FALSE, broken |-> FALSE, msid |-> 0, typ |-> 0, len |-> 0,
            ts |-> 0, delta |-> 0, ext |-> FALSE]

Init ==
  /\ last = [c \in ChunkStreamIDs |-> Nothing]
  /\ current = [c \in ChunkStreamIDs |-> NoMessage]
  /\ pos = [c \in ChunkStreamIDs |-> 0]
  /\ size = InitialChunkSize
  /\ reader = NewReader
  /\ done = <<>>
  /\ aborts = 0

-----------------------------------------------------------------------------
Delta(l, m) == m.ts - l.ts

\* Type 1 gives a delta, so time does not go back; type 2 has "the same stream
\* ID and message length as the preceding chunk"; type 3 takes every value from
\* it.  After an aborted message, only a sender that may Inherit relies on them.
Allowed(fmt, l, m) ==
  /\ fmt >= 1 => l.used /\ Delta(l, m) >= 0 /\ l.msid = m.msid
  /\ fmt >= 2 => l.typ = m.typ /\ l.len = m.len /\ (l.broken => Inherit)
  /\ fmt = 3 => l.delta = Delta(l, m)

Opening(fmt, l, m) ==
  LET frag == Piece(m, 0, size)
  IN CASE fmt = 0 -> Chunk0(m, frag)
       [] fmt = 1 -> Chunk1(m, Delta(l, m), frag)
       [] fmt = 2 -> Chunk2(m, Delta(l, m), frag)
       [] OTHER -> Chunk3(m, l.ext, frag)

Opened(fmt, l, m) ==
  [used |-> TRUE, broken |-> FALSE, msid |-> m.msid, typ |-> m.typ, len |-> m.len,
   ts |-> m.ts, delta |-> IF fmt = 0 THEN 0 ELSE Delta(l, m),
   ext |-> CASE fmt = 0 -> Extended(U32(m.ts))
             [] fmt \in {1, 2} -> Extended(U32(Delta(l, m)))
             [] OTHER -> l.ext]

\* The message that an abort message cuts short, if there is one.
CutShort(m) ==
  IF m.typ = AbortMessageType
  THEN {c \in ChunkStreamIDs \ {m.csid} : c = Value[m.body] /\ current[c] # NoMessage}
  ELSE {}

\* The chunk ch of m goes out; l is what chunk stream m.csid says from there on.
\* The last chunk of a message makes its effect, on the sender's side too.
Send(m, l, ch, sentBytes) ==
  LET c    == m.csid
      ends == sentBytes = m.len
      cut  == IF ends THEN CutShort(m) ELSE {}
  IN /\ reader.state = "reading"
     /\ aborts + Cardinality(cut) <= MaxAborts
     /\ reader' = Receive(reader, ch)
     /\ pos' = [pos EXCEPT ![c] = sentBytes]
     /\ current' = [d \in ChunkStreamIDs |->
          CASE d \in cut \/ (d = c /\ ends) -> NoMessage
            [] d = c /\ ~ends -> m
            [] OTHER -> current[d]]
     /\ last' = [d \in ChunkStreamIDs |->
          CASE d = c -> l
            [] d \in cut -> [last[d] EXCEPT !.broken = TRUE]
            [] OTHER -> last[d]]
     /\ aborts' = aborts + Cardinality(cut)
     /\ done' = IF ends THEN Append(done, m) ELSE done
     /\ size' = IF ends /\ m.typ = SetChunkSizeType THEN Value[m.body] ELSE size

Begin(m, fmt) ==
  LET l  == last[m.csid]
      ch == Opening(fmt, l, m)
  IN /\ Len(done) < MaxDone
     /\ current[m.csid] = NoMessage
     /\ Allowed(fmt, l, m)
     /\ Send(m, Opened(fmt, l, m), ch, ch.frag.len)

Continue(c) ==
  LET m  == current[c]
      ch == Chunk3(m, last[c].ext, Piece(m, pos[c], size))
  IN /\ m # NoMessage
     /\ Send(m, last[c], ch, pos[c] + ch.frag.len)

Next ==
  \/ \E m \in Messages, fmt \in 0..3 : Begin(m, fmt)
  \/ \E c \in ChunkStreamIDs : Continue(c)

Spec == Init /\ [][Next]_vars
-----------------------------------------------------------------------------
(* Properties.                                                             *)

\* However the sender interleaves its chunk streams, changes the chunk size and
\* aborts messages, the reader takes the right number of bytes of every chunk
\* and refuses none (reader.go:72-234, 294-305).  With Inherit, this is what
\* chunk2.go:8-10 says of type 2: the chunk "has the same stream ID and message
\* length as the preceding chunk", whatever became of that chunk's message.
Follows == reader.state = "reading"

\* Messages come out in the order in which they are completed, with the header
\* values the sender meant and the bytes of their own chunk stream; an aborted
\* message never comes out, whole or in part (reader.go:18-25, 42-46).
Reassembled ==
  /\ Len(reader.got) = Len(done)
  /\ \A i \in DOMAIN done : reader.got[i] = AsReceived(done[i])
=============================================================================
