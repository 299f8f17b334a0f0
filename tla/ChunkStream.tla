----------------------------- MODULE ChunkStream -----------------------------
(***************************************************************************)
(* One direction of a connection: several goroutines write messages        *)
(* through message.Writer and rawmessage.Writer, their chunks travel on a  *)
(* lossless byte stream, one goroutine reads them through message.Reader   *)
(* and rawmessage.Reader.                                                  *)
(*                                                                         *)
(* The two mutexes are the code's: message.Writer holds its own around the *)
(* write of a message AND the change of chunk size that the message        *)
(* announces; rawmessage.Writer holds its own around each of the two.      *)
(***************************************************************************)
EXTENDS RawWriter, RawReader

CONSTANTS
  Writers,    \* goroutines that call message.Writer.Write
  Nobody,     \* owner of a free mutex
  NoMessage,  \* no message being written
  MaxSent     \* bound: messages written in a behaviour

ASSUME WritersAssumption ==
  /\ Nobody \notin Writers
  /\ NoMessage \notin Messages
  /\ MaxSent \in Nat

VARIABLES
  messageMutex,  \* message.Writer.mutex
  rawMutex,      \* rawmessage.Writer.mutex
  pc,            \* where each goroutine is in message.Writer.Write
  job,           \* the message each goroutine is writing
  pos,           \* bytes of it already in chunks
  wstreams,      \* rawmessage.Writer.chunkStreams
  wsize,         \* rawmessage.Writer.chunkSize
  wire,          \* chunks written and not yet read
  reader,        \* the reading side
  sent           \* history: messages, in the order the raw writer took them

vars == <<messageMutex, rawMutex, pc, job, pos, wstreams, wsize, wire, reader, sent>>

TypeOK ==
  /\ messageMutex \in Writers \cup {Nobody}
  /\ rawMutex \in Writers \cup {Nobody}
  /\ pc \in [Writers -> {"idle", "begin", "first", "following", "apply", "unlock"}]
  /\ job \in [Writers -> Messages \cup {NoMessage}]
  /\ pos \in [Writers -> Nat]
  /\ wstreams \in [ChunkStreamIDs -> WriterStreamType]
  /\ wsize \in Nat
  /\ wire \in Seq(Chunk)
  /\ reader \in ReaderType
  /\ sent \in Seq(Messages)

Init ==
  /\ messageMutex = Nobody
  /\ rawMutex = Nobody
  /\ pc = [t \in Writers |-> "idle"]
  /\ job = [t \in Writers |-> NoMessage]
  /\ pos = [t \in Writers |-> 0]
  /\ wstreams = [c \in ChunkStreamIDs |-> NewWriterStream]
  /\ wsize = InitialChunkSize
  /\ wire = <<>>
  /\ reader = NewReader
  /\ sent = <<>>

-----------------------------------------------------------------------------
\* Mutant: Write without message.Writer's mutex.
LockNothing(t, m) ==
  /\ pc[t] = "idle"
  /\ Len(sent) < MaxSent
  /\ messageMutex' = t
  /\ job' = [job EXCEPT ![t] = m]
  /\ pc' = [pc EXCEPT ![t] = "begin"]
  /\ UNCHANGED <<rawMutex, pos, wstreams, wsize, wire, reader, sent>>

\* message.Writer.Write takes its mutex.
Lock(t, m) ==
  /\ pc[t] = "idle"
  /\ messageMutex = Nobody
  /\ Len(sent) < MaxSent
  /\ messageMutex' = t
  /\ job' = [job EXCEPT ![t] = m]
  /\ pc' = [pc EXCEPT ![t] = "begin"]
  /\ UNCHANGED <<rawMutex, pos, wstreams, wsize, wire, reader, sent>>

\* rawmessage.Writer.Write takes its mutex.
Begin(t) ==
  /\ pc[t] = "begin"
  /\ rawMutex = Nobody
  /\ rawMutex' = t
  /\ pos' = [pos EXCEPT ![t] = 0]
  /\ pc' = [pc EXCEPT ![t] = "first"]
  /\ sent' = Append(sent, job[t])
  /\ UNCHANGED <<messageMutex, job, wstreams, wsize, wire, reader>>

\* writeMessage, first turn of its loop.
WriteFirst(t) ==
  LET m  == job[t]
      ws == wstreams[m.csid]
      ch == FirstChunk(ws, m, wsize)
  IN /\ pc[t] = "first"
     /\ wire' = Append(wire, ch)
     /\ pos' = [pos EXCEPT ![t] = ch.frag.len]
     /\ wstreams' = [wstreams EXCEPT ![m.csid].ext = ExtAfter(ws, m)]
     /\ pc' = [pc EXCEPT ![t] = "following"]
     /\ UNCHANGED <<messageMutex, rawMutex, job, wsize, reader, sent>>

\* writeMessage, any other turn: there are bytes left.
WriteFollowing(t) ==
  LET m  == job[t]
      ch == FollowingChunk(wstreams[m.csid], m, pos[t], wsize)
  IN /\ pc[t] = "following"
     /\ pos[t] # m.len
     /\ wire' = Append(wire, ch)
     /\ pos' = [pos EXCEPT ![t] = @ + ch.frag.len]
     /\ UNCHANGED <<messageMutex, rawMutex, pc, job, wstreams, wsize, reader, sent>>

\* writeMessage leaves its loop, stores the last* fields and flushes; the
\* rawmessage.Writer unlocks.
Finish(t) ==
  LET m == job[t]
  IN /\ pc[t] = "following"
     /\ pos[t] = m.len
     /\ wstreams' = [wstreams EXCEPT ![m.csid] = AfterMessage(@, m)]
     /\ rawMutex' = Nobody
     /\ pc' = [pc EXCEPT ![t] = IF m.typ = SetChunkSizeType THEN "apply" ELSE "unlock"]
     /\ UNCHANGED <<messageMutex, job, pos, wsize, wire, reader, sent>>

\* message.Writer.Write, after a SetChunkSize message: rmw.SetChunkSize.
ApplyChunkSize(t) ==
  /\ pc[t] = "apply"
  /\ rawMutex = Nobody
  /\ wsize' = Value[job[t].body]
  /\ pc' = [pc EXCEPT ![t] = "unlock"]
  /\ UNCHANGED <<messageMutex, rawMutex, job, pos, wstreams, wire, reader, sent>>

\* message.Writer.Write returns.
Unlock(t) ==
  /\ pc[t] = "unlock"
  /\ messageMutex' = Nobody
  /\ job' = [job EXCEPT ![t] = NoMessage]
  /\ pc' = [pc EXCEPT ![t] = "idle"]
  /\ UNCHANGED <<rawMutex, pos, wstreams, wsize, wire, reader, sent>>

\* The reading goroutine takes one chunk.
Read ==
  /\ wire # <<>>
  /\ reader.state = "reading"
  /\ reader' = Receive(reader, Head(wire))
  /\ wire' = Tail(wire)
  /\ UNCHANGED <<messageMutex, rawMutex, pc, job, pos, wstreams, wsize, sent>>

Step(t) ==
  \/ Begin(t) \/ WriteFirst(t) \/ WriteFollowing(t) \/ Finish(t)
  \/ ApplyChunkSize(t) \/ Unlock(t)

Next ==
  \/ \E t \in Writers : Step(t) \/ \E m \in Messages : Lock(t, m)
  \/ Read

\* A goroutine inside Write goes on; the reading goroutine keeps reading.
\* Nothing obliges an application to write.
Fairness == WF_vars(Read) /\ \A t \in Writers : WF_vars(Step(t))

Spec == Init /\ [][Next]_vars /\ Fairness

-----------------------------------------------------------------------------
(* Properties.                                                             *)

\* The reader never takes a wrong number of bytes and never refuses what the
\* writer made, whatever chunk size is in force on either side
\* (reader.go:72-234 against writer.go:47-156).
StaysInFrame == reader.state = "reading"

\* What the reader returns is, message by message, what the writers wrote, in
\* the order in which they got the mutex: same body, type, stream and
\* timestamp (writer.go:222-233, reader.go:308-342).
Intact ==
  /\ Len(reader.got) <= Len(sent)
  /\ \A i \in DOMAIN reader.got : reader.got[i] = AsReceived(sent[i])

\* The writer's state of a chunk stream, as a reader of that stream has it.
Mirrors(ws, rs) ==
  /\ ws.used = rs.avail
  /\ ws.used => /\ rs.msid = ws.last.msid
                /\ rs.typ = ws.last.typ
                /\ rs.len = ws.last.len
                /\ rs.ts = U32(ws.last.ts)
                /\ rs.ext = ws.ext
                /\ ws.delta # NoDelta => rs.delta = U32(ws.delta)
  /\ rs.recv = 0

\* With nothing in flight and nobody writing, both ends hold the same state of
\* every chunk stream and the same chunk size: the next header, which leaves
\* out what the other end already knows, will be understood
\* (writer.go:14-23 and reader.go:29-40).
InStep ==
  messageMutex = Nobody /\ wire = <<>> =>
    /\ wsize = reader.size
    /\ \A c \in ChunkStreamIDs : Mirrors(wstreams[c], reader.streams[c])

\* A message is written between two turns of no other: one goroutine at a time
\* is between taking and releasing each mutex (message/writer.go:55-79).
Exclusive ==
  /\ \A t \in Writers : pc[t] # "idle" <=> messageMutex = t
  /\ \A t \in Writers : pc[t] \in {"first", "following"} <=> rawMutex = t

\* The channel that the chunk streams implement, with everything written in the
\* end returned.
Channel == INSTANCE MessageChannel
  WITH AsSeen <- AsReceived, got <- reader.got

ImplementsChannel == Channel!Spec
=============================================================================
