------------------------------- MODULE Duplex --------------------------------
(***************************************************************************)
(* Both directions of a connection: two message.ReadWriter, each with an   *)
(* application goroutine that writes and a goroutine that keeps reading,   *)
(* as the drain goroutine of the root Writer does.  Reading makes the      *)
(* second goroutine write too (acknowledges, ping responses) and take the  *)
(* mutexes of the writing side, while the pipe between the two ends holds  *)
(* a limited number of bytes.                                             *)
(*                                                                         *)
(* A message is a sequence of chunks; a chunk is its kind and its size in  *)
(* bytes, in a unit of which the acknowledge window holds a few.           *)
(***************************************************************************)
EXTENDS Integers, Sequences

CONSTANTS
  Left, Right,   \* the two ends
  Capacity,      \* bytes a direction of the connection holds
  Window,        \* WindowAckSize in force on both ends
  CountMod,      \* byte counters are compared modulo this, 2^32 in the code
  AppMessages,   \* messages the application of each end may write
  MaxWrites,     \* bound: messages each application writes
  Nobody

Ends == {Left, Right}
Peer(e) == IF e = Left THEN Right ELSE Left
App(e) == <<e, "app">>
Rd(e) == <<e, "rd">>
Goroutines == {App(e) : e \in Ends} \cup {Rd(e) : e \in Ends}

ASSUME DuplexAssumption ==
  /\ Left # Right
  /\ Capacity \in Nat \ {0} /\ MaxWrites \in [Ends -> Nat] /\ Nobody \notin Goroutines
  /\ Window \in Nat \ {0}
  /\ CountMod \in Nat /\ CountMod > 3 * Window

ChunkType ==
  [kind : {"data", "ack", "ping", "pong"}, size : {n \in 1..Window : n <= Capacity},
   last : BOOLEAN, value : 0..(CountMod - 1)]

\* No chunk is larger than the window, 65536 bytes against 2500000, nor than what
\* the connection holds.  A message of the application ends with its last chunk,
\* and only data takes more than one.
ASSUME ChunksAssumption ==
  \A e \in Ends : \A m \in AppMessages[e] :
    /\ m \in Seq(ChunkType)
    /\ \A i \in DOMAIN m :
         /\ m[i].kind \in {"data", "ping"}
         /\ m[i].last <=> i = Len(m)
         /\ i > 1 => m[i].kind = "data"

VARIABLES
  messageMutex,  \* message.Writer.mutex of each end
  rawMutex,      \* rawmessage.Writer.mutex of each end
  pc,            \* where each goroutine is
  todo,          \* chunks a goroutine has still to write
  pipe,          \* chunks written by an end, not yet read by its peer
  current,       \* the chunk the reading goroutine has just read
  received,      \* BCR.Count, total
  sent,          \* BCW.Count, total
  lastAckCount,  \* rawmessage.Reader.LastAckCount
  ackValue,      \* rawmessage.Writer.AckValue
  writes         \* messages written by each application

vars == <<messageMutex, rawMutex, pc, todo, pipe, current, received, sent,
          lastAckCount, ackValue, writes>>

Data(size, last) == [kind |-> "data", size |-> size, last |-> last, value |-> 0]
Ack(value) == [kind |-> "ack", size |-> 1, last |-> TRUE, value |-> value]
Ping == [kind |-> "ping", size |-> 1, last |-> TRUE, value |-> 0]
Pong == [kind |-> "pong", size |-> 1, last |-> TRUE, value |-> 0]
NoChunk == [kind |-> "none", size |-> 0, last |-> TRUE, value |-> 0]

\* A message of n chunks of the given size.
DataMessage(n, size) == [i \in 1..n |-> Data(size, i = n)]

Init ==
  /\ messageMutex = [e \in Ends |-> Nobody]
  /\ rawMutex = [e \in Ends |-> Nobody]
  /\ pc = [g \in Goroutines |-> IF g[2] = "rd" THEN "read" ELSE "idle"]
  /\ todo = [g \in Goroutines |-> <<>>]
  /\ pipe = [e \in Ends |-> <<>>]
  /\ current = [e \in Ends |-> NoChunk]
  /\ received = [e \in Ends |-> 0]
  /\ sent = [e \in Ends |-> 0]
  /\ lastAckCount = [e \in Ends |-> 0]
  /\ ackValue = [e \in Ends |-> 0]
  /\ writes = [e \in Ends |-> 0]

U(n) == n % CountMod

\* Bytes written by e and not yet read by its peer.
InPipe(e) == sent[e] - received[Peer(e)]

-----------------------------------------------------------------------------
(* message.Writer.Write, for any goroutine g of end e.                     *)

MayLockMessage(e, g) == pc[g] = "lock" /\ messageMutex[e] = Nobody
LockMessage(e, g) ==
  /\ MayLockMessage(e, g)
  /\ messageMutex' = [messageMutex EXCEPT ![e] = g]
  /\ pc' = [pc EXCEPT ![g] = "lockRaw"]
  /\ UNCHANGED <<rawMutex, todo, pipe, current, received, sent, lastAckCount, ackValue, writes>>

MayLockRaw(e, g) == pc[g] = "lockRaw" /\ rawMutex[e] = Nobody
LockRaw(e, g) ==
  /\ MayLockRaw(e, g)
  /\ rawMutex' = [rawMutex EXCEPT ![e] = g]
  /\ pc' = [pc EXCEPT ![g] = "put"]
  /\ UNCHANGED <<messageMutex, todo, pipe, current, received, sent, lastAckCount, ackValue, writes>>

MayPut(e, g) == pc[g] = "put" /\ todo[g] # <<>> /\ InPipe(e) + Head(todo[g]).size <= Capacity
Full(e, g) == pc[g] = "put" /\ todo[g] # <<>> /\ InPipe(e) + Head(todo[g]).size > Capacity

\* Mutant: the mutexes are held for a chunk, not for a message.
PutAndRelease(e, g) ==
  /\ MayPut(e, g)
  /\ pipe' = [pipe EXCEPT ![e] = Append(@, Head(todo[g]))]
  /\ sent' = [sent EXCEPT ![e] = @ + Head(todo[g]).size]
  /\ todo' = [todo EXCEPT ![g] = Tail(@)]
  /\ IF Len(todo[g]) = 1
     THEN UNCHANGED <<messageMutex, rawMutex, pc>>
     ELSE /\ messageMutex' = [messageMutex EXCEPT ![e] = Nobody]
          /\ rawMutex' = [rawMutex EXCEPT ![e] = Nobody]
          /\ pc' = [pc EXCEPT ![g] = "lock"]
  /\ UNCHANGED <<current, received, lastAckCount, ackValue, writes>>

\* A chunk reaches the connection, which blocks the goroutine while it is full.
Put(e, g) ==
  /\ MayPut(e, g)
  /\ pipe' = [pipe EXCEPT ![e] = Append(@, Head(todo[g]))]
  /\ sent' = [sent EXCEPT ![e] = @ + Head(todo[g]).size]
  /\ todo' = [todo EXCEPT ![g] = Tail(@)]
  /\ UNCHANGED <<messageMutex, rawMutex, pc, current, received, lastAckCount, ackValue, writes>>

MayUnlock(g) == pc[g] = "put" /\ todo[g] = <<>>

\* Mutant: the raw writer's mutex is not released.
UnlockMessageOnly(e, g) ==
  /\ MayUnlock(g)
  /\ messageMutex' = [messageMutex EXCEPT ![e] = Nobody]
  /\ pc' = [pc EXCEPT ![g] =
       CASE g = App(e) -> "idle"
         [] g = Rd(e) /\ current[e] # NoChunk -> "acknowledged"
         [] OTHER -> "read"]
  /\ UNCHANGED <<rawMutex, todo, pipe, current, received, sent, lastAckCount, ackValue, writes>>

\* Both mutexes are released; the reading goroutine resumes Read: after an
\* acknowledge in readChunk, after a ping response at its end.
Unlock(e, g) ==
  /\ MayUnlock(g)
  /\ messageMutex' = [messageMutex EXCEPT ![e] = Nobody]
  /\ rawMutex' = [rawMutex EXCEPT ![e] = Nobody]
  /\ pc' = [pc EXCEPT ![g] =
       CASE g = App(e) -> "idle"
         [] g = Rd(e) /\ current[e] # NoChunk -> "acknowledged"
         [] OTHER -> "read"]
  /\ UNCHANGED <<todo, pipe, current, received, sent, lastAckCount, ackValue, writes>>

Writing(e, g) == LockMessage(e, g) \/ LockRaw(e, g) \/ Put(e, g) \/ Unlock(e, g)

\* The application calls Write.
AppWrite(e) ==
  /\ pc[App(e)] = "idle"
  /\ writes[e] < MaxWrites[e]
  /\ \E m \in AppMessages[e] : todo' = [todo EXCEPT ![App(e)] = m]
  /\ writes' = [writes EXCEPT ![e] = @ + 1]
  /\ pc' = [pc EXCEPT ![App(e)] = "lock"]
  /\ UNCHANGED <<messageMutex, rawMutex, pipe, current, received, sent, lastAckCount, ackValue>>

-----------------------------------------------------------------------------
(* ReadWriter.Read.                                                        *)

\* Mutant: counters compared as if they never wrapped.
AckNeededUnwrapped(e, count) == count > lastAckCount[e] + Window

AckNeeded(e, count) == U(count - lastAckCount[e]) > Window

\* readChunk: the chunk is counted; past the window, OnAckNeeded writes an
\* acknowledge before anything else is done with the chunk.
MayReadChunk(e) == pc[Rd(e)] = "read" /\ pipe[Peer(e)] # <<>>
ReadChunk(e) ==
  LET ch == Head(pipe[Peer(e)])
      count == U(received[e] + ch.size)
  IN /\ MayReadChunk(e)
     /\ pipe' = [pipe EXCEPT ![Peer(e)] = Tail(@)]
     /\ received' = [received EXCEPT ![e] = @ + ch.size]
     /\ current' = [current EXCEPT ![e] = ch]
     /\ IF AckNeeded(e, count)
        THEN /\ todo' = [todo EXCEPT ![Rd(e)] = <<Ack(count)>>]
             /\ pc' = [pc EXCEPT ![Rd(e)] = "lock"]
        ELSE /\ pc' = [pc EXCEPT ![Rd(e)] = "handle"]
             /\ UNCHANGED todo
     /\ UNCHANGED <<messageMutex, rawMutex, sent, lastAckCount, ackValue, writes>>

\* Mutant: a wider LastAckCount.
AckWrittenUnwrapped(e) ==
  /\ pc[Rd(e)] = "acknowledged"
  /\ lastAckCount' = [lastAckCount EXCEPT ![e] = @ + Window]
  /\ pc' = [pc EXCEPT ![Rd(e)] = "handle"]
  /\ UNCHANGED <<messageMutex, rawMutex, todo, pipe, current, received, sent, ackValue, writes>>

\* Mutant: the acknowledge is written again and again.
AckWrittenAgain(e) ==
  /\ pc[Rd(e)] = "acknowledged"
  /\ pc' = [pc EXCEPT ![Rd(e)] = "lock"]
  /\ UNCHANGED <<messageMutex, rawMutex, todo, pipe, current, received, sent,
                 lastAckCount, ackValue, writes>>

\* "LastAckCount += ackWindowSize", once OnAckNeeded has returned.
AckWritten(e) ==
  /\ pc[Rd(e)] = "acknowledged"
  /\ lastAckCount' = [lastAckCount EXCEPT ![e] = U(@ + Window)]
  /\ pc' = [pc EXCEPT ![Rd(e)] = "handle"]
  /\ UNCHANGED <<messageMutex, rawMutex, todo, pipe, current, received, sent, ackValue, writes>>

\* The rest of Read: a ping request is answered, anything but an acknowledge is
\* returned to the application.
MayHandle(e) == pc[Rd(e)] = "handle" /\ current[e].kind # "ack"
Handle(e) ==
  /\ MayHandle(e)
  /\ current' = [current EXCEPT ![e] = NoChunk]
  /\ IF current[e].kind = "ping"
     THEN /\ todo' = [todo EXCEPT ![Rd(e)] = <<Pong>>]
          /\ pc' = [pc EXCEPT ![Rd(e)] = "lock"]
     ELSE /\ pc' = [pc EXCEPT ![Rd(e)] = "read"]
          /\ UNCHANGED todo
  /\ UNCHANGED <<messageMutex, rawMutex, pipe, received, sent, lastAckCount, ackValue, writes>>

MaySetAcknowledge(e) ==
  pc[Rd(e)] = "handle" /\ current[e].kind = "ack" /\ rawMutex[e] = Nobody

\* Mutant: the acknowledged value is not stored.
AcknowledgeIgnored(e) ==
  /\ MaySetAcknowledge(e)
  /\ current' = [current EXCEPT ![e] = NoChunk]
  /\ pc' = [pc EXCEPT ![Rd(e)] = "read"]
  /\ UNCHANGED <<messageMutex, rawMutex, todo, pipe, received, sent, lastAckCount,
                 ackValue, writes>>

\* SetAcknowledgeValue, which takes the raw writer's mutex.
SetAcknowledgeValue(e) ==
  /\ MaySetAcknowledge(e)
  /\ ackValue' = [ackValue EXCEPT ![e] = current[e].value]
  /\ current' = [current EXCEPT ![e] = NoChunk]
  /\ pc' = [pc EXCEPT ![Rd(e)] = "read"]
  /\ UNCHANGED <<messageMutex, rawMutex, todo, pipe, received, sent, lastAckCount, writes>>

Reading(e) == ReadChunk(e) \/ AckWritten(e) \/ Handle(e) \/ SetAcknowledgeValue(e)

Progress == \E e \in Ends : Writing(e, App(e)) \/ Writing(e, Rd(e)) \/ Reading(e)

Next == Progress \/ \E e \in Ends : AppWrite(e)

\* A process with a goroutine that can run runs one of them.  Nothing more is
\* needed: an application's writes are bounded, so every run of steps ends.
Spec == Init /\ [][Next]_vars /\ WF_vars(Progress)

-----------------------------------------------------------------------------
(* Properties.                                                             *)

TypeOK ==
  /\ messageMutex \in [Ends -> Goroutines \cup {Nobody}]
  /\ rawMutex \in [Ends -> Goroutines \cup {Nobody}]
  /\ pc \in [Goroutines ->
       {"idle", "lock", "lockRaw", "put", "read", "acknowledged", "handle"}]
  /\ \A e \in Ends :
       /\ InPipe(e) <= Capacity
       /\ lastAckCount[e] \in 0..(CountMod - 1)
       /\ ackValue[e] \in 0..(CountMod - 1)
       /\ writes[e] \in 0..MaxWrites[e]

\* The chunks of a message stay together: no acknowledge or ping response that
\* the reading goroutine writes comes between two chunks of a message of the
\* application (message/writer.go:55-79, rawmessage/writer.go:222-233).
Contiguous ==
  \A e \in Ends :
    \A i \in 1..(Len(pipe[e]) - 1) :
      ~pipe[e][i].last => pipe[e][i + 1].kind = "data"

\* Between two chunks a reader never owes more than a window, whatever the byte
\* counters wrapped to (reader.go:54-67).
AcksKeepUp ==
  \A e \in Ends :
    pc[Rd(e)] = "read" /\ todo[Rd(e)] = <<>> =>
      U(received[e] - lastAckCount[e]) <= Window

\* At rest, no end has more than a window of bytes unacknowledged, so that a
\* writer that checks acknowledges is far from its limit of a window and a half
\* (writer.go:26-33).
Quiet ==
  \A e \in Ends :
    pipe[e] = <<>> /\ pc[App(e)] = "idle" /\ pc[Rd(e)] = "read"
AcknowledgedAtRest ==
  Quiet => \A e \in Ends : U(sent[e] - ackValue[e]) <= Window

\* The goroutines of the two ends, with their mutexes, block each other only
\* when neither direction has room for the next chunk: a mutex held across a
\* write is never by itself the reason (writer.go:205-218, message/writer.go:55-79).
\* Otherwise a step of Progress has its guard.
MayWrite(e, g) == MayLockMessage(e, g) \/ MayLockRaw(e, g) \/ MayPut(e, g) \/ MayUnlock(g)
MayRead(e) ==
  MayReadChunk(e) \/ pc[Rd(e)] = "acknowledged" \/ MayHandle(e) \/ MaySetAcknowledge(e)
Runnable == \E e \in Ends : MayWrite(e, App(e)) \/ MayWrite(e, Rd(e)) \/ MayRead(e)
BlockedOnlyWhenFull ==
  Quiet \/ Runnable \/ \A e \in Ends : Full(e, App(e)) \/ Full(e, Rd(e))

\* With room for the acknowledges of what is written, everything that the
\* applications write is read and acknowledged, and both ends come to rest.
ComesToRest == []<>Quiet
=============================================================================
