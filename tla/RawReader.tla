------------------------------ MODULE RawReader ------------------------------
(***************************************************************************)
(* pkg/rawmessage/reader.go and the control messages that message.Reader   *)
(* applies to it (pkg/message/reader.go:178-209).  A reader is a record; Receive   *)
(* is one turn of the loop of Reader.Read: one chunk, whatever it does.    *)
(*                                                                         *)
(* The fragments collected so far are represented by the prefix of the     *)
(* body they form.  Bytes are not modelled: a reader that takes a number   *)
(* of bytes other than the chunk has is "lost", it reads bodies as headers *)
(* from there on; a reader that returned an error is "refused".            *)
(***************************************************************************)
EXTENDS ChunkFormat, Sequences

CONSTANT NoBody     \* no fragment collected

ASSUME ReaderAssumption == NoBody \notin Bodies \cup {Garbled}

NoPart == [of |-> NoBody, upto |-> 0]

ReaderStreamType ==
  [avail : BOOLEAN, ts : 0..(TsMod - 1), delta : 0..(TsMod - 1), typ : Nat,
   msid : Nat, len : Nat, recv : Nat, ext : BOOLEAN,
   part : [of : Bodies \cup {NoBody, Garbled}, upto : Nat]]

ReceivedMessage ==
  [csid : ChunkStreamIDs, msid : Nat, typ : Nat, ts : Nat, len : Nat,
   body : Bodies \cup {NoBody, Garbled}]

ReaderType ==
  [streams : [ChunkStreamIDs -> ReaderStreamType], size : Nat,
   state : {"reading", "lost", "refused"}, got : Seq(ReceivedMessage)]

NewReaderStream ==
  [avail |-> FALSE, ts |-> 0, delta |-> 0, typ |-> 0, msid |-> 0, len |-> 0,
   recv |-> 0, ext |-> FALSE, part |-> NoPart]

NewReader ==
  [streams |-> [c \in ChunkStreamIDs |-> NewReaderStream],
   size |-> InitialChunkSize, state |-> "reading", got |-> <<>>]

-----------------------------------------------------------------------------
\* The chunks a stream cannot take in its current state.
Refuses(rs, c) ==
  \/ c.fmt # 3 /\ rs.recv # 0
  \/ c.fmt # 0 /\ ~rs.avail

\* How many bytes of body the reader takes for this chunk.
Wanted(rs, c, size) ==
  LET len == IF c.fmt \in {0, 1} THEN c.len ELSE rs.len
  IN Least(len - rs.recv, size)

InFrame(rs, c, size) ==
  /\ Wanted(rs, c, size) = c.frag.len
  /\ c.fmt = 3 => c.ext = rs.ext

\* Mutant: every type 3 chunk adds the delta, the following ones too.
DeltaOnEveryChunk(rs, c) ==
  CASE c.fmt = 0 -> [rs EXCEPT !.avail = TRUE, !.msid = c.msid, !.typ = c.typ,
                               !.ts = c.ts, !.delta = 0, !.len = c.len,
                               !.ext = Extended(c.ts)]
    [] c.fmt = 1 -> [rs EXCEPT !.typ = c.typ, !.ts = U32(rs.ts + c.ts),
                               !.delta = c.ts, !.len = c.len,
                               !.ext = Extended(c.ts)]
    [] c.fmt = 2 -> [rs EXCEPT !.ts = U32(rs.ts + c.ts), !.delta = c.ts,
                               !.ext = Extended(c.ts)]
    [] OTHER -> [rs EXCEPT !.ts = U32(rs.ts + rs.delta)]

\* The stream once the header of c is read.
TakeHeader(rs, c) ==
  CASE c.fmt = 0 -> [rs EXCEPT !.avail = TRUE, !.msid = c.msid, !.typ = c.typ,
                               !.ts = c.ts, !.delta = 0, !.len = c.len,
                               !.ext = Extended(c.ts)]
    [] c.fmt = 1 -> [rs EXCEPT !.typ = c.typ, !.ts = U32(rs.ts + c.ts),
                               !.delta = c.ts, !.len = c.len,
                               !.ext = Extended(c.ts)]
    [] c.fmt = 2 -> [rs EXCEPT !.ts = U32(rs.ts + c.ts), !.delta = c.ts,
                               !.ext = Extended(c.ts)]
    [] c.fmt = 3 /\ rs.recv = 0 -> [rs EXCEPT !.ts = U32(rs.ts + rs.delta)]
    [] OTHER -> rs

\* joinFragments: fragments in sequence of one body, or bytes of no message.
Join(part, frag) ==
  IF \/ part = NoPart /\ frag.from = 0
     \/ part.of = frag.of /\ part.upto = frag.from
  THEN [of |-> frag.of, upto |-> frag.from + frag.len]
  ELSE [of |-> Garbled, upto |-> part.upto + frag.len]

TakeFragment(rs, frag) ==
  [rs EXCEPT !.recv = rs.recv + frag.len, !.part = Join(rs.part, frag)]

Complete(rs) == rs.recv = rs.len

\* Mutant: the fragments of the message stay.
FragmentsStay(rs) == [rs EXCEPT !.recv = 0]

\* Forget the message in progress, delivered or aborted.
Cleared(rs) == [rs EXCEPT !.recv = 0, !.part = NoPart]

\* Mutant: an abort has no effect.
NotAborted(rs) == rs

\* Mutant: an abort that leaves the fragments.
AbortLeavesFragments(rs) ==
  IF rs.recv # 0 THEN [rs EXCEPT !.recv = 0, !.len = 0] ELSE rs

Aborted(rs) == IF rs.recv # 0 THEN [Cleared(rs) EXCEPT !.len = 0] ELSE rs

Assembled(csid, rs) ==
  [csid |-> csid, msid |-> rs.msid, typ |-> rs.typ, ts |-> rs.ts,
   len |-> rs.len, body |-> rs.part.of]

-----------------------------------------------------------------------------
\* message.Reader.Read: what the reader does with a message it has just read.
ApplySetChunkSize(rd, size) ==
  IF size > MaxBodySize THEN [rd EXCEPT !.state = "refused"]
                        ELSE [rd EXCEPT !.size = size]

ApplyAbort(rd, csid) ==
  IF csid \in ChunkStreamIDs
  THEN [rd EXCEPT !.streams[csid] = Aborted(rd.streams[csid])]
  ELSE rd

Apply(rd, m) ==
  LET control == m.typ \in {SetChunkSizeType, AbortMessageType}
      whole   == m.body \in Bodies
  IN CASE ~control -> rd
       [] control /\ ~whole -> [rd EXCEPT !.state = "lost"]
       [] m.typ = SetChunkSizeType /\ whole -> ApplySetChunkSize(rd, Value[m.body])
       [] OTHER -> ApplyAbort(rd, Value[m.body])

\* A message whose control value is refused is not returned.
Deliver(rd, m) ==
  LET applied == Apply(rd, m)
  IN IF applied.state = "reading"
     THEN [applied EXCEPT !.got = Append(rd.got, m)]
     ELSE applied

\* A chunk the stream accepts, its bytes in frame.
Accept(rd, c) ==
  LET rs == TakeFragment(TakeHeader(rd.streams[c.csid], c), c.frag)
      m  == Assembled(c.csid, rs)
  IN CASE rs.len > MaxBodySize -> [rd EXCEPT !.state = "refused"]
       [] rs.len <= MaxBodySize /\ ~Complete(rs) ->
            [rd EXCEPT !.streams[c.csid] = rs]
       [] OTHER -> Deliver([rd EXCEPT !.streams[c.csid] = Cleared(rs)], m)

Receive(rd, c) ==
  LET rs == rd.streams[c.csid]
  IN CASE Refuses(rs, c) -> [rd EXCEPT !.state = "refused"]
       [] ~Refuses(rs, c) /\ ~InFrame(rs, c, rd.size) -> [rd EXCEPT !.state = "lost"]
       [] OTHER -> Accept(rd, c)
=============================================================================
