----------------------------- MODULE ChunkFormat -----------------------------
(***************************************************************************)
(* The four chunk headers of pkg/chunk and the raw messages of             *)
(* pkg/rawmessage.  A body is a member of Bodies and a length; a fragment  *)
(* of it is a range of its bytes.  An absent header field is absent from   *)
(* the record.                                                             *)
(***************************************************************************)
EXTENDS Integers

CONSTANTS
  ChunkStreamIDs,  \* chunk stream ids in use, within 2..63
  TsMod,           \* number of values of a 32-bit timestamp, 2^32 in the code
  ExtTs,           \* first timestamp sent in the extended field, 0xFFFFFF
  InitialChunkSize,\* chunk size of both sides at the start, 128 in the code
  MaxBodySize,     \* maxBodySize, 10 MiB in the code
  Bodies,          \* message bodies, opaque
  Garbled,         \* what the reader hands over when fragments do not fit
  Value,           \* the integer a body stands for in a control message
  Messages         \* the messages an application may write

SetChunkSizeType == 1
AbortMessageType == 2

\* rawmessage.Message; ts is the timestamp in milliseconds, not yet truncated.
Message ==
  [csid : ChunkStreamIDs, msid : Nat, typ : Nat, ts : Int, len : Nat, body : Bodies]

ASSUME FormatAssumption ==
  /\ ChunkStreamIDs \subseteq 2..63
  /\ TsMod \in Nat \ {0}
  /\ ExtTs \in 1..TsMod
  /\ MaxBodySize \in Nat
  /\ InitialChunkSize \in 1..MaxBodySize
  /\ Garbled \notin Bodies
  /\ Value \in [Bodies -> Nat]

\* Bodies the reader accepts, and chunk sizes that let the writer progress.
ASSUME MessagesAssumption ==
  /\ Messages \subseteq Message
  /\ \A m \in Messages :
       /\ m.len <= MaxBodySize
       /\ m.typ = SetChunkSizeType => Value[m.body] \in 1..MaxBodySize

-----------------------------------------------------------------------------
U32(n) == n % TsMod
Extended(ts) == ts >= ExtTs
Least(a, b) == IF a <= b THEN a ELSE b

Fragment == [of : Bodies, from : Nat, len : Nat]
Piece(m, pos, size) ==
  [of |-> m.body, from |-> pos, len |-> Least(m.len - pos, size)]

Chunk ==
       [fmt : {0}, csid : ChunkStreamIDs, ts : 0..(TsMod - 1), typ : Nat,
        msid : Nat, len : Nat, frag : Fragment]
  \cup [fmt : {1}, csid : ChunkStreamIDs, ts : 0..(TsMod - 1), typ : Nat,
        len : Nat, frag : Fragment]
  \cup [fmt : {2}, csid : ChunkStreamIDs, ts : 0..(TsMod - 1), frag : Fragment]
  \cup [fmt : {3}, csid : ChunkStreamIDs, ext : BOOLEAN, frag : Fragment]

Chunk0(m, frag) ==
  [fmt |-> 0, csid |-> m.csid, ts |-> U32(m.ts), typ |-> m.typ,
   msid |-> m.msid, len |-> m.len, frag |-> frag]

Chunk1(m, delta, frag) ==
  [fmt |-> 1, csid |-> m.csid, ts |-> U32(delta), typ |-> m.typ,
   len |-> m.len, frag |-> frag]

Chunk2(m, delta, frag) ==
  [fmt |-> 2, csid |-> m.csid, ts |-> U32(delta), frag |-> frag]

\* The extended timestamp of a type 3 chunk is read and dropped by the reader:
\* what matters is whether the four bytes are there.
Chunk3(m, ext, frag) ==
  [fmt |-> 3, csid |-> m.csid, ext |-> ext, frag |-> frag]

\* The message as the other side must see it: the timestamp is 32 bits wide.
AsReceived(m) == [m EXCEPT !.ts = U32(m.ts)]
=============================================================================
