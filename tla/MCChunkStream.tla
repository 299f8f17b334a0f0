---------------------------- MODULE MCChunkStream ----------------------------
(* Small instances of ChunkStream.                                         *)
EXTENDS ChunkStream

CONSTANTS size1, size3, audio, video, w1, w2

MCWriters == {w1, w2}
MCBodies == {size1, size3, audio, video}
MCValue == [b \in MCBodies |-> CASE b = size1 -> 1 [] b = size3 -> 3 [] OTHER -> 4]

LOCAL M(c, msid, typ, ts, len, body) ==
  [csid |-> c, msid |-> msid, typ |-> typ, ts |-> ts, len |-> len, body |-> body]

\* A chunk stream for control and one for media, with runs of equal deltas, of
\* growing and shrinking timestamps, of extended timestamps and of timestamps
\* beyond the 32 bits, and with a body with no byte.
MCMessages ==
  { M(2, 0, SetChunkSizeType, 0, 4, size1), M(2, 0, SetChunkSizeType, 0, 4, size3),
    M(4, 1, 8, 0, 3, audio), M(4, 1, 8, 2, 3, audio), M(4, 1, 8, 4, 3, audio),
    M(4, 1, 9, 9, 0, video) }

\* One chunk stream that carries two message streams, as the writer allows.
MCTwoMessageStreams ==
  { M(4, 1, 8, 0, 1, audio), M(4, 2, 8, 2, 1, audio), M(4, 2, 8, 4, 1, audio) }
=============================================================================
