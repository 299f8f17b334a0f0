--------------------------- MODULE MCForeignSender ---------------------------
(* Small instances of ForeignSender.                                       *)
EXTENDS ForeignSender

CONSTANTS size1, size3, stop4, stop6, audio, video

MCBodies == {size1, size3, stop4, stop6, audio, video}
MCValue == [b \in MCBodies |->
  CASE b = size1 -> 1 [] b = size3 -> 3 [] b = stop4 -> 4 [] b = stop6 -> 6 [] OTHER -> 0]

LOCAL M(c, msid, typ, ts, len, body) ==
  [csid |-> c, msid |-> msid, typ |-> typ, ts |-> ts, len |-> len, body |-> body]

\* Control messages on chunk stream 2, media on 4 and 6; the control messages
\* and the media bodies take several chunks, so that they meet.
MCMessages ==
  { M(2, 0, SetChunkSizeType, 0, 4, size1), M(2, 0, SetChunkSizeType, 0, 4, size3),
    M(2, 0, AbortMessageType, 0, 4, stop4), M(2, 0, AbortMessageType, 0, 4, stop6),
    M(4, 1, 8, 0, 3, audio), M(4, 1, 8, 2, 3, audio), M(4, 1, 8, 9, 3, audio),
    M(6, 1, 9, 5, 5, video) }
=============================================================================
