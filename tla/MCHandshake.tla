----------------------------- MODULE MCHandshake -----------------------------
(* A small instance of Handshake: a layout of fifteen bytes.               *)
EXTENDS Handshake

LOCAL Byte(n) == [v |-> n, of |-> <<"random">>]
MCRandom == {Byte(0), Byte(1)}
MCHmacByte(side, m, i) == [v |-> 1, of |-> <<"digest", side, m, i>>]

\* Random data that differ in the four pointers' first bytes.
MCRandomData ==
  {[i \in 0..(DataSize - 1) |-> IF i \in ones THEN Byte(1) ELSE Byte(0)] :
     ones \in SUBSET {KeyPointerPos(1), DigestPointerPos(2)}}
=============================================================================
