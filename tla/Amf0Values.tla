----------------------------- MODULE Amf0Values -----------------------------
(***************************************************************************)
(* The values of AMF0 (pkg/amf0/data.go), and what a decoder of them       *)
(* returns: what Amf0, which encodes them, and MessageCodec, which puts    *)
(* them into messages, have in common.                                     *)
(*                                                                         *)
(* A body is a sequence of bytes, a float64 its eight bytes, a string or   *)
(* key the sequence of its bytes.                                          *)
(***************************************************************************)
EXTENDS Integers, Sequences

Byte == 0..255

\* Markers.
Number == 0
Boolean == 1
String == 2
ObjectStart == 3
Null == 5
UndefinedMarker == 6
ECMAArray == 8
ObjectEnd == 9
StrictArray == 10

NumberOf(bits) == [marker |-> Number, bits |-> bits]
BooleanOf(b) == [marker |-> Boolean, is |-> b]
StringOf(text) == [marker |-> String, text |-> text]
ObjectOf(entries) == [marker |-> ObjectStart, entries |-> entries]
ECMAArrayOf(entries) == [marker |-> ECMAArray, entries |-> entries]
StrictArrayOf(items) == [marker |-> StrictArray, items |-> items]
Plain(marker) == [marker |-> marker]  \* Null and UndefinedMarker
Entry(key, value) == [key |-> key, value |-> value]

\* The values of a depth: what fits in a length of two bytes, or of four.
Bits == [1..8 -> Byte]
Text == {text \in Seq(Byte) : Len(text) < 65536}
Key == {key \in Text : key # <<>>}
Arrays(S) == {items \in Seq(S) : Len(items) \div 65536 < 65536}
ValuesOf[depth \in Nat] ==
  [marker : {Number}, bits : Bits] \cup [marker : {Boolean}, is : BOOLEAN]
  \cup [marker : {String}, text : Text] \cup [marker : {Null, UndefinedMarker}]
  \cup IF depth = 0 THEN {}
       ELSE [marker : {ObjectStart, ECMAArray}, entries : Seq([key : Key, value : ValuesOf[depth - 1]])]
            \cup [marker : {StrictArray}, items : Arrays(ValuesOf[depth - 1])]

-----------------------------------------------------------------------------
(* A decoder returns an item and the rest of the buffer.                   *)

Bad == [ok |-> FALSE]
Got(item, rest) == [ok |-> TRUE, item |-> item, rest |-> rest]

Drop(s, n) == SubSeq(s, n + 1, Len(s))
=============================================================================
