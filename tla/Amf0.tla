-------------------------------- MODULE Amf0 --------------------------------
(***************************************************************************)
(* The encoding of AMF0 values (pkg/amf0/data.go): Marshal, which computes *)
(* the size first and then fills a buffer of that size, and Unmarshal,     *)
(* which takes items from the front of a buffer.                           *)
(***************************************************************************)
EXTENDS Amf0Values, SequencesExt

\* The low count bytes of n, and the number some bytes are.
Bytes(n, count) == [i \in 1..count |-> (n \div 256^(count - i)) % 256]
Value(bytes) == FoldLeft(LAMBDA acc, b : acc * 256 + b, 0, bytes)
Total(sizes) == FoldLeft(LAMBDA a, b : a + b, 0, sizes)

-----------------------------------------------------------------------------
(* Marshal.                                                                *)

RECURSIVE MarshalSizeItem(_), MarshalItem(_)

\* Marker, count of an ECMA array, entries, empty key, object end.
MarshalSizeObject(item) ==
  (IF item.marker = ECMAArray THEN 8 ELSE 4) +
  Total([i \in DOMAIN item.entries |->
           2 + Len(item.entries[i].key) + MarshalSizeItem(item.entries[i].value)])

MarshalSizeItem(item) ==
  CASE item.marker = Number -> 9
    [] item.marker = Boolean -> 2
    [] item.marker = String -> 3 + Len(item.text)
    [] item.marker \in {ObjectStart, ECMAArray} -> MarshalSizeObject(item)
    [] item.marker = StrictArray -> 5 + Total([i \in DOMAIN item.items |-> MarshalSizeItem(item.items[i])])
    [] OTHER -> 1

MarshalEntries(entries) ==
  FlattenSeq([i \in DOMAIN entries |->
                Bytes(Len(entries[i].key), 2) \o entries[i].key \o MarshalItem(entries[i].value)])
  \o <<0, 0, ObjectEnd>>

MarshalItem(item) ==
  <<item.marker>> \o
  CASE item.marker = Number -> item.bits
    [] item.marker = Boolean -> <<IF item.is THEN 1 ELSE 0>>
    [] item.marker = String -> Bytes(Len(item.text), 2) \o item.text
    [] item.marker = ObjectStart -> MarshalEntries(item.entries)
    [] item.marker = ECMAArray -> Bytes(Len(item.entries), 4) \o MarshalEntries(item.entries)
    [] item.marker = StrictArray ->
         Bytes(Len(item.items), 4) \o FlattenSeq([i \in DOMAIN item.items |-> MarshalItem(item.items[i])])
    [] OTHER -> <<>>

MarshalSize(data) == Total([i \in DOMAIN data |-> MarshalSizeItem(data[i])])

\* Marshal: the items in a buffer of the size computed before.
Marshal(data) ==
  LET items == FlattenSeq([i \in DOMAIN data |-> MarshalItem(data[i])])
  IN [i \in 1..MarshalSize(data) |-> IF i <= Len(items) THEN items[i] ELSE 0]

-----------------------------------------------------------------------------
(* Unmarshal.                                                              *)

\* The next count bytes, whatever a length says of them.
Has(buf, count) == Len(buf) >= count

RECURSIVE UnmarshalItem(_), UnmarshalEntries(_, _), UnmarshalElements(_, _, _)

\* Key and value until an empty key, which the object end must follow.
UnmarshalEntries(buf, entries) ==
  IF ~Has(buf, 2) THEN Bad
  ELSE LET len == Value(SubSeq(buf, 1, 2))
           rest == Drop(buf, 2)
       IN CASE len = 0 -> IF Has(rest, 1) /\ rest[1] = ObjectEnd THEN Got(entries, Tail(rest)) ELSE Bad
            [] len > 0 /\ ~Has(rest, len) -> Bad
            [] len > 0 /\ Has(rest, len) ->
                 LET value == UnmarshalItem(Drop(rest, len))
                 IN IF value.ok
                    THEN UnmarshalEntries(value.rest, Append(entries, Entry(SubSeq(rest, 1, len), value.item)))
                    ELSE Bad

\* As many elements as the count says.
UnmarshalElements(buf, count, items) ==
  IF count = 0 THEN Got(items, buf)
  ELSE LET item == UnmarshalItem(buf)
       IN IF item.ok THEN UnmarshalElements(item.rest, count - 1, Append(items, item.item)) ELSE Bad

\* What a composite decoder got, as a value.
As(Of(_), got) == IF got.ok THEN Got(Of(got.item), got.rest) ELSE Bad

UnmarshalString(b) ==
  IF Has(b, 2) /\ Has(b, 2 + Value(SubSeq(b, 1, 2)))
  THEN LET len == Value(SubSeq(b, 1, 2))
       IN Got(StringOf(SubSeq(b, 3, 2 + len)), Drop(b, 2 + len))
  ELSE Bad

UnmarshalItem(buf) ==
  IF buf = <<>> THEN Bad
  ELSE LET b == Tail(buf)
       IN CASE buf[1] = Number /\ Has(b, 8) -> Got(NumberOf(SubSeq(b, 1, 8)), Drop(b, 8))
            [] buf[1] = Boolean /\ Has(b, 1) -> Got(BooleanOf(b[1] # 0), Tail(b))
            [] buf[1] = String -> UnmarshalString(b)
            [] buf[1] = ECMAArray /\ Has(b, 4) -> As(ECMAArrayOf, UnmarshalEntries(Drop(b, 4), <<>>))
            [] buf[1] = ObjectStart -> As(ObjectOf, UnmarshalEntries(b, <<>>))
            [] buf[1] \in {Null, UndefinedMarker} -> Got(Plain(buf[1]), b)
            [] buf[1] = StrictArray /\ Has(b, 4) ->
                 As(StrictArrayOf, UnmarshalElements(Drop(b, 4), Value(SubSeq(b, 1, 4)), <<>>))
            [] OTHER -> Bad

\* Unmarshal: items until the buffer is empty.
RECURSIVE UnmarshalFrom(_, _)
UnmarshalFrom(buf, items) ==
  IF buf = <<>> THEN Got(items, <<>>)
  ELSE LET item == UnmarshalItem(buf)
       IN IF item.ok THEN UnmarshalFrom(item.rest, Append(items, item.item)) ELSE Bad
Unmarshal(buf) == UnmarshalFrom(buf, <<>>)
=============================================================================
