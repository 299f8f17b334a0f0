-------------------------------- MODULE C1S1 ---------------------------------
(***************************************************************************)
(* The layout of C1 and S1 in the encrypted handshake                      *)
(* (pkg/handshake/c1s1.go).  Their random data hides a digest and a public *)
(* key, each at a place that four other bytes point to.  There are two     *)
(* formats, with the digest's block first or the key's block first; the    *)
(* reader is not told which one the writer chose.                          *)
(*                                                                         *)
(* A byte is a record: v is its value, anything else says where it comes   *)
(* from.  The code's lengths are in the comments.                          *)
(***************************************************************************)
EXTENDS Integers

CONSTANTS
  DigestLength,       \* 32
  DigestChunkLength,  \* 728
  KeyLength,          \* dhKeyLength, 128
  KeyChunkLength,     \* publicKeyChunkLength, 632
  Random,             \* bytes of the random generator
  HmacByte(_, _, _)   \* of a message under the key of one of the sides, its bytes

ASSUME LayoutAssumption ==
  /\ DigestLength \in Nat \ {0} /\ DigestChunkLength \in Nat \ {0}
  /\ KeyLength \in Nat \ {0} /\ KeyChunkLength \in Nat \ {0}

ASSUME RandomAssumption == \A c \in Random : c.v \in 0..255

PointerLength == 4
DigestBlock == PointerLength + DigestChunkLength + DigestLength  \* 764
KeyBlock == KeyChunkLength + KeyLength + PointerLength           \* 764
DataSize == DigestBlock + KeyBlock                               \* 1528

Formats == {1, 2}
DigestPointerPos(f) == IF f = 1 THEN 0 ELSE KeyBlock                        \* 0, 764
DigestChunkPos(f) == DigestPointerPos(f) + PointerLength                    \* 4, 768
KeyPointerPos(f) == IF f = 1 THEN DataSize - PointerLength
                             ELSE KeyBlock - PointerLength                  \* 1524, 760
KeyChunkPos(f) == KeyPointerPos(f) - (KeyChunkLength + KeyLength)           \* 764, 0

Data == [0..(DataSize - 1) -> Random]

-----------------------------------------------------------------------------
ReadPointer(data, p) == data[p].v + data[p + 1].v + data[p + 2].v + data[p + 3].v

DigestPos(data, f) ==
  DigestChunkPos(f) + (ReadPointer(data, DigestPointerPos(f)) % DigestChunkLength)

KeyPos(data, f) ==
  KeyChunkPos(f) + (ReadPointer(data, KeyPointerPos(f)) % KeyChunkLength)

Slice(data, pos, n) == [i \in 0..(n - 1) |-> data[pos + i]]

\* copy(data[pos:], bytes), with n bytes.
Overwrite(data, pos, bytes, n) ==
  [i \in DOMAIN data |-> IF i \in pos..(pos + n - 1) THEN bytes[i - pos] ELSE data[i]]

\* "hash entire message except digest"
WithoutDigest(data, pos) ==
  [i \in 0..(DataSize - DigestLength - 1) |->
     IF i < pos THEN data[i] ELSE data[i + DigestLength]]

ComputeDigest(data, pos, side) ==
  [i \in 0..(DigestLength - 1) |-> HmacByte(side, WithoutDigest(data, pos), i)]

\* fill: the public key and then the digest, at places that the random data
\* points to before either is written.
WithKey(data, f, key) == Overwrite(data, KeyPos(data, f), key, KeyLength)
\* Mutant: the digest is computed before the key is written.
FilledDigestFirst(data, f, key, side) ==
  LET p == DigestPos(data, f)
      d == ComputeDigest(data, p, side)
  IN Overwrite(WithKey(data, f, key), p, d, DigestLength)

Filled(data, f, key, side) ==
  LET d == WithKey(data, f, key)
      p == DigestPos(data, f)
  IN Overwrite(d, p, ComputeDigest(d, p, side), DigestLength)

\* validateDigest, on one format.
DigestAt(data, f) == Slice(data, DigestPos(data, f), DigestLength)
KeyAt(data, f) == Slice(data, KeyPos(data, f), KeyLength)
Matches(data, f, side) ==
  DigestAt(data, f) = ComputeDigest(data, DigestPos(data, f), side)
=============================================================================
