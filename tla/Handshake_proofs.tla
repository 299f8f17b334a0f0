--------------------------- MODULE Handshake_proofs ---------------------------
(***************************************************************************)
(* Proofs about C1S1 and Handshake: that what is written in C1 or S1 is    *)
(* found again, that an echo is checked, that no byte of the handshake is  *)
(* left unread and that the keys of the two sides match, for all random    *)
(* data, layouts and capacities of the connection.                         *)
(***************************************************************************)
EXTENDS Handshake, TLAPS

(***************************************************************************)
(* The layout of C1 and S1.                                                *)
(***************************************************************************)
\* An offset is within its chunk.
LEMMA Offset ==
  ASSUME NEW n \in Nat, NEW m \in Nat \ {0}
  PROVE  n % m \in 0..(m - 1)
BY SMT

\* The pointers are within the data.
LEMMA PointerPlaces ==
  ASSUME NEW f \in Formats
  PROVE  /\ DataSize \in Nat
         /\ DigestPointerPos(f) \in 0..(DataSize - PointerLength)
         /\ KeyPointerPos(f) \in 0..(DataSize - PointerLength)
BY LayoutAssumption, SMT
DEF Formats, DataSize, DigestBlock, KeyBlock, PointerLength, DigestPointerPos, KeyPointerPos

\* A pointer is the sum of four bytes.
LEMMA PointerType ==
  ASSUME NEW data \in Data, DataSize \in Nat, NEW p \in 0..(DataSize - PointerLength)
  PROVE  ReadPointer(data, p) \in Nat
<1>1. \A i \in 0..3 : p + i \in 0..(DataSize - 1)
  BY SMT DEF PointerLength
<1>2. \A i \in 0..3 : data[p + i] \in Random
  BY <1>1 DEF Data
<1>3. \A i \in 0..3 : data[p + i].v \in 0..255
  BY <1>2, RandomAssumption
<1>4. data[p].v \in Nat /\ data[p + 1].v \in Nat /\ data[p + 2].v \in Nat /\ data[p + 3].v \in Nat
  <2>1. data[p + 0].v \in 0..255 /\ data[p + 1].v \in 0..255
        /\ data[p + 2].v \in 0..255 /\ data[p + 3].v \in 0..255
    BY <1>3, SMT
  <2>2. p + 0 = p
    BY SMT
  <2> QED
    BY <2>1, <2>2, SMT
<1> QED
  BY <1>4, SMT DEF ReadPointer

\* Where the digest and the key of a format may be.
LEMMA Places ==
  ASSUME NEW data \in Data, NEW f \in Formats
  PROVE  /\ DigestPos(data, f) \in
              DigestChunkPos(f)..(DigestChunkPos(f) + DigestChunkLength - 1)
         /\ KeyPos(data, f) \in KeyChunkPos(f)..(KeyChunkPos(f) + KeyChunkLength - 1)
<1>1. /\ ReadPointer(data, DigestPointerPos(f)) \in Nat
      /\ ReadPointer(data, KeyPointerPos(f)) \in Nat
  BY PointerPlaces, PointerType
<1>2. DigestChunkPos(f) \in Int /\ KeyChunkPos(f) \in Int
  BY PointerPlaces, LayoutAssumption, SMT DEF DigestChunkPos, KeyChunkPos, PointerLength
<1>3. /\ ReadPointer(data, DigestPointerPos(f)) % DigestChunkLength \in 0..(DigestChunkLength - 1)
      /\ ReadPointer(data, KeyPointerPos(f)) % KeyChunkLength \in 0..(KeyChunkLength - 1)
  BY <1>1, Offset, LayoutAssumption
<1> QED
  BY <1>2, <1>3, LayoutAssumption, SMT DEF DigestPos, KeyPos

\* The two pointers, the digest and the key of a format share no byte, and all
\* are within the data.
LEMMA Apart ==
  ASSUME NEW data \in Data, NEW f \in Formats
  PROVE  LET dp == DigestPos(data, f)..(DigestPos(data, f) + DigestLength - 1)
             kp == KeyPos(data, f)..(KeyPos(data, f) + KeyLength - 1)
             pp == {DigestPointerPos(f) + i : i \in 0..3} \cup {KeyPointerPos(f) + i : i \in 0..3}
         IN /\ dp \cap kp = {} /\ dp \cap pp = {} /\ kp \cap pp = {}
            /\ dp \subseteq 0..(DataSize - 1) /\ kp \subseteq 0..(DataSize - 1)
            /\ pp \subseteq 0..(DataSize - 1)
<1> DEFINE d == DigestPos(data, f)
           k == KeyPos(data, f)
<1>1. /\ d \in DigestChunkPos(f)..(DigestChunkPos(f) + DigestChunkLength - 1)
      /\ k \in KeyChunkPos(f)..(KeyChunkPos(f) + KeyChunkLength - 1)
  BY Places
<1> HIDE DEF d, k
<1> SUFFICES
      LET dp == d..(d + DigestLength - 1)
          kp == k..(k + KeyLength - 1)
          pp == {DigestPointerPos(f) + i : i \in 0..3} \cup {KeyPointerPos(f) + i : i \in 0..3}
      IN /\ dp \cap kp = {} /\ dp \cap pp = {} /\ kp \cap pp = {}
         /\ dp \subseteq 0..(DataSize - 1) /\ kp \subseteq 0..(DataSize - 1)
         /\ pp \subseteq 0..(DataSize - 1)
  BY DEF d, k
<1>2. CASE f = 1
  BY <1>1, <1>2, LayoutAssumption, SMT
  DEF DataSize, DigestBlock, KeyBlock, PointerLength, DigestPointerPos, KeyPointerPos,
      DigestChunkPos, KeyChunkPos
<1>3. CASE f = 2
  BY <1>1, <1>3, LayoutAssumption, SMT
  DEF DataSize, DigestBlock, KeyBlock, PointerLength, DigestPointerPos, KeyPointerPos,
      DigestChunkPos, KeyChunkPos
<1> QED
  BY <1>2, <1>3 DEF Formats

\* What a writer fills in, with either format, a reader that tries that format
\* finds: the digest matches, and the key is the writer's.  Neither of the two
\* writes moves a pointer or overwrites the other (c1s1.go:99-121 against
\* c1s1.go:149-170).
THEOREM FilledIsFound ==
  ASSUME NEW data \in Data, NEW f \in Formats, NEW key, NEW side
  PROVE  /\ Matches(Filled(data, f, key, side), f, side)
         /\ KeyAt(Filled(data, f, key, side), f) = [i \in 0..(KeyLength - 1) |-> key[i]]
<1> DEFINE d == DigestPos(data, f)
           k == KeyPos(data, f)
           dp == d..(d + DigestLength - 1)
           kp == k..(k + KeyLength - 1)
           pp == {DigestPointerPos(f) + i : i \in 0..3} \cup {KeyPointerPos(f) + i : i \in 0..3}
           all == 0..(DataSize - 1)
           w == WithKey(data, f, key)
           s == Filled(data, f, key, side)
           digest == ComputeDigest(w, d, side)
<1>1. /\ dp \cap kp = {} /\ dp \cap pp = {} /\ kp \cap pp = {}
      /\ dp \subseteq all /\ kp \subseteq all /\ pp \subseteq all
  BY Apart
<1>2. d \in Nat /\ k \in Nat /\ DataSize \in Nat /\ DOMAIN data = all
  <2>1. d \in Int /\ k \in Int /\ DataSize \in Nat
    BY Places, PointerPlaces, LayoutAssumption, SMT
    DEF DigestChunkPos, KeyChunkPos, PointerLength
  <2>2. d \in dp /\ k \in kp
    BY <2>1, LayoutAssumption, SMT
  <2> QED
    BY <1>1, <2>1, <2>2, SMT DEF Data
<1>3. /\ DOMAIN w = all
      /\ \A i \in all \ kp : w[i] = data[i]
      /\ \A i \in kp : w[i] = key[i - k]
  BY <1>1, <1>2 DEF WithKey, Overwrite
<1>4. /\ DOMAIN s = all
      /\ \A i \in all \ dp : s[i] = w[i]
      /\ \A i \in dp : s[i] = digest[i - d]
  BY <1>1, <1>2, <1>3 DEF Filled, Overwrite
<1> HIDE DEF w, s, digest
<1>5. \A i \in pp : s[i] = data[i]
  BY <1>1, <1>3, <1>4
<1>6. DigestPos(s, f) = d /\ KeyPos(s, f) = k
  <2>1. \A i \in 0..3 : /\ s[DigestPointerPos(f) + i] = data[DigestPointerPos(f) + i]
                        /\ s[KeyPointerPos(f) + i] = data[KeyPointerPos(f) + i]
    BY <1>5
  <2>2. /\ DigestPointerPos(f) \in Int /\ KeyPointerPos(f) \in Int
        /\ DigestPointerPos(f) + 0 = DigestPointerPos(f)
        /\ KeyPointerPos(f) + 0 = KeyPointerPos(f)
    BY PointerPlaces, SMT
  <2>3. /\ s[DigestPointerPos(f)] = data[DigestPointerPos(f)]
        /\ s[KeyPointerPos(f)] = data[KeyPointerPos(f)]
        /\ \A i \in {1, 2, 3} : /\ s[DigestPointerPos(f) + i] = data[DigestPointerPos(f) + i]
                                /\ s[KeyPointerPos(f) + i] = data[KeyPointerPos(f) + i]
    <3>1. 0 \in 0..3 /\ \A i \in {1, 2, 3} : i \in 0..3
      BY SMT
    <3> QED
      BY <2>1, <2>2, <3>1, Zenon
  <2>4. /\ ReadPointer(s, DigestPointerPos(f)) = ReadPointer(data, DigestPointerPos(f))
        /\ ReadPointer(s, KeyPointerPos(f)) = ReadPointer(data, KeyPointerPos(f))
    BY <2>3 DEF ReadPointer
  <2> QED
    BY <2>4 DEF DigestPos, KeyPos
<1>7. DigestAt(s, f) = digest
  <2>1. \A i \in 0..(DigestLength - 1) : s[d + i] = digest[i]
    <3>1. \A i \in 0..(DigestLength - 1) : d + i \in dp /\ (d + i) - d = i
      BY <1>2, LayoutAssumption, SMT
    <3> QED
      BY <1>4, <3>1
  <2>2. digest = [i \in 0..(DigestLength - 1) |-> digest[i]]
    BY DEF digest, ComputeDigest
  <2>3. DigestAt(s, f) = [i \in 0..(DigestLength - 1) |-> s[d + i]]
    BY <1>6 DEF DigestAt, Slice
  <2> QED
    BY <2>1, <2>2, <2>3
<1>8. ComputeDigest(s, d, side) = digest
  <2>1. ASSUME NEW i \in 0..(DataSize - DigestLength - 1)
        PROVE  /\ i < d => s[i] = w[i]
               /\ ~(i < d) => s[i + DigestLength] = w[i + DigestLength]
    <3>1. /\ i < d => i \in all \ dp
          /\ ~(i < d) => i + DigestLength \in all \ dp
      BY <1>2, LayoutAssumption, SMT
    <3> QED
      BY <1>4, <3>1
  <2>2. WithoutDigest(s, d) = WithoutDigest(w, d)
    BY <2>1 DEF WithoutDigest
  <2> QED
    BY <2>2 DEF digest, ComputeDigest
<1>9. KeyAt(s, f) = [i \in 0..(KeyLength - 1) |-> key[i]]
  <2>1. \A i \in 0..(KeyLength - 1) : s[k + i] = key[i]
    <3>1. \A i \in 0..(KeyLength - 1) : k + i \in kp /\ (k + i) - k = i
      BY <1>2, LayoutAssumption, SMT
    <3>2. \A j \in kp : j \in all \ dp
      BY <1>1
    <3>3. \A j \in kp : s[j] = key[j - k]
      BY <1>3, <1>4, <3>2
    <3> QED
      BY <3>1, <3>3
  <2> QED
    BY <1>6, <2>1 DEF KeyAt, Slice
<1> QED
  BY <1>6, <1>7, <1>8, <1>9 DEF Matches, s

(***************************************************************************)
(* The values that the variables have.                                     *)
(***************************************************************************)
Sides == {"client", "server"}

\* What a side may send as its first packet, before that nothing.
Firsts ==
  {<<>>} \cup {FirstData(side, version, data, f) :
                 side \in Sides, version \in {3, 6}, data \in RandomData, f \in Formats}

Packets ==
  {C0S0(name, version) : name \in {"C0", "S0"}, version \in {3, 6}}
    \cup {First(name, data) : name \in {"C1", "S1"}, data \in Firsts}
    \cup {Second(name, Noise) : name \in {"C2", "S2"}}
    \cup {Second(name, EchoOf(side, peer, version, data)) :
            name \in {"C2", "S2"}, side \in Sides, peer \in Sides, version \in {3, 6},
            data \in Firsts}

SideKeys ==
  {NoKeys} \cup {Keys(side, KeyOf(data, peer)) : side \in Sides, peer \in Sides, data \in Firsts}

SideType(pcs, expects) ==
  [pc : pcs, todo : Seq(Packets), expect : expects, version : {3, 6}, own : Firsts,
   remote : Firsts, keys : SideKeys]

Types ==
  /\ mode \in Modes
  /\ client \in SideType({"start", "write", "read", "done", "failed"}, {"S0", "S1", "S2"})
  /\ server \in SideType({"read", "write", "done", "failed"}, {"C0", "C1", "C2"})
  /\ c2s \in Seq(Packets)
  /\ s2c \in Seq(Packets)

(***************************************************************************)
(* The three packets of each side, in order, and how many of them it wrote *)
(* and read.                                                               *)
(***************************************************************************)
ClientPackets(m, c) ==
  [i \in 1..3 |->
     IF i = 1 THEN C0S0("C0", c.version)
     ELSE IF i = 2 THEN First("C1", c.own)
     ELSE Second("C2", IF m.clientEchoes
                       THEN EchoOf("client", "server", c.version, c.remote)
                       ELSE Noise)]

ServerPackets(m, s) ==
  [i \in 1..3 |->
     IF i = 1 THEN C0S0("S0", s.version)
     ELSE IF i = 2 THEN First("S1", s.own)
     ELSE Second("S2", IF m.serverEchoes
                       THEN EchoOf("server", "client", s.version, s.remote)
                       ELSE Noise)]

ClientWrote(c) ==
  CASE c.pc = "start" -> 0
    [] c.pc = "write" /\ c.expect = "S0" -> 2 - Len(c.todo)
    [] c.pc = "write" /\ c.expect # "S0" -> 3 - Len(c.todo)
    [] c.pc = "read" -> 2
    [] OTHER -> 3

ClientRead(c) ==
  CASE c.expect = "S0" -> 0
    [] c.expect = "S1" -> 1
    [] c.expect = "S2" /\ c.pc = "read" -> 2
    [] OTHER -> 3

ServerWrote(s) ==
  CASE s.expect # "C2" -> 0
    [] s.expect = "C2" /\ s.pc = "write" -> 3 - Len(s.todo)
    [] OTHER -> 3

ServerRead(s) ==
  CASE s.expect = "C0" -> 0
    [] s.expect = "C1" -> 1
    [] s.expect = "C2" /\ s.pc # "done" -> 2
    [] OTHER -> 3

\* q holds the packets of p that follow the first r.
Ordered(q, p, r) == r + Len(q) <= 3 /\ \A i \in 1..Len(q) : q[i] = p[r + i]

\* What is on its way to the server, and to the client.
ToServer ==
  server.pc # "failed" =>
    /\ Ordered(c2s, ClientPackets(mode, client), ServerRead(server))
    /\ client.pc # "failed" => ServerRead(server) + Len(c2s) = ClientWrote(client)

ToClient ==
  client.pc # "failed" =>
    /\ Ordered(s2c, ServerPackets(mode, server), ClientRead(client))
    /\ server.pc # "failed" => ClientRead(client) + Len(s2c) = ServerWrote(server)

\* What a side has still to write.
ClientTodo ==
  client.pc = "write" =>
    /\ client.expect \in {"S0", "S2"}
    /\ Len(client.todo) \in IF client.expect = "S0" THEN {1, 2} ELSE {1}
    /\ Ordered(client.todo, ClientPackets(mode, client), ClientWrote(client))

ServerTodo ==
  server.pc = "write" =>
    /\ server.expect = "C2"
    /\ Len(server.todo) \in 1..3
    /\ Ordered(server.todo, ServerPackets(mode, server), ServerWrote(server))

Points ==
  /\ client.pc = "start" => client.expect = "S0"
  /\ client.pc = "done" => client.expect = "S2"
  /\ server.pc = "done" => server.expect = "C2"
  /\ s2c # <<>> => server.expect = "C2"

Order == ToServer /\ ToClient /\ ClientTodo /\ ServerTodo /\ Points

(***************************************************************************)
(* What each side knows of the other.                                      *)
(***************************************************************************)
Version(m) == IF m.encrypted THEN 6 ELSE 3

MadeBy(own, side, version) ==
  \E data \in RandomData, f \in Formats : own = FirstData(side, version, data, f)

ClientAccepted(c) == c.pc = "done" \/ (c.pc = "write" /\ c.expect = "S2")

Known ==
  /\ client.pc # "start" =>
       client.version = Version(mode) /\ MadeBy(client.own, "client", client.version)
  /\ server.expect # "C0" => client.pc # "start"
  /\ server.expect = "C2" =>
       server.remote = client.own /\ MadeBy(server.own, "server", server.version)
  /\ client.expect # "S0" => server.expect = "C2" /\ server.version = client.version
  /\ client.expect = "S2" => client.remote = server.own
  /\ ClientAccepted(client) =>
       /\ client.keys = IF client.version = 6
                        THEN Keys("client", KeyOf(server.own, "server")) ELSE NoKeys
       /\ mode.encrypted \/ mode.clientStrict => mode.serverEchoes
  /\ server.pc = "done" =>
       /\ server.keys = IF server.version = 6
                        THEN Keys("server", KeyOf(client.own, "client")) ELSE NoKeys
       /\ server.version = 6 \/ mode.serverStrict => mode.clientEchoes

Inv == Types /\ Order /\ Known

\* No digest is found where the writer put none: of 2^256 digests, the one of a
\* first packet of the second format is not what lies at the place of the first.
OneFormat ==
  \A data \in RandomData, side \in Sides :
    ~Matches(Filled(data, 2, PublicKey(side), side), 1, side)

(***************************************************************************)
(* Sequences of packets.                                                   *)
(***************************************************************************)
LEMMA OrderedMore ==
  ASSUME NEW q \in Seq(Packets), NEW p, NEW r \in Nat, Ordered(q, p, r), NEW x \in Packets,
         r + Len(q) < 3, x = p[(r + Len(q)) + 1]
  PROVE  /\ Append(q, x) \in Seq(Packets) /\ Append(q, x) # <<>>
         /\ Ordered(Append(q, x), p, r) /\ Len(Append(q, x)) = Len(q) + 1
<1>1. /\ Append(q, x) \in Seq(Packets) /\ Len(Append(q, x)) = Len(q) + 1 /\ Len(q) \in Nat
      /\ Append(q, x)[Len(q) + 1] = x /\ \A i \in 1..Len(q) : Append(q, x)[i] = q[i]
  OBVIOUS
<1>2. ASSUME NEW i \in 1..(Len(q) + 1) PROVE Append(q, x)[i] = p[r + i]
  <2>1. CASE i = Len(q) + 1
    BY <1>1, <2>1
  <2>2. CASE i # Len(q) + 1
    <3>1. i \in 1..Len(q)
      BY <1>1, <2>2
    <3> QED
      BY <1>1, <3>1 DEF Ordered
  <2> QED
    BY <2>1, <2>2
<1>3. r + (Len(q) + 1) <= 3
  BY <1>1
<1>4. Len(Append(q, x)) # 0 /\ Len(<<>>) = 0
  BY <1>1
<1> QED
  BY <1>1, <1>2, <1>3, <1>4 DEF Ordered

\* Without its first packet, q holds the packets after the first r + 1.
LEMMA OrderedRest ==
  ASSUME NEW q \in Seq(Packets), q # <<>>, NEW p, NEW r \in Nat, Ordered(q, p, r)
  PROVE  /\ Head(q) = p[r + 1] /\ Head(q) \in Packets /\ r + 1 <= 3
         /\ Tail(q) \in Seq(Packets) /\ Len(Tail(q)) = Len(q) - 1
         /\ Ordered(Tail(q), p, r + 1)
         /\ Len(q) # 1 => Tail(q) # <<>>
<1>1. /\ Len(q) \in Nat /\ Len(q) >= 1 /\ Head(q) = q[1] /\ Head(q) \in Packets
      /\ Tail(q) \in Seq(Packets) /\ Len(Tail(q)) = Len(q) - 1
      /\ \A i \in 1..Len(Tail(q)) : i + 1 \in 1..Len(q) /\ Tail(q)[i] = q[i + 1]
  OBVIOUS
<1>2. r + Len(q) <= 3 /\ \A i \in 1..Len(q) : q[i] = p[r + i]
  BY DEF Ordered
<1>3. ASSUME NEW i \in 1..Len(Tail(q)) PROVE Tail(q)[i] = p[(r + 1) + i]
  <2>1. i + 1 \in 1..Len(q) /\ r + (i + 1) = (r + 1) + i
    BY <1>1
  <2> QED
    BY <1>1, <1>2, <2>1
<1>4. Len(q) # 1 => Len(Tail(q)) # 0
  BY <1>1
<1>5. Len(<<>>) = 0
  OBVIOUS
<1>6. r + 1 <= 3 /\ (r + 1) + Len(Tail(q)) <= 3
  BY <1>1, <1>2
<1>7. Ordered(Tail(q), p, r + 1)
  BY <1>3, <1>6 DEF Ordered
<1>8. Head(q) = p[r + 1]
  BY <1>1, <1>2
<1> QED
  BY <1>1, <1>4, <1>5, <1>6, <1>7, <1>8

\* Only the packets that q holds matter.
LEMMA OrderedSame ==
  ASSUME NEW q \in Seq(Packets), NEW p, NEW r \in Nat, Ordered(q, p, r), NEW s,
         \A i \in 1..3 : i <= r + Len(q) => s[i] = p[i]
  PROVE  Ordered(q, s, r)
<1>1. Len(q) \in Nat /\ \A i \in 1..Len(q) : r + i \in 1..3 /\ r + i <= r + Len(q)
  BY DEF Ordered
<1> QED
  BY <1>1 DEF Ordered

\* The third packet alone follows the first two.
LEMMA OrderedLast ==
  ASSUME NEW p
  PROVE  Len(<<p[3]>>) = 1 /\ Ordered(<<p[3]>>, p, 2)
<1> DEFINE x == p[3]
<1> HIDE DEF x
<1>1. Len(<<x>>) = 1 /\ <<x>>[1] = x
  OBVIOUS
<1>2. 2 + 1 = 3 /\ \A i \in 1..1 : i = 1
  OBVIOUS
<1>3. \A i \in 1..1 : <<x>>[i] = p[2 + i]
  BY <1>1, <1>2 DEF x
<1> QED
  BY <1>1, <1>2, <1>3 DEF Ordered, x

\* An empty queue follows any number of packets.
LEMMA OrderedNone == \A p : \A r \in 0..3 : Ordered(<<>>, p, r)
BY DEF Ordered

(***************************************************************************)
(* Types of packets and keys.                                              *)
(***************************************************************************)
LEMMA PacketTypes ==
  /\ <<>> \in Firsts /\ NoKeys \in SideKeys
  /\ \A version \in {3, 6} : /\ C0S0("C0", version) \in Packets
                             /\ C0S0("S0", version) \in Packets
  /\ \A data \in Firsts : First("C1", data) \in Packets /\ First("S1", data) \in Packets
  /\ \A side, peer \in Sides, version \in {3, 6}, data \in Firsts :
       /\ Second("C2", EchoOf(side, peer, version, data)) \in Packets
       /\ Second("S2", EchoOf(side, peer, version, data)) \in Packets
  /\ Second("C2", Noise) \in Packets /\ Second("S2", Noise) \in Packets
<1>1. <<>> \in Firsts /\ NoKeys \in SideKeys
  BY DEF Firsts, SideKeys
<1>2. \A version \in {3, 6} : C0S0("C0", version) \in Packets /\ C0S0("S0", version) \in Packets
  BY DEF Packets
<1>3. \A data \in Firsts : First("C1", data) \in Packets /\ First("S1", data) \in Packets
  BY DEF Packets
<1>4. \A side, peer \in Sides, version \in {3, 6}, data \in Firsts :
       /\ Second("C2", EchoOf(side, peer, version, data)) \in Packets
       /\ Second("S2", EchoOf(side, peer, version, data)) \in Packets
  BY DEF Packets
<1>5. Second("C2", Noise) \in Packets /\ Second("S2", Noise) \in Packets
  BY DEF Packets
<1> QED
  BY <1>1, <1>2, <1>3, <1>4, <1>5

LEMMA KeyTypes ==
  \A side, peer \in Sides, data \in Firsts : Keys(side, KeyOf(data, peer)) \in SideKeys
BY DEF SideKeys

LEMMA FirstTypes ==
  \A side \in Sides, version \in {3, 6}, data \in RandomData, f \in Formats :
    FirstData(side, version, data, f) \in Firsts
BY DEF Firsts

\* The packets of each side, and that they are packets.
LEMMA PacketFields ==
  ASSUME NEW m \in Modes, NEW c, NEW s,
         c.version \in {3, 6}, c.own \in Firsts, c.remote \in Firsts,
         s.version \in {3, 6}, s.own \in Firsts, s.remote \in Firsts
  PROVE  /\ ClientPackets(m, c)[1] = C0S0("C0", c.version)
         /\ ClientPackets(m, c)[2] = First("C1", c.own)
         /\ ClientPackets(m, c)[3] = Second("C2", IF m.clientEchoes
                                 THEN EchoOf("client", "server", c.version, c.remote)
                                 ELSE Noise)
         /\ ServerPackets(m, s)[1] = C0S0("S0", s.version)
         /\ ServerPackets(m, s)[2] = First("S1", s.own)
         /\ ServerPackets(m, s)[3] = Second("S2", IF m.serverEchoes
                                 THEN EchoOf("server", "client", s.version, s.remote)
                                 ELSE Noise)
         /\ \A i \in 1..3 : ClientPackets(m, c)[i] \in Packets /\ ServerPackets(m, s)[i] \in Packets
<1>1. /\ ClientPackets(m, c)[1] = C0S0("C0", c.version)
      /\ ClientPackets(m, c)[2] = First("C1", c.own)
      /\ ClientPackets(m, c)[3] = Second("C2", IF m.clientEchoes
                              THEN EchoOf("client", "server", c.version, c.remote)
                              ELSE Noise)
  BY DEF ClientPackets
<1>2. /\ ServerPackets(m, s)[1] = C0S0("S0", s.version)
      /\ ServerPackets(m, s)[2] = First("S1", s.own)
      /\ ServerPackets(m, s)[3] = Second("S2", IF m.serverEchoes
                              THEN EchoOf("server", "client", s.version, s.remote)
                              ELSE Noise)
  BY DEF ServerPackets
<1>3. "client" \in Sides /\ "server" \in Sides
  BY DEF Sides
<1>4. /\ ClientPackets(m, c)[1] \in Packets /\ ClientPackets(m, c)[2] \in Packets
      /\ ClientPackets(m, c)[3] \in Packets
      /\ ServerPackets(m, s)[1] \in Packets /\ ServerPackets(m, s)[2] \in Packets
      /\ ServerPackets(m, s)[3] \in Packets
  BY <1>1, <1>2, <1>3, PacketTypes
<1>5. \A i \in 1..3 : i = 1 \/ i = 2 \/ i = 3
  OBVIOUS
<1> QED
  BY <1>1, <1>2, <1>4, <1>5

\* Sides that agree on version, first packet and what they received send the
\* same packets.
LEMMA SamePackets ==
  ASSUME NEW m, NEW c, NEW d, c.version = d.version, c.own = d.own, c.remote = d.remote
  PROVE  ClientPackets(m, c) = ClientPackets(m, d) /\ ServerPackets(m, c) = ServerPackets(m, d)
BY DEF ClientPackets, ServerPackets

\* The fields of a side.
LEMMA Fields ==
  ASSUME NEW pcs, NEW expects, NEW s \in SideType(pcs, expects)
  PROVE  /\ s.pc \in pcs /\ s.todo \in Seq(Packets) /\ Len(s.todo) \in Nat
         /\ s.expect \in expects /\ s.version \in {3, 6} /\ s.own \in Firsts
         /\ s.remote \in Firsts /\ s.keys \in SideKeys
BY DEF SideType

(***************************************************************************)
(* The invariant holds at first, and every step keeps it.                  *)
(***************************************************************************)
LEMMA InitInv == Init => Inv
<1> SUFFICES ASSUME Init PROVE Inv
  OBVIOUS
<1>1. <<>> \in Firsts /\ NoKeys \in SideKeys /\ <<>> \in Seq(Packets)
  BY PacketTypes
<1>2. /\ client.pc = "start" /\ client.expect = "S0"
      /\ server.pc = "read" /\ server.expect = "C0" /\ c2s = <<>> /\ s2c = <<>>
  BY DEF Init, NewSide
<1>3. Types
  BY <1>1 DEF Init, NewSide, Types, SideType
<1>4. ServerRead(server) = 0 /\ ClientRead(client) = 0
      /\ ServerWrote(server) = 0 /\ ClientWrote(client) = 0
  BY <1>2 DEF ServerRead, ClientRead, ServerWrote, ClientWrote
<1>5. Order
  BY <1>2, <1>4, OrderedNone DEF Order, ToServer, ToClient, ClientTodo, ServerTodo, Points
<1>6. Known
  BY <1>2 DEF Known, ClientAccepted
<1> QED
  BY <1>3, <1>5, <1>6 DEF Inv

\* A side that gives up leaves the rest as it is.
LEMMA ClientFails ==
  ASSUME Inv, client.pc # "start", client' = Failed(client), UNCHANGED <<mode, server, c2s>>,
         s2c' \in Seq(Packets), s2c' # <<>> => s2c # <<>>
  PROVE  Inv'
<1>1. /\ client'.pc = "failed" /\ client'.todo = <<>> /\ client'.expect = client.expect
      /\ client'.version = client.version /\ client'.own = client.own
      /\ client'.remote = client.remote /\ client'.keys = client.keys
  BY DEF Failed, Inv, Types, SideType
<1>2. Types'
  <2>1. <<>> \in Seq(Packets)
    OBVIOUS
  <2> QED
    BY <2>1 DEF Inv, Types, SideType, Failed
<1>3. ClientPackets(mode, client') = ClientPackets(mode, client)
  BY <1>1, SamePackets
<1>4. Order'
  BY <1>1, <1>3 DEF Inv, Order, ToServer, ToClient, ClientTodo, ServerTodo, Points
<1>5. Known'
  BY <1>1 DEF Inv, Known, ClientAccepted
<1> QED
  BY <1>2, <1>4, <1>5 DEF Inv

LEMMA ServerFails ==
  ASSUME Inv, server' = Failed(server), UNCHANGED <<mode, client, s2c>>,
         c2s' \in Seq(Packets)
  PROVE  Inv'
<1>1. /\ server'.pc = "failed" /\ server'.todo = <<>> /\ server'.expect = server.expect
      /\ server'.version = server.version /\ server'.own = server.own
      /\ server'.remote = server.remote /\ server'.keys = server.keys
  BY DEF Failed, Inv, Types, SideType
<1>2. Types'
  <2>1. <<>> \in Seq(Packets)
    OBVIOUS
  <2> QED
    BY <2>1 DEF Inv, Types, SideType, Failed
<1>3. ServerPackets(mode, server') = ServerPackets(mode, server)
  BY <1>1, SamePackets
<1>4. Order'
  BY <1>1, <1>3 DEF Inv, Order, ToServer, ToClient, ClientTodo, ServerTodo, Points
<1>5. Known'
  BY <1>1 DEF Inv, Known, ClientAccepted
<1> QED
  BY <1>2, <1>4, <1>5 DEF Inv

LEMMA ClientStartKeeps == Inv /\ ClientStart => Inv'
<1> SUFFICES ASSUME Inv, ClientStart PROVE Inv'
  OBVIOUS
<1> DEFINE version == Version(mode)
<1>1. PICK data \in RandomData, f \in Formats :
        LET own == FirstData("client", version, data, f)
        IN client' = [client EXCEPT !.pc = "write", !.version = version, !.own = own,
                                    !.todo = <<C0S0("C0", version), First("C1", own)>>]
  BY DEF ClientStart, Version
<1> DEFINE own == FirstData("client", version, data, f)
<1>2. version \in {3, 6} /\ own \in Firsts
  <2>1. version \in {3, 6} /\ "client" \in Sides
    BY DEF Version, Sides
  <2> QED
    BY <2>1, FirstTypes
<1> HIDE DEF version, own
<1>3. /\ client.pc = "start" /\ client.expect = "S0" /\ client.remote \in Firsts
      /\ server.expect = "C0" /\ s2c = <<>> /\ Len(s2c) = 0 /\ Len(c2s) \in Nat
      /\ mode \in Modes /\ UNCHANGED <<mode, server, c2s, s2c>>
  BY DEF Inv, Types, SideType, ClientStart, Order, Points, Known
<1>4. /\ client'.pc = "write" /\ client'.expect = "S0" /\ client'.version = version
      /\ client'.own = own /\ client'.remote = client.remote /\ client'.keys = client.keys
      /\ client'.todo = <<C0S0("C0", version), First("C1", own)>>
  BY <1>1, <1>3 DEF Inv, Types, SideType, own
<1>5. C0S0("C0", version) \in Packets /\ First("C1", own) \in Packets
  BY <1>2, PacketTypes
<1>6. Types'
  <2>1. <<C0S0("C0", version), First("C1", own)>> \in Seq(Packets)
    BY <1>5
  <2> QED
    BY <1>1, <1>2, <1>3, <2>1 DEF Inv, Types, SideType, own
<1>7. /\ ClientPackets(mode, client')[1] = C0S0("C0", version)
      /\ ClientPackets(mode, client')[2] = First("C1", own)
  BY <1>4 DEF ClientPackets
<1>8. Len(client'.todo) = 2 /\ ClientWrote(client') = 0 /\ ClientWrote(client) = 0
  BY <1>3, <1>4 DEF ClientWrote
<1>9. ClientRead(client') = 0 /\ ClientRead(client) = 0 /\ ServerRead(server) = 0
  BY <1>3, <1>4 DEF ClientRead, ServerRead
<1>10. Ordered(client'.todo, ClientPackets(mode, client'), 0)
  <2>1. \A i \in 1..2 : client'.todo[i] = ClientPackets(mode, client')[0 + i]
    <3>1. \A i \in 1..2 : (i = 1 \/ i = 2) /\ 0 + i = i
      OBVIOUS
    <3> QED
      BY <1>4, <1>7, <3>1
  <2> QED
    BY <1>8, <2>1 DEF Ordered
<1>11. ToServer'
  <2>1. server.pc # "failed" => Len(c2s) = 0
    BY <1>3, <1>8, <1>9 DEF Inv, Order, ToServer
  <2>2. server.pc # "failed" => c2s = <<>>
    BY <2>1 DEF Inv, Types
  <2> QED
    BY <1>3, <1>8, <1>9, <2>1, <2>2, OrderedNone DEF ToServer
<1>12. ToClient'
  BY <1>3, <1>4, <1>9 DEF Inv, Order, ToClient
<1>13. Order'
  BY <1>3, <1>4, <1>8, <1>10, <1>11, <1>12 DEF Inv, Order, ClientTodo, ServerTodo, Points
<1>14. Known'
  <2>1. MadeBy(own, "client", version) /\ version = Version(mode)
    BY DEF MadeBy, own, version
  <2>2. ~ClientAccepted(client') /\ server.pc # "done"
    BY <1>3, <1>4 DEF ClientAccepted, Inv, Order, Points
  <2> QED
    BY <1>3, <1>4, <2>1, <2>2 DEF Known
<1> QED
  BY <1>6, <1>13, <1>14 DEF Inv

LEMMA ClientWritesKeeps == Inv /\ ClientWrites => Inv'
<1> SUFFICES ASSUME Inv, ClientWrites PROVE Inv'
  OBVIOUS
<1>1. /\ client.pc = "write" /\ UNCHANGED <<mode, server, s2c>> /\ mode \in Modes
      /\ client.todo \in Seq(Packets) /\ Len(client.todo) \in Nat /\ c2s \in Seq(Packets)
      /\ Len(c2s) \in Nat /\ s2c \in Seq(Packets)
      /\ client.version \in {3, 6} /\ client.own \in Firsts /\ client.remote \in Firsts
      /\ client.expect \in {"S0", "S2"}
  BY DEF ClientWrites, Inv, Types, SideType, Order, ClientTodo
<1>2. CASE server.pc = "failed" /\ client' = Failed(client) /\ UNCHANGED c2s
  BY <1>1, <1>2, ClientFails
<1>3. CASE /\ c2s' = Append(c2s, Head(client.todo))
           /\ client' = Written(client, IF Head(client.todo).name = "C2" THEN "done" ELSE "read")
  <2> DEFINE p == ClientPackets(mode, client)
             n == ClientWrote(client)
  <2>1. /\ client.expect = "S0" => Len(client.todo) = 1 \/ Len(client.todo) = 2
        /\ client.expect = "S2" => Len(client.todo) = 1
        /\ Ordered(client.todo, p, n)
    <3>1. Len(client.todo) \in IF client.expect = "S0" THEN {1, 2} ELSE {1}
      BY <1>1 DEF Inv, Order, ClientTodo
    <3>2. Ordered(client.todo, p, n)
      BY <1>1 DEF Inv, Order, ClientTodo
    <3> QED
      BY <1>1, <3>1, <3>2
  <2>2. \/ client.expect = "S0" /\ Len(client.todo) = 1 /\ n = 1
        \/ client.expect = "S0" /\ Len(client.todo) = 2 /\ n = 0
        \/ client.expect = "S2" /\ Len(client.todo) = 1 /\ n = 2
    <3>1. /\ client.expect = "S0" => n = 2 - Len(client.todo)
          /\ client.expect = "S2" => n = 3 - Len(client.todo)
      BY <1>1 DEF ClientWrote
    <3> HIDE DEF n
    <3>2. CASE client.expect = "S0" /\ Len(client.todo) = 1
      BY <3>1, <3>2
    <3>3. CASE client.expect = "S0" /\ Len(client.todo) = 2
      BY <3>1, <3>3
    <3>4. CASE client.expect = "S2" /\ Len(client.todo) = 1
      BY <3>1, <3>4
    <3> QED
      BY <1>1, <2>1, <3>2, <3>3, <3>4
  <2> HIDE DEF n
  <2>3. n \in 0..2 /\ client.todo # <<>>
    <3>1. Len(client.todo) # 0 /\ Len(<<>>) = 0
      BY <2>2
    <3>2. n \in 0..2
      BY <2>2
    <3> QED
      BY <1>1, <3>1, <3>2
  <2>4. /\ Head(client.todo) = p[n + 1] /\ Head(client.todo) \in Packets
        /\ Tail(client.todo) \in Seq(Packets) /\ Len(Tail(client.todo)) = Len(client.todo) - 1
        /\ Ordered(Tail(client.todo), p, n + 1)
    BY <1>1, <2>1, <2>3, OrderedRest
  <2>5. Head(client.todo).name = "C2" <=> client.expect = "S2"
    <3>1. p[1].name = "C0" /\ p[2].name = "C1" /\ p[3].name = "C2"
      BY <1>1 DEF ClientPackets, C0S0, First, Second
    <3>2. /\ client.expect = "S0" => n + 1 = 1 \/ n + 1 = 2
          /\ client.expect = "S2" => n + 1 = 3
      BY <2>2
    <3> QED
      BY <1>1, <2>4, <3>1, <3>2
  <2>6. /\ client'.pc = IF Len(client.todo) = 1
                         THEN IF client.expect = "S2" THEN "done" ELSE "read" ELSE "write"
        /\ client'.todo = Tail(client.todo) /\ client'.expect = client.expect
        /\ client'.version = client.version /\ client'.own = client.own
        /\ client'.remote = client.remote /\ client'.keys = client.keys
    BY <1>1, <1>3, <2>5 DEF Written, Inv, Types, SideType
  <2>7. ClientPackets(mode, client') = p
    BY <2>6, SamePackets
  <2>8. ClientWrote(client') = n + 1
    <3>1. CASE client.expect = "S0"
      <4>1. CASE Len(client.todo) = 1
        <5>1. n + 1 = 2 /\ client'.pc = "read"
          BY <2>2, <2>6, <3>1, <4>1
        <5> QED
          BY <5>1 DEF ClientWrote
      <4>2. CASE Len(client.todo) = 2
        <5>1. n + 1 = 1 /\ client'.pc = "write" /\ client'.expect = "S0" /\ Len(client'.todo) = 1
          BY <2>2, <2>4, <2>6, <3>1, <4>2
        <5> QED
          BY <5>1 DEF ClientWrote
      <4> QED
        BY <2>1, <3>1, <4>1, <4>2
    <3>2. CASE client.expect = "S2"
      <4>1. n + 1 = 3 /\ client'.pc = "done"
        BY <2>2, <2>6, <3>2
      <4> QED
        BY <4>1 DEF ClientWrote
    <3> QED
      BY <1>1, <3>1, <3>2
  <2>9. ClientRead(client') = ClientRead(client)
    <3>1. client.expect = "S2" => client'.pc = "done"
      BY <2>1, <2>6
    <3> QED
      BY <1>1, <2>6, <3>1 DEF ClientRead
  <2> USE DEF n
  <2>10. server.pc # "failed" =>
           /\ Ordered(c2s', ClientPackets(mode, client'), ServerRead(server))
           /\ ServerRead(server) + Len(c2s') = ClientWrote(client')
    <3> SUFFICES ASSUME server.pc # "failed"
                 PROVE  /\ Ordered(c2s', p, ServerRead(server))
                        /\ ServerRead(server) + Len(c2s') = n + 1
      BY <2>7, <2>8
    <3>1. ServerRead(server) \in 0..3
      BY DEF ServerRead
    <3>2. Ordered(c2s, p, ServerRead(server)) /\ ServerRead(server) + Len(c2s) = n
      BY <1>1 DEF Inv, Order, ToServer
    <3> HIDE DEF p, n
    <3> DEFINE r == ServerRead(server)
    <3> HIDE DEF r
    <3>3. /\ Ordered(Append(c2s, Head(client.todo)), p, r)
          /\ Len(Append(c2s, Head(client.todo))) = Len(c2s) + 1
      <4>1. r \in Nat /\ r + Len(c2s) < 3 /\ Head(client.todo) = p[(r + Len(c2s)) + 1]
            /\ Ordered(c2s, p, r)
        BY <2>3, <2>4, <3>1, <3>2 DEF r
      <4> QED
        BY <1>1, <2>4, <4>1, OrderedMore
    <3> QED
      BY <1>1, <1>3, <2>3, <3>1, <3>2, <3>3 DEF r
  <2>11. Types'
    <3>1. c2s' \in Seq(Packets)
      BY <1>1, <1>3, <2>4
    <3> QED
      BY <1>1, <1>3, <2>4, <3>1 DEF Inv, Types, SideType, Written
  <2>12. ClientTodo'
    <3>1. client'.pc = "write" => client.expect = "S0" /\ Len(client'.todo) = 1
      BY <1>1, <2>1, <2>4, <2>6
    <3>2. client'.pc = "write" => Ordered(client'.todo, ClientPackets(mode, client'), ClientWrote(client'))
      BY <2>4, <2>6, <2>7, <2>8
    <3>3. client'.pc = "write" => Len(client'.todo) \in IF client'.expect = "S0" THEN {1, 2} ELSE {1}
      BY <2>6, <3>1
    <3> QED
      BY <1>1, <2>6, <3>2, <3>3 DEF ClientTodo
  <2>13. ToClient' /\ ServerTodo' /\ Points'
    <3>1. client'.pc # "start" /\ client'.pc # "failed" /\ client'.pc = "done" => client.expect = "S2"
      BY <2>6
    <3> QED
      BY <1>1, <2>6, <2>9, <3>1 DEF Inv, Order, ToClient, ServerTodo, Points
  <2>14. Order'
    BY <1>1, <2>6, <2>10, <2>12, <2>13 DEF Order, ToServer
  <2>15. Known'
    <3>1. ClientAccepted(client') => ClientAccepted(client)
      BY <1>1, <2>6 DEF ClientAccepted
    <3> QED
      BY <1>1, <2>6, <3>1 DEF Inv, Known
  <2> QED
    BY <2>11, <2>14, <2>15 DEF Inv
<1> QED
  BY <1>2, <1>3 DEF ClientWrites

\* The next packet that the client reads.
LEMMA ClientReceives ==
  ASSUME Inv, client.pc = "read", s2c # <<>>
  PROVE  /\ Head(s2c) = ServerPackets(mode, server)[ClientRead(client) + 1]
         /\ ClientRead(client) \in 0..2
         /\ Tail(s2c) \in Seq(Packets)
         /\ Ordered(Tail(s2c), ServerPackets(mode, server), ClientRead(client) + 1)
         /\ server.pc # "failed" =>
              (ClientRead(client) + 1) + Len(Tail(s2c)) = ServerWrote(server)
         /\ server.expect = "C2" /\ server.remote = client.own
         /\ mode \in Modes /\ client.version = Version(mode)
         /\ client.version \in {3, 6} /\ client.own \in Firsts /\ client.remote \in Firsts
         /\ client.keys \in SideKeys
         /\ server.version \in {3, 6} /\ server.own \in Firsts /\ server.remote \in Firsts
         /\ client.expect \in {"S0", "S1", "S2"}
<1>1. /\ s2c \in Seq(Packets) /\ Len(s2c) \in Nat
      /\ Ordered(s2c, ServerPackets(mode, server), ClientRead(client))
      /\ server.pc # "failed" => ClientRead(client) + Len(s2c) = ServerWrote(server)
  BY DEF Inv, Types, Order, ToClient
<1>2. ClientRead(client) \in Nat
  BY DEF ClientRead
<1>3. /\ Head(s2c) = ServerPackets(mode, server)[ClientRead(client) + 1]
      /\ ClientRead(client) + 1 <= 3
      /\ Tail(s2c) \in Seq(Packets) /\ Len(Tail(s2c)) = Len(s2c) - 1
      /\ Ordered(Tail(s2c), ServerPackets(mode, server), ClientRead(client) + 1)
  BY <1>1, <1>2, OrderedRest
<1>4. server.pc # "failed" => (ClientRead(client) + 1) + Len(Tail(s2c)) = ServerWrote(server)
  BY <1>1, <1>2, <1>3
<1>5. ClientRead(client) \in 0..2
  BY <1>2, <1>3
<1>6. /\ server.expect = "C2" /\ server.remote = client.own
      /\ mode \in Modes /\ client.version = Version(mode)
      /\ client.version \in {3, 6} /\ client.own \in Firsts /\ client.remote \in Firsts
      /\ client.keys \in SideKeys
      /\ server.version \in {3, 6} /\ server.own \in Firsts /\ server.remote \in Firsts
      /\ client.expect \in {"S0", "S1", "S2"}
  BY DEF Inv, Types, SideType, Order, Points, Known
<1> QED
  BY <1>3, <1>4, <1>5, <1>6

\* What holds of both directions once the client has taken a packet.
LEMMA ClientTook ==
  ASSUME Inv, client.pc = "read", s2c # <<>>, s2c' = Tail(s2c), UNCHANGED <<mode, server, c2s>>,
         client'.pc \in {"read", "write"}, client'.version = client.version,
         client'.own = client.own, client'.expect \in {"S1", "S2"},
         ClientRead(client') = ClientRead(client) + 1, ClientWrote(client') = 2
  PROVE  ToServer' /\ ToClient' /\ ServerTodo' /\ Points'
<1>1. ToClient'
  BY ClientReceives DEF ToClient
<1>2. ToServer'
  <2> SUFFICES ASSUME server.pc # "failed"
               PROVE  /\ Ordered(c2s, ClientPackets(mode, client'), ServerRead(server))
                      /\ ServerRead(server) + Len(c2s) = 2
    BY DEF ToServer
  <2>1. ClientWrote(client) = 2
    BY DEF ClientWrote
  <2>2. /\ c2s \in Seq(Packets) /\ ServerRead(server) + Len(c2s) = 2
        /\ Ordered(c2s, ClientPackets(mode, client), ServerRead(server))
    BY <2>1 DEF Inv, Types, Order, ToServer
  <2>3. /\ ClientPackets(mode, client')[1] = ClientPackets(mode, client)[1]
        /\ ClientPackets(mode, client')[2] = ClientPackets(mode, client)[2]
    BY DEF ClientPackets
  <2> DEFINE p == ClientPackets(mode, client)
             q == ClientPackets(mode, client')
  <2> HIDE DEF p, q
  <2>4. \A i \in 1..3 : i <= 2 => q[i] = p[i]
    <3>1. \A i \in 1..3 : i <= 2 => i = 1 \/ i = 2
      OBVIOUS
    <3> QED
      BY <2>3, <3>1 DEF p, q
  <2>5. ServerRead(server) \in Nat
    BY DEF ServerRead
  <2>6. Ordered(c2s, q, ServerRead(server))
    BY <2>2, <2>4, <2>5, OrderedSame DEF p
  <2> QED
    BY <2>2, <2>6 DEF q
<1>3. ServerTodo' /\ Points'
  BY ClientReceives DEF Inv, Order, ServerTodo, Points
<1> QED
  BY <1>1, <1>2, <1>3

LEMMA OnS0Keeps ==
  ASSUME Inv, client.pc = "read", client.expect = "S0", s2c # <<>>, s2c' = Tail(s2c),
         client' = OnS0(Head(s2c)), UNCHANGED <<mode, server, c2s>>
  PROVE  Inv'
<1>1. CASE Head(s2c).version # client.version
  BY <1>1, ClientReceives, ClientFails DEF OnS0
<1>2. CASE Head(s2c).version = client.version
  <2>1. /\ client'.pc = "read" /\ client'.expect = "S1" /\ client'.version = client.version
        /\ client'.own = client.own /\ client'.remote = client.remote
        /\ client'.keys = client.keys /\ client'.todo = client.todo
    BY <1>2 DEF OnS0, Inv, Types, SideType
  <2>2. ClientRead(client) = 0 /\ ClientRead(client') = 1 /\ ClientWrote(client') = 2
    BY <2>1 DEF ClientRead, ClientWrote
  <2>3. server.version = client.version
    <3>1. Head(s2c) = C0S0("S0", server.version)
      BY <2>2, ClientReceives DEF ServerPackets
    <3> QED
      BY <1>2, <3>1 DEF C0S0
  <2>4. Types'
    BY <1>2, ClientReceives DEF OnS0, Inv, Types, SideType
  <2>5. ToServer' /\ ToClient' /\ ServerTodo' /\ Points'
    BY <2>1, <2>2, ClientTook
  <2>6. Order'
    BY <2>1, <2>5 DEF Order, ClientTodo
  <2>7. Known'
    BY <2>1, <2>3, ClientReceives DEF Inv, Known, ClientAccepted
  <2> QED
    BY <2>4, <2>6, <2>7 DEF Inv
<1> QED
  BY <1>1, <1>2

LEMMA OnS1Keeps ==
  ASSUME Inv, client.pc = "read", client.expect = "S1", s2c # <<>>, s2c' = Tail(s2c),
         client' = OnS1(Head(s2c)), UNCHANGED <<mode, server, c2s>>
  PROVE  Inv'
<1> DEFINE m == Head(s2c)
<1>1. CASE client.version = 6 /\ ~Valid(m.data, "server")
  BY <1>1, ClientReceives, ClientFails DEF OnS1
<1>2. CASE ~(client.version = 6 /\ ~Valid(m.data, "server"))
  <2>1. client' = [client EXCEPT !.expect = "S2", !.remote = m.data]
    BY <1>2 DEF OnS1
  <2>2. /\ client'.pc = "read" /\ client'.expect = "S2" /\ client'.version = client.version
        /\ client'.own = client.own /\ client'.remote = m.data
        /\ client'.keys = client.keys /\ client'.todo = client.todo
    BY <2>1 DEF Inv, Types, SideType
  <2>3. ClientRead(client) = 1 /\ ClientRead(client') = 2 /\ ClientWrote(client') = 2
    BY <2>2 DEF ClientRead, ClientWrote
  <2>4. m.data = server.own
    <3>1. m = First("S1", server.own)
      BY <2>3, ClientReceives DEF ServerPackets
    <3> QED
      BY <3>1 DEF First
  <2>5. Types'
    BY <2>1, <2>4, ClientReceives DEF Inv, Types, SideType
  <2>6. ToServer' /\ ToClient' /\ ServerTodo' /\ Points'
    BY <2>2, <2>3, ClientTook
  <2>7. Order'
    BY <2>2, <2>6 DEF Order, ClientTodo
  <2>8. Known'
    BY <2>2, <2>4, ClientReceives DEF Inv, Known, ClientAccepted
  <2> QED
    BY <2>5, <2>7, <2>8 DEF Inv
<1> QED
  BY <1>1, <1>2

LEMMA OnS2Keeps ==
  ASSUME Inv, client.pc = "read", client.expect = "S2", s2c # <<>>, s2c' = Tail(s2c),
         client' = OnS2(Head(s2c)), UNCHANGED <<mode, server, c2s>>
  PROVE  Inv'
<1> DEFINE accepted == EchoAccepted("server", "client", client.version, mode.clientStrict,
                                    client.own, Head(s2c).echo)
           c2 == Second("C2", IF mode.clientEchoes
                              THEN EchoOf("client", "server", client.version, client.remote)
                              ELSE Noise)
           keys == IF client.version = 6
                   THEN Keys("client", KeyOf(client.remote, "server")) ELSE NoKeys
<1>1. CASE ~accepted
  BY <1>1, ClientReceives, ClientFails DEF OnS2
<1>2. CASE accepted
  <2>1. client' = [client EXCEPT !.pc = "write", !.todo = <<c2>>, !.keys = keys]
    BY <1>2 DEF OnS2
  <2>2. c2 \in Packets /\ keys \in SideKeys
    <3>1. "client" \in Sides /\ "server" \in Sides
      BY DEF Sides
    <3>2. c2 \in Packets
      BY <3>1, ClientReceives, PacketTypes
    <3>3. keys \in SideKeys
      BY <3>1, ClientReceives, PacketTypes, KeyTypes
    <3> QED
      BY <3>2, <3>3
  <2>3. ClientPackets(mode, client)[3] = c2
    BY DEF ClientPackets
  <2>4. mode.encrypted \/ mode.clientStrict => mode.serverEchoes
    <3>1. ClientRead(client) = 2
      BY DEF ClientRead
    <3>2. Head(s2c) = Second("S2", IF mode.serverEchoes
                                   THEN EchoOf("server", "client", server.version, server.remote)
                                   ELSE Noise)
      BY <3>1, ClientReceives DEF ServerPackets
    <3>3. ~mode.serverEchoes => Head(s2c).echo = Noise
      BY <3>2 DEF Second
    <3>4. accepted /\ (mode.encrypted \/ mode.clientStrict) => Head(s2c).echo # Noise
      BY ClientReceives DEF EchoAccepted, DigestUnder, Copy, Noise, Version
    <3> QED
      BY <1>2, <3>3, <3>4
  <2> HIDE DEF accepted, c2, keys
  <2>5. /\ client'.pc = "write" /\ client'.expect = "S2" /\ client'.version = client.version
        /\ client'.own = client.own /\ client'.remote = client.remote
        /\ client'.keys = keys /\ client'.todo = <<c2>>
    BY <2>1 DEF Inv, Types, SideType
  <2>6. ClientRead(client) = 2 /\ ClientRead(client') = 3 /\ ClientWrote(client') = 2
    <3>1. Len(<<c2>>) = 1 /\ 3 - 1 = 2
      OBVIOUS
    <3>2. Len(client'.todo) = 1
      BY <2>5, <3>1
    <3>3. ClientWrote(client') = 3 - Len(client'.todo)
      BY <2>5 DEF ClientWrote
    <3> QED
      BY <2>5, <3>1, <3>2, <3>3 DEF ClientRead
  <2>7. Types'
    <3>1. <<c2>> \in Seq(Packets)
      BY <2>2
    <3> QED
      BY <2>1, <2>2, <3>1, ClientReceives DEF Inv, Types, SideType
  <2>8. ToServer' /\ ToClient' /\ ServerTodo' /\ Points'
    BY <2>5, <2>6, ClientTook
  <2>9. ClientTodo'
    <3>1. ClientPackets(mode, client')[3] = c2
      BY <2>3, <2>5, SamePackets
    <3>2. Len(client'.todo) = 1 /\ Ordered(client'.todo, ClientPackets(mode, client'), 2)
      BY <2>5, <3>1, OrderedLast
    <3> QED
      BY <2>1, <2>5, <2>6, <3>2, ClientReceives DEF ClientTodo
  <2>10. Order'
    BY <2>8, <2>9 DEF Order
  <2>11. Known'
    <3>1. client.remote = server.own
      BY DEF Inv, Known
    <3>2. keys = IF client.version = 6
                 THEN Keys("client", KeyOf(server.own, "server")) ELSE NoKeys
      BY <3>1 DEF keys
    <3> QED
      BY <2>4, <2>5, <3>2, ClientReceives DEF Inv, Known, ClientAccepted
  <2> QED
    BY <2>7, <2>10, <2>11 DEF Inv
<1> QED
  BY <1>1, <1>2

LEMMA ClientReadsKeeps == Inv /\ ClientReads => Inv'
<1> SUFFICES ASSUME Inv, ClientReads PROVE Inv'
  OBVIOUS
<1>1. client.pc = "read" /\ UNCHANGED <<mode, server, c2s>> /\ s2c \in Seq(Packets)
      /\ client.expect \in {"S0", "S1", "S2"}
  BY DEF ClientReads, Inv, Types, SideType
<1>2. CASE s2c = <<>> /\ client' = Failed(client) /\ UNCHANGED s2c
  BY <1>1, <1>2, ClientFails
<1>3. CASE /\ s2c # <<>> /\ s2c' = Tail(s2c)
           /\ client' = CASE client.expect = "S0" -> OnS0(Head(s2c))
                          [] client.expect = "S1" -> OnS1(Head(s2c))
                          [] OTHER -> OnS2(Head(s2c))
  <2>1. CASE client.expect = "S0"
    BY <1>1, <1>3, <2>1, OnS0Keeps
  <2>2. CASE client.expect = "S1"
    BY <1>1, <1>3, <2>2, OnS1Keeps
  <2>3. CASE client.expect = "S2"
    BY <1>1, <1>3, <2>3, OnS2Keeps
  <2> QED
    BY <1>1, <2>1, <2>2, <2>3
<1> QED
  BY <1>2, <1>3 DEF ClientReads

\* The next packet that the server reads.
LEMMA ServerReceives ==
  ASSUME Inv, server.pc = "read", c2s # <<>>
  PROVE  /\ Head(c2s) = ClientPackets(mode, client)[ServerRead(server) + 1]
         /\ ServerRead(server) \in 0..2
         /\ Tail(c2s) \in Seq(Packets)
         /\ Ordered(Tail(c2s), ClientPackets(mode, client), ServerRead(server) + 1)
         /\ client.pc # "failed" =>
              (ServerRead(server) + 1) + Len(Tail(c2s)) = ClientWrote(client)
         /\ client.pc # "start"
         /\ mode \in Modes
         /\ client.version \in {3, 6} /\ client.own \in Firsts /\ client.remote \in Firsts
         /\ server.version \in {3, 6} /\ server.own \in Firsts /\ server.remote \in Firsts
         /\ server.keys \in SideKeys
         /\ server.expect \in {"C0", "C1", "C2"}
<1>1. /\ c2s \in Seq(Packets) /\ Len(c2s) \in Nat
      /\ Ordered(c2s, ClientPackets(mode, client), ServerRead(server))
      /\ client.pc # "failed" => ServerRead(server) + Len(c2s) = ClientWrote(client)
  BY DEF Inv, Types, Order, ToServer
<1>2. ServerRead(server) \in Nat
  BY DEF ServerRead
<1>3. /\ Head(c2s) = ClientPackets(mode, client)[ServerRead(server) + 1]
      /\ ServerRead(server) + 1 <= 3
      /\ Tail(c2s) \in Seq(Packets) /\ Len(Tail(c2s)) = Len(c2s) - 1
      /\ Ordered(Tail(c2s), ClientPackets(mode, client), ServerRead(server) + 1)
  BY <1>1, <1>2, OrderedRest
<1>4. client.pc # "failed" => (ServerRead(server) + 1) + Len(Tail(c2s)) = ClientWrote(client)
  BY <1>1, <1>2, <1>3
<1>5. ServerRead(server) \in 0..2
  BY <1>2, <1>3
<1>6. client.pc # "start"
  <2>1. Len(Tail(c2s)) \in Nat
    BY <1>3
  <2>2. client.pc = "start" => ClientWrote(client) = 0 /\ client.pc # "failed"
    BY DEF ClientWrote
  <2> QED
    BY <1>2, <1>4, <2>1, <2>2
<1>7. /\ mode \in Modes
      /\ client.version \in {3, 6} /\ client.own \in Firsts /\ client.remote \in Firsts
      /\ server.version \in {3, 6} /\ server.own \in Firsts /\ server.remote \in Firsts
      /\ server.keys \in SideKeys
      /\ server.expect \in {"C0", "C1", "C2"}
  BY DEF Inv, Types, SideType
<1> QED
  BY <1>3, <1>4, <1>5, <1>6, <1>7

\* What holds of the way to the server once it has taken a packet.
LEMMA ServerTook ==
  ASSUME Inv, server.pc = "read", c2s # <<>>, c2s' = Tail(c2s), UNCHANGED <<mode, client, s2c>>,
         ServerRead(server') = ServerRead(server) + 1
  PROVE  ToServer' /\ ClientTodo'
<1>1. ToServer'
  BY ServerReceives DEF ToServer
<1>2. ClientTodo'
  BY DEF Inv, Order, ClientTodo
<1> QED
  BY <1>1, <1>2

\* Before the server has a C1, nothing is on its way to the client.
LEMMA NothingSent ==
  ASSUME Inv, server.expect # "C2", UNCHANGED <<mode, client, s2c>>, ServerWrote(server') = 0
  PROVE  client.expect = "S0" /\ s2c = <<>> /\ ToClient'
<1>1. client.expect = "S0" /\ s2c = <<>>
  BY DEF Inv, Order, Points, Known, Types, SideType
<1>2. ClientRead(client) = 0 /\ Len(s2c) = 0
  BY <1>1 DEF ClientRead
<1>3. Ordered(s2c', ServerPackets(mode, server'), 0)
  BY <1>1, OrderedNone
<1> QED
  BY <1>1, <1>2, <1>3 DEF ToClient

LEMMA OnC0Keeps ==
  ASSUME Inv, server.pc = "read", server.expect = "C0", c2s # <<>>, c2s' = Tail(c2s),
         server' = OnC0(Head(c2s)), UNCHANGED <<mode, client, s2c>>
  PROVE  Inv'
<1>1. ServerRead(server) = 0
  BY DEF ServerRead
<1>2. Head(c2s).version \in {3, 6}
  <2>1. Head(c2s) = C0S0("C0", client.version)
    BY <1>1, ServerReceives DEF ClientPackets
  <2> QED
    BY <2>1, ServerReceives DEF C0S0
<1>3. /\ server'.pc = "read" /\ server'.expect = "C1"
  BY DEF OnC0, Inv, Types, SideType
<1>4. ServerRead(server') = 1 /\ ServerWrote(server') = 0
  BY <1>3 DEF ServerRead, ServerWrote
<1>5. Types'
  BY <1>2, ServerReceives DEF OnC0, Inv, Types, SideType
<1>6. ToServer' /\ ClientTodo'
  BY <1>1, <1>4, ServerTook
<1>7. client.expect = "S0" /\ s2c = <<>> /\ ToClient'
  BY <1>4, NothingSent
<1>8. Order'
  BY <1>3, <1>6, <1>7 DEF Inv, Order, ServerTodo, Points
<1>9. Known'
  <2>1. ~ClientAccepted(client)
    BY <1>7 DEF ClientAccepted, Inv, Order, Points
  <2> QED
    BY <1>3, <1>7, <2>1, ServerReceives DEF Inv, Known
<1> QED
  BY <1>5, <1>8, <1>9 DEF Inv

LEMMA OnC1Keeps ==
  ASSUME Inv, server.pc = "read", server.expect = "C1", c2s # <<>>, c2s' = Tail(c2s),
         NEW data \in RandomData, NEW f \in Formats,
         server' = OnC1(Head(c2s), data, f), UNCHANGED <<mode, client, s2c>>
  PROVE  Inv'
<1> DEFINE m == Head(c2s)
           own == FirstData("server", server.version, data, f)
           s2 == Second("S2", IF mode.serverEchoes
                              THEN EchoOf("server", "client", server.version, m.data)
                              ELSE Noise)
           todo == <<C0S0("S0", server.version), First("S1", own), s2>>
<1>1. CASE server.version = 6 /\ ~Valid(m.data, "client")
  BY <1>1, ServerReceives, ServerFails DEF OnC1
<1>2. CASE ~(server.version = 6 /\ ~Valid(m.data, "client"))
  <2>1. server' = [server EXCEPT !.pc = "write", !.expect = "C2", !.own = own,
                                 !.remote = m.data, !.todo = todo]
    BY <1>2 DEF OnC1
  <2>2. ServerRead(server) = 1
    BY DEF ServerRead
  <2>3. m.data = client.own
    <3>1. m = First("C1", client.own)
      BY <2>2, ServerReceives DEF ClientPackets
    <3> QED
      BY <3>1 DEF First
  <2>4. own \in Firsts /\ s2 \in Packets
    <3>1. "client" \in Sides /\ "server" \in Sides
      BY DEF Sides
    <3>2. own \in Firsts
      BY <3>1, ServerReceives, FirstTypes
    <3>3. s2 \in Packets
      BY <2>3, <3>1, ServerReceives, PacketTypes
    <3> QED
      BY <3>2, <3>3
  <2>5. MadeBy(own, "server", server.version)
    BY DEF MadeBy
  <2>6. /\ C0S0("S0", server.version) \in Packets /\ First("S1", own) \in Packets
    BY <2>4, ServerReceives, PacketTypes
  <2>7. todo \in Seq(Packets) /\ Len(todo) = 3
    <3> DEFINE x == C0S0("S0", server.version)
               y == First("S1", own)
    <3> HIDE DEF x, y, s2
    <3>1. <<x, y, s2>> \in Seq(Packets) /\ Len(<<x, y, s2>>) = 3
      BY <2>4, <2>6 DEF x, y
    <3> QED
      BY <3>1 DEF x, y
  <2>8. /\ server'.pc = "write" /\ server'.expect = "C2" /\ server'.version = server.version
        /\ server'.own = own /\ server'.remote = m.data /\ server'.todo = todo
    BY <2>1 DEF Inv, Types, SideType
  <2>9. Types'
    <3> HIDE DEF todo, own, m
    <3> QED
      BY <2>1, <2>3, <2>4, <2>7, ServerReceives DEF Inv, Types, SideType
  <2>10. /\ ServerPackets(mode, server')[1] = C0S0("S0", server.version)
         /\ ServerPackets(mode, server')[2] = First("S1", own)
         /\ ServerPackets(mode, server')[3] = s2
    BY <2>8 DEF ServerPackets
  <2>11. ServerRead(server') = 2 /\ ServerWrote(server') = 0
    <3>1. ServerWrote(server') = 3 - Len(server'.todo) /\ ServerRead(server') = 2
      BY <2>8 DEF ServerWrote, ServerRead
    <3> HIDE DEF todo
    <3>2. Len(server'.todo) = 3
      BY <2>7, <2>8
    <3>3. 3 - 3 = 0
      OBVIOUS
    <3> QED
      BY <3>1, <3>2, <3>3
  <2>12. ToServer' /\ ClientTodo'
    BY <2>2, <2>11, ServerTook
  <2>13. client.expect = "S0" /\ s2c = <<>> /\ ToClient'
    BY <2>11, NothingSent
  <2>14. ServerTodo'
    <3> DEFINE p == ServerPackets(mode, server')
               x == C0S0("S0", server.version)
               y == First("S1", own)
    <3>1. \A i \in 1..3 : todo[i] = p[0 + i]
      <4> HIDE DEF p, x, y, s2
      <4>1. \A i \in 1..3 : 0 + i = i /\ (i = 1 \/ i = 2 \/ i = 3)
        OBVIOUS
      <4>2. <<x, y, s2>>[1] = x /\ <<x, y, s2>>[2] = y /\ <<x, y, s2>>[3] = s2
        OBVIOUS
      <4> QED
        BY <2>10, <4>1, <4>2 DEF p, x, y
    <3> HIDE DEF todo, p
    <3>2. Ordered(todo, p, 0)
      BY <2>7, <3>1 DEF Ordered
    <3> QED
      BY <2>7, <2>8, <2>11, <3>2 DEF ServerTodo, p
  <2>15. Order'
    BY <2>8, <2>12, <2>13, <2>14 DEF Inv, Order, Points
  <2>16. Known'
    <3>1. ~ClientAccepted(client)
      BY <2>13 DEF ClientAccepted, Inv, Order, Points
    <3> HIDE DEF own, m, todo
    <3> QED
      BY <2>3, <2>5, <2>8, <2>13, <3>1, ServerReceives DEF Inv, Known
  <2> QED
    BY <2>9, <2>15, <2>16 DEF Inv
<1> QED
  BY <1>1, <1>2

LEMMA OnC2Keeps ==
  ASSUME Inv, server.pc = "read", server.expect = "C2", c2s # <<>>, c2s' = Tail(c2s),
         server' = OnC2(Head(c2s)), UNCHANGED <<mode, client, s2c>>
  PROVE  Inv'
<1> DEFINE accepted == EchoAccepted("client", "server", server.version, mode.serverStrict,
                                    server.own, Head(c2s).echo)
           keys == IF server.version = 6
                   THEN Keys("server", KeyOf(server.remote, "client")) ELSE NoKeys
<1>1. CASE ~accepted
  BY <1>1, ServerReceives, ServerFails DEF OnC2
<1>2. CASE accepted
  <2>1. server' = [server EXCEPT !.pc = "done", !.keys = keys]
    BY <1>2 DEF OnC2
  <2>2. keys \in SideKeys
    <3>1. "client" \in Sides /\ "server" \in Sides
      BY DEF Sides
    <3> QED
      BY <3>1, ServerReceives, PacketTypes, KeyTypes
  <2>3. ServerRead(server) = 2
    BY DEF ServerRead
  <2>4. server.version = 6 \/ mode.serverStrict => mode.clientEchoes
    <3>1. Head(c2s) = Second("C2", IF mode.clientEchoes
                                   THEN EchoOf("client", "server", client.version, client.remote)
                                   ELSE Noise)
      BY <2>3, ServerReceives DEF ClientPackets
    <3>2. ~mode.clientEchoes => Head(c2s).echo = Noise
      BY <3>1 DEF Second
    <3>3. accepted /\ (server.version = 6 \/ mode.serverStrict) => Head(c2s).echo # Noise
      BY ServerReceives DEF EchoAccepted, DigestUnder, Copy, Noise
    <3> QED
      BY <1>2, <3>2, <3>3
  <2>5. keys = IF server.version = 6
               THEN Keys("server", KeyOf(client.own, "client")) ELSE NoKeys
    BY DEF Inv, Known
  <2> HIDE DEF accepted, keys
  <2>6. /\ server'.pc = "done" /\ server'.expect = "C2" /\ server'.version = server.version
        /\ server'.own = server.own /\ server'.remote = server.remote
        /\ server'.keys = keys /\ server'.todo = server.todo
    BY <2>1 DEF Inv, Types, SideType
  <2>7. Types'
    BY <2>1, <2>2, ServerReceives DEF Inv, Types, SideType
  <2>8. ServerRead(server') = 3 /\ ServerWrote(server') = 3 /\ ServerWrote(server) = 3
    BY <2>6 DEF ServerRead, ServerWrote
  <2>9. ToServer' /\ ClientTodo'
    BY <2>3, <2>8, ServerTook
  <2>10. ToClient'
    <3>1. ServerPackets(mode, server') = ServerPackets(mode, server)
      BY <2>6, SamePackets
    <3> QED
      BY <2>6, <2>8, <3>1 DEF Inv, Order, ToClient
  <2>11. Order'
    BY <2>6, <2>9, <2>10 DEF Inv, Order, ServerTodo, Points
  <2>12. Known'
    BY <2>4, <2>5, <2>6, ServerReceives DEF Inv, Known
  <2> QED
    BY <2>7, <2>11, <2>12 DEF Inv
<1> QED
  BY <1>1, <1>2

LEMMA ServerReadsKeeps == Inv /\ ServerReads => Inv'
<1> SUFFICES ASSUME Inv, ServerReads PROVE Inv'
  OBVIOUS
<1>1. server.pc = "read" /\ UNCHANGED <<mode, client, s2c>> /\ c2s \in Seq(Packets)
  BY DEF ServerReads, Inv, Types
<1>2. CASE server' = Failed(server) /\ UNCHANGED c2s
  BY <1>1, <1>2, ServerFails
<1>3. CASE c2s # <<>> /\ c2s' = Tail(c2s) /\ server.expect = "C0" /\ server' = OnC0(Head(c2s))
  BY <1>1, <1>3, OnC0Keeps
<1>4. CASE /\ c2s # <<>> /\ c2s' = Tail(c2s) /\ server.expect = "C1"
           /\ \E data \in RandomData, f \in Formats : server' = OnC1(Head(c2s), data, f)
  BY <1>1, <1>4, OnC1Keeps
<1>5. CASE c2s # <<>> /\ c2s' = Tail(c2s) /\ server.expect = "C2" /\ server' = OnC2(Head(c2s))
  BY <1>1, <1>5, OnC2Keeps
<1> QED
  BY <1>2, <1>3, <1>4, <1>5 DEF ServerReads

LEMMA ServerWritesKeeps == Inv /\ ServerWrites => Inv'
<1> SUFFICES ASSUME Inv, ServerWrites PROVE Inv'
  OBVIOUS
<1>1. /\ server.pc = "write" /\ UNCHANGED <<mode, client, c2s>> /\ mode \in Modes
      /\ server.todo \in Seq(Packets) /\ s2c \in Seq(Packets) /\ Len(s2c) \in Nat
      /\ c2s \in Seq(Packets) /\ server.expect = "C2"
      /\ Len(server.todo) \in 1..3
      /\ Ordered(server.todo, ServerPackets(mode, server), ServerWrote(server))
  BY DEF ServerWrites, Inv, Types, SideType, Order, ServerTodo
<1>2. CASE server' = Failed(server) /\ UNCHANGED s2c
  BY <1>1, <1>2, ServerFails
<1>3. CASE s2c' = Append(s2c, Head(server.todo)) /\ server' = Written(server, "read")
  <2> DEFINE p == ServerPackets(mode, server)
             n == ServerWrote(server)
             r == ClientRead(client)
  <2>1. \/ Len(server.todo) = 1 /\ n = 2
        \/ Len(server.todo) = 2 /\ n = 1
        \/ Len(server.todo) = 3 /\ n = 0
    <3>1. n = 3 - Len(server.todo)
      BY <1>1 DEF ServerWrote
    <3> DEFINE k == Len(server.todo)
    <3>2. k \in 1..3 /\ n = 3 - k
      BY <1>1, <3>1
    <3> HIDE DEF k, n
    <3>3. \/ k = 1 /\ n = 2
          \/ k = 2 /\ n = 1
          \/ k = 3 /\ n = 0
      BY <3>2
    <3> QED
      BY <3>3 DEF k
  <2>2. r \in Nat
    BY DEF ClientRead
  <2>3. client.pc # "failed" => Ordered(s2c, p, r) /\ r + Len(s2c) = n
    BY <1>1 DEF Inv, Order, ToClient
  <2>4. /\ server'.pc = IF Len(server.todo) = 1 THEN "read" ELSE "write"
        /\ server'.todo = Tail(server.todo) /\ server'.expect = "C2"
        /\ server'.version = server.version /\ server'.own = server.own
        /\ server'.remote = server.remote /\ server'.keys = server.keys
    BY <1>1, <1>3 DEF Written, Inv, Types, SideType
  <2>5. ServerPackets(mode, server') = p
    BY <2>4, SamePackets
  <2>6. ServerRead(server') = ServerRead(server)
    BY <1>1, <2>4 DEF ServerRead
  <2>7. ServerWrote(server') = IF Len(server.todo) = 1 THEN 3 ELSE 3 - Len(server'.todo)
    BY <2>4 DEF ServerWrote
  <2> HIDE DEF p, n, r
  <2>8. n \in 0..2 /\ server.todo # <<>>
    <3>1. Len(server.todo) # 0 /\ Len(<<>>) = 0
      BY <2>1
    <3>2. n \in 0..2
      BY <2>1
    <3> QED
      BY <3>1, <3>2
  <2>9. /\ Head(server.todo) = p[n + 1] /\ Head(server.todo) \in Packets
        /\ Tail(server.todo) \in Seq(Packets) /\ Len(Tail(server.todo)) = Len(server.todo) - 1
        /\ Ordered(Tail(server.todo), p, n + 1)
    BY <1>1, <2>8, OrderedRest DEF p, n
  <2>10. ServerWrote(server') = n + 1
    <3>1. Len(server'.todo) = Len(server.todo) - 1
      BY <2>4, <2>9
    <3>2. CASE Len(server.todo) = 1
      BY <2>1, <2>7, <3>2
    <3>3. CASE Len(server.todo) = 2
      <4>1. Len(server'.todo) = 1 /\ n = 1
        BY <2>1, <3>1, <3>3
      <4> QED
        BY <2>7, <3>3, <4>1
    <3>4. CASE Len(server.todo) = 3
      <4>1. Len(server'.todo) = 2 /\ n = 0
        BY <2>1, <3>1, <3>4
      <4> QED
        BY <2>7, <3>4, <4>1
    <3> QED
      BY <2>1, <3>2, <3>3, <3>4
  <2>11. /\ Append(s2c, Head(server.todo)) \in Seq(Packets)
         /\ client.pc # "failed" => /\ Ordered(Append(s2c, Head(server.todo)), p, r)
                                    /\ r + Len(Append(s2c, Head(server.todo))) = n + 1
    <3>1. Append(s2c, Head(server.todo)) \in Seq(Packets)
      BY <1>1, <2>9
    <3>2. ASSUME client.pc # "failed"
          PROVE  /\ Ordered(Append(s2c, Head(server.todo)), p, r)
                 /\ Len(Append(s2c, Head(server.todo))) = Len(s2c) + 1
      <4>1. r + Len(s2c) < 3 /\ Head(server.todo) = p[(r + Len(s2c)) + 1] /\ Ordered(s2c, p, r)
        BY <2>3, <2>8, <2>9, <3>2
      <4> QED
        BY <1>1, <2>2, <2>9, <4>1, OrderedMore
    <3> QED
      BY <1>1, <2>2, <2>3, <3>1, <3>2
  <2>12. Types'
    BY <1>1, <1>3, <2>9, <2>11 DEF Inv, Types, SideType, Written
  <2>13. ToServer' /\ ClientTodo'
    BY <1>1, <2>4, <2>6 DEF Inv, Order, ToServer, ClientTodo
  <2>14. ToClient'
    BY <1>1, <1>3, <2>5, <2>10, <2>11 DEF ToClient, r
  <2>15. ServerTodo'
    <3>1. server'.pc = "write" => Len(server'.todo) \in 1..3
      BY <1>1, <2>4, <2>9
    <3> QED
      BY <1>1, <2>4, <2>5, <2>9, <2>10, <3>1 DEF ServerTodo
  <2>16. Order'
    BY <1>1, <2>4, <2>13, <2>14, <2>15 DEF Inv, Order, Points
  <2>17. Known'
    BY <1>1, <2>4 DEF Inv, Known
  <2> QED
    BY <2>12, <2>16, <2>17 DEF Inv
<1> QED
  BY <1>2, <1>3 DEF ServerWrites

LEMMA StutterKeeps == Inv /\ UNCHANGED vars => Inv'
BY DEF Inv, Types, Order, ToServer, ToClient, ClientTodo, ServerTodo, Points, Known, vars

\* The invariant holds in every reachable state.
LEMMA Invariance == Spec => []Inv
<1>1. Inv /\ [Next]_vars => Inv'
  BY ClientStartKeeps, ClientWritesKeeps, ClientReadsKeeps, ServerReadsKeeps, ServerWritesKeeps,
     StutterKeeps
  DEF Next, ClientStep, ServerStep
<1> QED
  BY InitInv, <1>1, PTL DEF Spec

(***************************************************************************)
(* The theorems.                                                           *)
(***************************************************************************)
\* For all random data and lengths, and however little the connection holds,
\* neither side ends well with a peer that did not echo, where the echo must be
\* checked (handshake.go:69, 146, 283).
THEOREM EchoAlwaysChecked == Spec => []EchoChecked
<1>1. Inv => EchoChecked
  <2> SUFFICES ASSUME Inv PROVE EchoChecked
    OBVIOUS
  <2>1. client.pc = "done" => ClientAccepted(client)
    BY DEF ClientAccepted
  <2> QED
    BY <2>1 DEF Inv, Known, EchoChecked
<1> QED
  BY Invariance, <1>1, PTL

\* When both sides are done, all three packets of each have been read, whatever
\* the sides are like: the next byte is the first of the chunk stream.
THEOREM AllRead == Spec => []NothingUnread
<1>1. Inv => NothingUnread
  <2> SUFFICES ASSUME Inv, BothDone PROVE c2s = <<>> /\ s2c = <<>>
    BY DEF NothingUnread
  <2>1. /\ c2s \in Seq(Packets) /\ s2c \in Seq(Packets)
        /\ client.expect = "S2" /\ server.expect = "C2"
    BY DEF Inv, Types, Order, Points, BothDone
  <2>2. ServerRead(server) = 3 /\ ClientWrote(client) = 3
        /\ ClientRead(client) = 3 /\ ServerWrote(server) = 3
    BY <2>1 DEF BothDone, ServerRead, ClientWrote, ClientRead, ServerWrote
  <2>3. 3 + Len(c2s) = 3 /\ 3 + Len(s2c) = 3
    BY <2>2 DEF Inv, Order, ToServer, ToClient, BothDone
  <2>4. Len(c2s) = 0 /\ Len(s2c) = 0
    BY <2>1, <2>3
  <2> QED
    BY <2>1, <2>4
<1> QED
  BY Invariance, <1>1, PTL

\* The key that the reader of a first packet finds is the writer's, whichever
\* format the writer drew (c1s1.go:99-121 against c1s1.go:149-170).
LEMMA KeyFound ==
  ASSUME OneFormat, NEW side \in Sides, NEW own, MadeBy(own, side, 6)
  PROVE  KeyOf(own, side) = PublicKey(side)
<1>1. PICK data \in RandomData, f \in Formats : own = Filled(data, f, PublicKey(side), side)
  BY DEF MadeBy, FirstData
<1>2. data \in Data
  BY HandshakeAssumption
<1>3. /\ Matches(own, f, side)
      /\ KeyAt(own, f) = [i \in 0..(KeyLength - 1) |-> PublicKey(side)[i]]
  BY <1>1, <1>2, FilledIsFound
<1>4. KeyAt(own, f) = PublicKey(side)
  BY <1>3 DEF PublicKey
<1>5. FormatOf(own, side) = f
  <2>1. CASE f = 1
    BY <1>3, <2>1 DEF FormatOf
  <2>2. CASE f = 2
    BY <1>1, <2>2 DEF FormatOf, OneFormat
  <2> QED
    BY <2>1, <2>2 DEF Formats
<1> QED
  BY <1>4, <1>5 DEF KeyOf

\* The key pairs of the two sides differ.
LEMMA DifferentKeys == PublicKey("client") # PublicKey("server")
<1>1. 0 \in 0..(KeyLength - 1)
  BY LayoutAssumption
<1>2. /\ PublicKey("client")[0].of = <<"key", "client", 0>>
      /\ PublicKey("server")[0].of = <<"key", "server", 0>>
  BY <1>1 DEF PublicKey
<1>3. <<"key", "client", 0>>[2] = "client" /\ <<"key", "server", 0>>[2] = "server"
  OBVIOUS
<1> QED
  BY <1>2, <1>3

\* Of two sides that both end well, each deciphers with the key the other
\* ciphers with, a different one for each direction, exactly when the client is
\* encrypted (handshake.go:91-95, 230-234).
THEOREM KeysAlwaysMatch ==
  ASSUME OneFormat
  PROVE  Spec => []KeysMatch
<1>1. Inv => KeysMatch
  <2> SUFFICES ASSUME Inv, BothDone PROVE KeysMatch
    BY DEF KeysMatch
  <2>1. ClientAccepted(client) /\ client.expect = "S2" /\ server.expect = "C2"
    BY DEF Inv, Order, Points, BothDone, ClientAccepted
  <2>2. /\ client.version = Version(mode) /\ server.version = client.version
        /\ MadeBy(client.own, "client", client.version)
        /\ MadeBy(server.own, "server", client.version)
        /\ client.keys = IF client.version = 6
                         THEN Keys("client", KeyOf(server.own, "server")) ELSE NoKeys
        /\ server.keys = IF server.version = 6
                         THEN Keys("server", KeyOf(client.own, "client")) ELSE NoKeys
    BY <2>1 DEF Inv, Known, BothDone
  <2>3. CASE mode.encrypted
    <3>1. client.version = 6
      BY <2>2, <2>3 DEF Version
    <3>2. /\ KeyOf(server.own, "server") = PublicKey("server")
          /\ KeyOf(client.own, "client") = PublicKey("client")
      BY <2>2, <3>1, KeyFound DEF Sides
    <3> DEFINE ck == PublicKey("client")
               sk == PublicKey("server")
    <3>3. client.keys = Keys("client", sk) /\ server.keys = Keys("server", ck)
      BY <2>2, <3>1, <3>2
    <3> HIDE DEF ck, sk
    <3>4. /\ client.keys.in = <<{ck, sk}, ck>> /\ client.keys.out = <<{ck, sk}, sk>>
          /\ server.keys.in = <<{sk, ck}, sk>> /\ server.keys.out = <<{sk, ck}, ck>>
      BY <3>3 DEF Keys, SessionKey, Secret, ck, sk
    <3>5. ck # sk /\ {ck, sk} = {sk, ck}
      BY DifferentKeys DEF ck, sk
    <3>6. client.keys.in # client.keys.out /\ client.keys # NoKeys
      <4>1. <<{ck, sk}, ck>>[2] = ck /\ <<{ck, sk}, sk>>[2] = sk
        OBVIOUS
      <4>2. client.keys.in # client.keys.out
        BY <3>4, <3>5, <4>1
      <4>3. NoKeys.in = NoKeys.out
        BY DEF NoKeys
      <4> QED
        BY <4>2, <4>3
    <3> QED
      BY <2>3, <3>4, <3>5, <3>6 DEF KeysMatch
  <2>4. CASE ~mode.encrypted
    <3>1. client.keys = NoKeys /\ server.keys = NoKeys
      BY <2>2, <2>4 DEF Version
    <3> QED
      BY <2>4, <3>1 DEF KeysMatch, NoKeys
  <2> QED
    BY <2>3, <2>4
<1> QED
  BY Invariance, <1>1, PTL
===============================================================================
