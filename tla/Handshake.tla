------------------------------ MODULE Handshake ------------------------------
(***************************************************************************)
(* DoClient and DoServer of pkg/handshake/handshake.go, plain and          *)
(* encrypted, over a connection that holds a limited number of packets.    *)
(* Either side may be another implementation that does not echo what it    *)
(* received, and the server one that only knows the plain handshake.       *)
(*                                                                         *)
(* Diffie-Hellman is ideal: a secret is known by the two public keys that  *)
(* it is made of.  dhValidatePublicKey accepts every key made by a peer.   *)
(***************************************************************************)
EXTENDS C1S1, Sequences

CONSTANTS
  RandomData,  \* random data a side may draw for its C1 or S1
  Capacity     \* packets a direction of the connection holds

ASSUME HandshakeAssumption == RandomData \subseteq Data /\ Capacity \in Nat \ {0}

VARIABLES
  mode,    \* how DoClient and DoServer are called, and what the peers are like
  client,  \* the goroutine in DoClient
  server,  \* the goroutine in DoServer
  c2s, s2c \* packets on their way

vars == <<mode, client, server, c2s, s2c>>

Modes == [encrypted : BOOLEAN, clientStrict : BOOLEAN, serverStrict : BOOLEAN,
          clientEchoes : BOOLEAN, serverEchoes : BOOLEAN, plainOnly : BOOLEAN]

-----------------------------------------------------------------------------
(* Keys and packets.                                                       *)

\* dhGenerateKeyPair, dhComputeSharedSecret.
PublicKey(side) ==
  [i \in 0..(KeyLength - 1) |-> [v |-> 0, of |-> <<"key", side, i>>]]
Secret(side, remote) == {PublicKey(side), remote}

SessionKey(secret, key) == <<secret, key>>
NoKeys == [in |-> <<>>, out |-> <<>>]
\* Mutant: one key for both directions.
KeysOfOwnKey(side, remote) ==
  [in |-> SessionKey(Secret(side, remote), PublicKey(side)),
   out |-> SessionKey(Secret(side, remote), PublicKey(side))]

Keys(side, remote) ==
  [in |-> SessionKey(Secret(side, remote), PublicKey(side)),
   out |-> SessionKey(Secret(side, remote), remote)]

C0S0(name, version) == [name |-> name, version |-> version]
First(name, data) == [name |-> name, data |-> data]

\* C2 and S2: a copy of the data of the other's first packet, or a digest made
\* under the digest of it; noise is what a side that does not echo sends.
Second(name, echo) == [name |-> name, echo |-> echo]
Copy(data) == <<"copy", data>>
DigestUnder(side, prevDigest) == <<"digest", side, prevDigest>>
Noise == <<"noise">>

\* C1S1.validate tries both formats.
Valid(data, side) == \E f \in Formats : Matches(data, f, side)
FormatOf(data, side) == IF Matches(data, 1, side) THEN 1 ELSE 2
DigestOf(data, side) == DigestAt(data, FormatOf(data, side))
KeyOf(data, side) == KeyAt(data, FormatOf(data, side))

\* The first packet of a side.
FirstData(side, version, data, f) ==
  IF version = 6 THEN Filled(data, f, PublicKey(side), side) ELSE data

\* The second packet that answers a first packet with the given data.
EchoOf(side, peer, version, data) ==
  IF version = 6 THEN DigestUnder(side, DigestOf(data, peer)) ELSE Copy(data)

\* Mutant: the digest of the second packet is not looked at.
EchoOfPlainOnly(peer, side, version, strict, own, echo) ==
  version # 6 /\ strict => echo = Copy(own)

\* Is it the echo of our own first packet?  The plain handshake looks at it
\* only when it is strict.
EchoAccepted(peer, side, version, strict, own, echo) ==
  IF version = 6 THEN echo = DigestUnder(peer, DigestOf(own, side))
                 ELSE strict => echo = Copy(own)

-----------------------------------------------------------------------------
NewSide(expect) ==
  [pc |-> "start", todo |-> <<>>, expect |-> expect, version |-> 3, own |-> <<>>,
   remote |-> <<>>, keys |-> NoKeys]

Init ==
  /\ mode \in Modes
  /\ client = NewSide("S0")
  /\ server = [NewSide("C0") EXCEPT !.pc = "read"]
  /\ c2s = <<>>
  /\ s2c = <<>>

Ended == {"done", "failed"}
Failed(s) == [s EXCEPT !.pc = "failed", !.todo = <<>>]

\* What a side does once all it had to write is written.
Written(s, next) ==
  [s EXCEPT !.todo = Tail(@), !.pc = IF Len(s.todo) = 1 THEN next ELSE "write"]

-----------------------------------------------------------------------------
(* DoClient.                                                               *)

ClientStart ==
  LET version == IF mode.encrypted THEN 6 ELSE 3
  IN /\ client.pc = "start"
     /\ \E data \in RandomData, f \in Formats :
          LET own == FirstData("client", version, data, f)
          IN client' = [client EXCEPT !.pc = "write", !.version = version, !.own = own,
                                      !.todo = <<C0S0("C0", version), First("C1", own)>>]
     /\ UNCHANGED <<mode, server, c2s, s2c>>

ClientWrites ==
  /\ client.pc = "write"
  /\ \/ /\ Len(c2s) < Capacity
        /\ c2s' = Append(c2s, Head(client.todo))
        /\ client' = Written(client, IF Head(client.todo).name = "C2" THEN "done" ELSE "read")
     \/ server.pc = "failed" /\ client' = Failed(client) /\ UNCHANGED c2s
  /\ UNCHANGED <<mode, server, s2c>>

OnS0(m) ==
  IF m.version = client.version THEN [client EXCEPT !.expect = "S1"] ELSE Failed(client)

OnS1(m) ==
  IF client.version = 6 /\ ~Valid(m.data, "server")
  THEN Failed(client)
  ELSE [client EXCEPT !.expect = "S2", !.remote = m.data]

OnS2(m) ==
  IF EchoAccepted("server", "client", client.version, mode.clientStrict, client.own, m.echo)
  THEN [client EXCEPT !.pc = "write",
          !.todo = <<Second("C2", IF mode.clientEchoes
                                  THEN EchoOf("client", "server", client.version, client.remote)
                                  ELSE Noise)>>,
          !.keys = IF client.version = 6
                   THEN Keys("client", KeyOf(client.remote, "server")) ELSE NoKeys]
  ELSE Failed(client)

ClientReads ==
  /\ client.pc = "read"
  /\ \/ /\ s2c # <<>>
        /\ s2c' = Tail(s2c)
        /\ client' = CASE client.expect = "S0" -> OnS0(Head(s2c))
                       [] client.expect = "S1" -> OnS1(Head(s2c))
                       [] OTHER -> OnS2(Head(s2c))
     \/ s2c = <<>> /\ server.pc = "failed" /\ client' = Failed(client) /\ UNCHANGED s2c
  /\ UNCHANGED <<mode, server, c2s>>

-----------------------------------------------------------------------------
(* DoServer.                                                               *)

OnC0(m) ==
  [server EXCEPT !.expect = "C1", !.version = IF mode.plainOnly THEN 3 ELSE m.version]

\* Mutant: the server waits for C2 before it sends S2.
OnC1WithoutS2(m, data, f) ==
  LET own == FirstData("server", server.version, data, f)
  IN IF server.version = 6 /\ ~Valid(m.data, "client")
     THEN Failed(server)
     ELSE [server EXCEPT !.pc = "write", !.expect = "C2", !.own = own, !.remote = m.data,
             !.todo = <<C0S0("S0", server.version), First("S1", own)>>]

\* C1 is validated before anything is written, then S0, S1 and S2 go out.
OnC1(m, data, f) ==
  LET own == FirstData("server", server.version, data, f)
  IN IF server.version = 6 /\ ~Valid(m.data, "client")
     THEN Failed(server)
     ELSE [server EXCEPT !.pc = "write", !.expect = "C2", !.own = own, !.remote = m.data,
             !.todo = <<C0S0("S0", server.version), First("S1", own),
                        Second("S2", IF mode.serverEchoes
                                     THEN EchoOf("server", "client", server.version, m.data)
                                     ELSE Noise)>>]

OnC2(m) ==
  IF EchoAccepted("client", "server", server.version, mode.serverStrict, server.own, m.echo)
  THEN [server EXCEPT !.pc = "done",
          !.keys = IF server.version = 6
                   THEN Keys("server", KeyOf(server.remote, "client")) ELSE NoKeys]
  ELSE Failed(server)

ServerReads ==
  /\ server.pc = "read"
  /\ \/ /\ c2s # <<>>
        /\ c2s' = Tail(c2s)
        /\ \/ server.expect = "C0" /\ server' = OnC0(Head(c2s))
           \/ /\ server.expect = "C1"
              /\ \E data \in RandomData, f \in Formats : server' = OnC1(Head(c2s), data, f)
           \/ server.expect = "C2" /\ server' = OnC2(Head(c2s))
     \/ c2s = <<>> /\ client.pc = "failed" /\ server' = Failed(server) /\ UNCHANGED c2s
  /\ UNCHANGED <<mode, client, s2c>>

\* Mutant: the server is done before it has read C2.
DoneBeforeC2 ==
  /\ server.pc = "write"
  /\ \/ /\ Len(s2c) < Capacity
        /\ s2c' = Append(s2c, Head(server.todo))
        /\ server' = Written(server, "done")
     \/ client.pc = "failed" /\ server' = Failed(server) /\ UNCHANGED s2c
  /\ UNCHANGED <<mode, client, c2s>>

ServerWrites ==
  /\ server.pc = "write"
  /\ \/ /\ Len(s2c) < Capacity
        /\ s2c' = Append(s2c, Head(server.todo))
        /\ server' = Written(server, "read")
     \/ client.pc = "failed" /\ server' = Failed(server) /\ UNCHANGED s2c
  /\ UNCHANGED <<mode, client, c2s>>

ClientStep == ClientStart \/ ClientWrites \/ ClientReads
ServerStep == ServerReads \/ ServerWrites
Next == ClientStep \/ ServerStep

\* Both goroutines run, and the connection delivers.
Spec == Init /\ [][Next]_vars /\ WF_vars(ClientStep) /\ WF_vars(ServerStep)

-----------------------------------------------------------------------------
(* Properties.                                                             *)

BothDone == client.pc = "done" /\ server.pc = "done"

\* Each side deciphers with the key the other ciphers with, and no key serves
\* both directions; or neither side has keys (handshake.go:91-95, 230-234).
KeysMatch ==
  BothDone =>
    /\ client.keys.in = server.keys.out
    /\ client.keys.out = server.keys.in
    /\ client.keys = NoKeys \/ client.keys.in # client.keys.out
    /\ mode.encrypted <=> client.keys # NoKeys

\* A side that must check the echo never ends well with a peer that did not
\* echo: always when encrypted, when strict otherwise (handshake.go:69, 146, 283).
EchoChecked ==
  /\ client.pc = "done" /\ (mode.encrypted \/ mode.clientStrict) => mode.serverEchoes
  /\ server.pc = "done" /\ (server.version = 6 \/ mode.serverStrict) => mode.clientEchoes

\* When both sides are done, every byte of the handshake is read: the next byte
\* is the first of what follows.
NothingUnread == BothDone => c2s = <<>> /\ s2c = <<>>

\* The two sides of this library always complete the handshake, whatever random
\* data and formats they draw and however little the connection holds; two
\* sides of any kind end it.
Faithful == mode.clientEchoes /\ mode.serverEchoes /\ ~mode.plainOnly
Completes == Faithful => <>BothDone
Ends == <>(client.pc \in Ended) /\ <>(server.pc \in Ended)
=============================================================================
