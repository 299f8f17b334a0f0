---------------------------- MODULE Duplex_proofs -----------------------------
(***************************************************************************)
(* Proofs about Duplex: types, the unity of messages on the wire, and the  *)
(* arithmetic of acknowledges, whatever the window, the capacity of the    *)
(* connection and the messages written.  The lemmas on remainders are in   *)
(* RawReader_proofs.                                                       *)
(***************************************************************************)
EXTENDS Duplex, RawReader_proofs

\* The ends, and their goroutines.
LEMMA TwoEnds ==
  /\ Left \in Ends /\ Right \in Ends
  /\ \A e \in Ends : Peer(e) \in Ends /\ Peer(e) # e /\ Peer(Peer(e)) = e
  /\ \A e, f \in Ends : f # e => Peer(f) = e /\ Peer(e) = f
BY DuplexAssumption DEF Ends, Peer

LEMMA FourGoroutines ==
  /\ \A e \in Ends : App(e) \in Goroutines /\ Rd(e) \in Goroutines /\ App(e) # Rd(e)
  /\ \A e, f \in Ends : App(e) # Rd(f)
  /\ \A e, f \in Ends : App(e) = App(f) => e = f
  /\ \A e, f \in Ends : Rd(e) = Rd(f) => e = f
  /\ \A e \in Ends : App(e) # Nobody /\ Rd(e) # Nobody
BY DuplexAssumption DEF App, Rd, Goroutines

LEMMA CounterType == \A n \in Int : U(n) \in 0..(CountMod - 1)
BY DuplexAssumption, SMT DEF U

LEMMA ChunkKinds ==
  /\ NoChunk \notin ChunkType
  /\ Ping \in ChunkType /\ Pong \in ChunkType
  /\ \A v \in 0..(CountMod - 1) : Ack(v) \in ChunkType
  /\ \A c \in ChunkType : /\ c.size \in Nat /\ c.size >= 1 /\ c.size <= Window
                          /\ c.size <= Capacity
                          /\ c.value \in 0..(CountMod - 1)
<1> DEFINE Sizes == {n \in 1..Window : n <= Capacity}
<1>1. /\ 0 \in 0..(CountMod - 1) /\ 0 \notin Sizes /\ 1 \in Sizes
      /\ \A n \in Sizes : n \in Nat /\ n >= 1 /\ n <= Window /\ n <= Capacity
  BY DuplexAssumption, SMT
<1>2. ChunkType = [kind : {"data", "ack", "ping", "pong"}, size : Sizes, last : BOOLEAN,
                   value : 0..(CountMod - 1)]
  BY DEF ChunkType
<1> HIDE DEF Sizes
<1> QED
  BY <1>1, <1>2 DEF NoChunk, Ping, Pong, Ack

(***************************************************************************)
(* Types.                                                                  *)
(***************************************************************************)
Types ==
  /\ messageMutex \in [Ends -> Goroutines \cup {Nobody}]
  /\ rawMutex \in [Ends -> Goroutines \cup {Nobody}]
  /\ pc \in [Goroutines ->
       {"idle", "lock", "lockRaw", "put", "read", "acknowledged", "handle"}]
  /\ todo \in [Goroutines -> Seq(ChunkType)]
  /\ pipe \in [Ends -> Seq(ChunkType)]
  /\ current \in [Ends -> ChunkType \cup {NoChunk}]
  /\ received \in [Ends -> Nat]
  /\ sent \in [Ends -> Nat]
  /\ lastAckCount \in [Ends -> 0..(CountMod - 1)]
  /\ ackValue \in [Ends -> 0..(CountMod - 1)]
  /\ writes \in [Ends -> Nat]
  /\ \A e \in Ends : InPipe(e) <= Capacity /\ writes[e] <= MaxWrites[e]

LEMMA InitTypes == Init => Types
<1>1. 0 \in 0..(CountMod - 1) /\ 0 <= Capacity
  BY DuplexAssumption, SMT
<1>2. \A e \in Ends : 0 <= MaxWrites[e]
  BY DuplexAssumption, SMT
<1> QED
  BY <1>1, <1>2, TwoEnds DEF Init, Types, InPipe

LEMMA NextTypes == Types /\ [Next]_vars => Types'
<1> SUFFICES ASSUME Types, [Next]_vars PROVE Types'
  OBVIOUS
<1> USE DEF Types
<1>1. ASSUME NEW e \in Ends, NEW g \in Goroutines, Writing(e, g) PROVE Types'
  <2>1. CASE LockMessage(e, g)
    BY <2>1 DEF LockMessage, MayLockMessage, InPipe
  <2>2. CASE LockRaw(e, g)
    BY <2>2 DEF LockRaw, MayLockRaw, InPipe
  <2>3. CASE Put(e, g)
    <3>1. /\ Head(todo[g]) \in ChunkType /\ Tail(todo[g]) \in Seq(ChunkType)
          /\ Head(todo[g]).size \in Nat
      <4>1. todo[g] \in Seq(ChunkType) /\ todo[g] # <<>>
        BY <2>3 DEF Put, MayPut
      <4> QED
        BY <4>1, ChunkKinds
    <3>2. /\ pipe' = [pipe EXCEPT ![e] = Append(pipe[e], Head(todo[g]))]
          /\ sent' = [sent EXCEPT ![e] = sent[e] + Head(todo[g]).size]
          /\ todo' = [todo EXCEPT ![g] = Tail(todo[g])]
          /\ InPipe(e) + Head(todo[g]).size <= Capacity
          /\ UNCHANGED <<messageMutex, rawMutex, pc, current, received, lastAckCount,
                         ackValue, writes>>
      BY <2>3 DEF Put, MayPut
    <3>3. sent' \in [Ends -> Nat] /\ pipe' \in [Ends -> Seq(ChunkType)]
          /\ todo' \in [Goroutines -> Seq(ChunkType)]
      BY <3>1, <3>2
    <3>4. \A f \in Ends : InPipe(f)' <= Capacity
      <4>1. ASSUME NEW f \in Ends PROVE InPipe(f)' <= Capacity
        <5>1. received[Peer(f)] \in Nat /\ sent[f] \in Nat /\ InPipe(f) <= Capacity
              /\ received'[Peer(f)] = received[Peer(f)]
          BY <3>2, TwoEnds
        <5>2. CASE f = e
          <6>1. sent'[f] = sent[f] + Head(todo[g]).size
            BY <3>2, <5>2
          <6> QED
            <7>1. sent[f] - received[Peer(f)] + Head(todo[g]).size <= Capacity
              BY <3>2, <5>2 DEF InPipe
            <7>2. InPipe(f)' = (sent[f] + Head(todo[g]).size) - received[Peer(f)]
              BY <5>1, <6>1 DEF InPipe
            <7> HIDE DEF Types
            <7> QED
              BY <3>1, <5>1, <7>1, <7>2, DuplexAssumption, SMT
        <5>3. CASE f # e
          BY <3>2, <5>1, <5>3 DEF InPipe
        <5> QED
          BY <5>2, <5>3
      <4> QED
        BY <4>1
    <3> QED
      BY <3>2, <3>3, <3>4
  <2>4. CASE Unlock(e, g)
    <3> DEFINE s == CASE g = App(e) -> "idle"
                      [] g = Rd(e) /\ current[e] # NoChunk -> "acknowledged"
                      [] OTHER -> "read"
    <3>1. s \in {"idle", "acknowledged", "read"} /\ pc' = [pc EXCEPT ![g] = s]
      BY <2>4 DEF Unlock, MayUnlock
    <3> HIDE DEF s
    <3> QED
      BY <2>4, <3>1 DEF Unlock, MayUnlock, InPipe
  <2> QED
    BY <1>1, <2>1, <2>2, <2>3, <2>4 DEF Writing
<1>2. ASSUME NEW e \in Ends, ReadChunk(e) PROVE Types'
  <2> DEFINE ch == Head(pipe[Peer(e)])
             count == U(received[e] + ch.size)
  <2>1. pipe[Peer(e)] \in Seq(ChunkType) /\ pipe[Peer(e)] # <<>> /\ received[e] \in Nat
    BY <1>2, TwoEnds DEF ReadChunk, MayReadChunk
  <2>2. ch \in ChunkType /\ Tail(pipe[Peer(e)]) \in Seq(ChunkType) /\ ch.size \in Nat
    BY <2>1, ChunkKinds
  <2>3. count \in 0..(CountMod - 1)
    <3>1. received[e] + ch.size \in Int
      BY <2>1, <2>2
    <3> QED
      BY <3>1, CounterType
  <2>4. <<Ack(count)>> \in Seq(ChunkType)
    <3>1. Ack(count) \in ChunkType
      BY <2>3, ChunkKinds
    <3> QED
      BY <3>1
  <2>5. /\ pipe' = [pipe EXCEPT ![Peer(e)] = Tail(pipe[Peer(e)])]
        /\ received' = [received EXCEPT ![e] = received[e] + ch.size]
        /\ current' = [current EXCEPT ![e] = ch]
        /\ \/ /\ todo' = [todo EXCEPT ![Rd(e)] = <<Ack(count)>>]
              /\ pc' = [pc EXCEPT ![Rd(e)] = "lock"]
           \/ /\ pc' = [pc EXCEPT ![Rd(e)] = "handle"]
              /\ UNCHANGED todo
        /\ UNCHANGED <<messageMutex, rawMutex, sent, lastAckCount, ackValue, writes>>
    BY <1>2 DEF ReadChunk, MayReadChunk
  <2> HIDE DEF ch, count
  <2>6. /\ pipe' \in [Ends -> Seq(ChunkType)] /\ received' \in [Ends -> Nat]
        /\ current' \in [Ends -> ChunkType \cup {NoChunk}]
        /\ todo' \in [Goroutines -> Seq(ChunkType)]
    <3>1. received[e] + ch.size \in Nat /\ Peer(e) \in Ends
      <4> HIDE DEF Types
      <4>1. received[e] + ch.size \in Nat
        BY <2>1, <2>2
      <4> QED
        BY <4>1, TwoEnds
    <3>2. pipe' \in [Ends -> Seq(ChunkType)] /\ received' \in [Ends -> Nat]
      BY <2>2, <2>5, <3>1
    <3>3. current' \in [Ends -> ChunkType \cup {NoChunk}]
      BY <2>2, <2>5
    <3>4. todo' \in [Goroutines -> Seq(ChunkType)]
      BY <2>4, <2>5
    <3> QED
      BY <3>2, <3>3, <3>4
  <2>7. \A f \in Ends : InPipe(f)' <= Capacity
    <3>1. ASSUME NEW f \in Ends PROVE InPipe(f)' <= Capacity
      <4>1. received[Peer(f)] \in Nat /\ sent[f] \in Nat /\ InPipe(f) <= Capacity
            /\ Peer(f) \in Ends /\ sent'[f] = sent[f]
        BY <2>5, TwoEnds
      <4>2. received'[Peer(f)] \in Nat /\ received'[Peer(f)] >= received[Peer(f)]
        <5>1. received'[Peer(f)] = received[Peer(f)]
              \/ received'[Peer(f)] = received[Peer(f)] + ch.size
          BY <2>5, <4>1
        <5> HIDE DEF Types
        <5> QED
          BY <2>2, <4>1, <5>1, SMT
      <4>3. /\ InPipe(f)' = sent[f] - received'[Peer(f)]
            /\ InPipe(f) = sent[f] - received[Peer(f)]
        BY <4>1 DEF InPipe
      <4> HIDE DEF Types
      <4> QED
        BY <4>1, <4>2, <4>3, DuplexAssumption, SMT
    <3> QED
      BY <3>1
  <2> QED
    BY <2>5, <2>6, <2>7
<1>3. ASSUME NEW e \in Ends, AckWritten(e) PROVE Types'
  <2>1. U(lastAckCount[e] + Window) \in 0..(CountMod - 1)
    <3>1. lastAckCount[e] + Window \in Int
      BY DuplexAssumption, SMT
    <3> QED
      BY <3>1, CounterType
  <2>2. lastAckCount' = [lastAckCount EXCEPT ![e] = U(lastAckCount[e] + Window)]
    BY <1>3 DEF AckWritten
  <2> QED
    BY <1>3, <2>1, <2>2 DEF AckWritten, InPipe
<1>4. ASSUME NEW e \in Ends, Handle(e) PROVE Types'
  <2>1. <<Pong>> \in Seq(ChunkType)
    BY ChunkKinds
  <2> QED
    BY <1>4, <2>1 DEF Handle, MayHandle, InPipe
<1>5. ASSUME NEW e \in Ends, SetAcknowledgeValue(e) PROVE Types'
  <2>1. current[e].value \in 0..(CountMod - 1)
    <3>1. current[e] \in ChunkType
      BY <1>5 DEF SetAcknowledgeValue, MaySetAcknowledge, NoChunk
    <3> QED
      BY <3>1, ChunkKinds
  <2> QED
    BY <1>5, <2>1 DEF SetAcknowledgeValue, MaySetAcknowledge, InPipe
<1>6. ASSUME NEW e \in Ends, AppWrite(e) PROVE Types'
  <2>1. PICK m \in AppMessages[e] : todo' = [todo EXCEPT ![App(e)] = m]
    BY <1>6 DEF AppWrite
  <2>2. m \in Seq(ChunkType)
    BY ChunksAssumption
  <2>3. writes' \in [Ends -> Nat] /\ \A f \in Ends : writes'[f] <= MaxWrites[f]
    <3>1. writes[e] \in Nat /\ writes[e] < MaxWrites[e] /\ MaxWrites[e] \in Nat
          /\ writes' = [writes EXCEPT ![e] = writes[e] + 1]
      BY <1>6, DuplexAssumption DEF AppWrite
    <3>2. writes[e] + 1 \in Nat /\ writes[e] + 1 <= MaxWrites[e]
      BY <3>1, SMT
    <3> QED
      BY <3>1, <3>2
  <2> QED
    BY <1>6, <2>1, <2>2, <2>3 DEF AppWrite, InPipe
<1>7. CASE UNCHANGED vars
  BY <1>7 DEF vars, InPipe
<1> QED
  BY <1>1, <1>2, <1>3, <1>4, <1>5, <1>6, <1>7, FourGoroutines DEF Next, Progress, Reading

\* Every variable keeps its type: neither direction ever holds more than its
\* capacity, and the counters that are compared never leave 32 bits
\* (bytecounter/reader.go, bytecounter/writer.go).
THEOREM TypeCorrect == Spec => []TypeOK
<1>1. Types => TypeOK
  BY DEF Types, TypeOK
<1> QED
  BY <1>1, InitTypes, NextTypes, PTL DEF Spec

(***************************************************************************)
(* Messages stay whole.  Contiguous is not inductive: while a message is   *)
(* unfinished in the pipe, the goroutine that holds the raw writer's mutex *)
(* has its next chunk.                                                     *)
(***************************************************************************)
Own(e) == {App(e), Rd(e)}

RawExclusive ==
  \A e \in Ends : \A g \in Own(e) : pc[g] = "put" => rawMutex[e] = g

\* What is left of a message: only the last chunk is marked so, and only data
\* comes after a chunk.
Tidy(cs) ==
  \A i \in 1..Len(cs) :
    /\ cs[i].last <=> i = Len(cs)
    /\ i > 1 => cs[i].kind = "data"

Joined(cs) == \A i \in 1..(Len(cs) - 1) : ~cs[i].last => cs[i + 1].kind = "data"

Unfinished(cs) == cs # <<>> /\ ~cs[Len(cs)].last

Resumes(e) ==
  Unfinished(pipe[e]) =>
    \E g \in Own(e) : pc[g] = "put" /\ todo[g] # <<>> /\ Head(todo[g]).kind = "data"

WholeInv ==
  /\ RawExclusive
  /\ \A g \in Goroutines : Tidy(todo[g])
  /\ \A e \in Ends : Joined(pipe[e]) /\ Resumes(e)

LEMMA TidyRest ==
  ASSUME NEW cs \in Seq(ChunkType), cs # <<>>, Tidy(cs)
  PROVE  /\ Tidy(Tail(cs))
         /\ ~Head(cs).last => Tail(cs) # <<>> /\ Head(Tail(cs)).kind = "data"
<1>1. /\ Len(cs) \in Nat /\ Len(cs) > 0 /\ Tail(cs) \in Seq(ChunkType)
      /\ Len(Tail(cs)) = Len(cs) - 1
      /\ \A i \in 1..Len(Tail(cs)) : i + 1 \in 1..Len(cs) /\ Tail(cs)[i] = cs[i + 1]
      /\ Head(cs) = cs[1]
  OBVIOUS
<1>2. Tidy(Tail(cs))
  <2>1. ASSUME NEW i \in 1..Len(Tail(cs))
        PROVE  (Tail(cs)[i].last <=> i = Len(Tail(cs))) /\ Tail(cs)[i].kind = "data"
    <3>1. i + 1 \in 1..Len(cs) /\ Tail(cs)[i] = cs[i + 1] /\ i + 1 > 1
      BY <1>1
    <3>2. i + 1 = Len(cs) <=> i = Len(Tail(cs))
      BY <1>1
    <3>3. (cs[i + 1].last <=> i + 1 = Len(cs)) /\ cs[i + 1].kind = "data"
      BY <3>1 DEF Tidy
    <3> QED
      BY <3>1, <3>2, <3>3
  <2> QED
    BY <2>1 DEF Tidy
<1>3. ASSUME ~Head(cs).last PROVE Tail(cs) # <<>> /\ Head(Tail(cs)).kind = "data"
  <2>1. Len(cs) # 1
    <3>1. 1 \in 1..Len(cs)
      BY <1>1
    <3> QED
      BY <1>1, <1>3, <3>1 DEF Tidy
  <2>2. Len(Tail(cs)) > 0 /\ 1 \in 1..Len(Tail(cs)) /\ 2 \in 1..Len(cs) /\ 1 + 1 = 2
    BY <1>1, <2>1
  <2>3. Tail(cs) # <<>> /\ Head(Tail(cs)) = cs[2]
    <3>1. Tail(cs)[1] = cs[2]
      BY <1>1, <2>2
    <3>2. \A t \in Seq(ChunkType) : Len(t) > 0 => t # <<>> /\ Head(t) = t[1]
      OBVIOUS
    <3> QED
      BY <1>1, <2>2, <3>1, <3>2
  <2>4. cs[2].kind = "data"
    BY <2>2 DEF Tidy
  <2> QED
    BY <2>3, <2>4
<1> QED
  BY <1>2, <1>3

LEMMA JoinedMore ==
  ASSUME NEW cs \in Seq(ChunkType), Joined(cs), NEW c \in ChunkType,
         Unfinished(cs) => c.kind = "data"
  PROVE  Joined(Append(cs, c)) /\ (Unfinished(Append(cs, c)) => ~c.last)
<1>1. /\ Len(cs) \in Nat /\ Len(Append(cs, c)) = Len(cs) + 1
      /\ Append(cs, c)[Len(cs) + 1] = c
      /\ \A i \in 1..Len(cs) : Append(cs, c)[i] = cs[i]
  OBVIOUS
<1>2. ASSUME NEW i \in 1..Len(cs), ~Append(cs, c)[i].last
      PROVE  Append(cs, c)[i + 1].kind = "data"
  <2>1. ~cs[i].last
    BY <1>1, <1>2
  <2>2. CASE i = Len(cs)
    <3>1. Unfinished(cs)
      BY <1>1, <2>1, <2>2 DEF Unfinished
    <3> QED
      BY <1>1, <2>2, <3>1
  <2>3. CASE i # Len(cs)
    <3>1. i \in 1..(Len(cs) - 1) /\ i + 1 \in 1..Len(cs)
      BY <1>1, <2>3
    <3> QED
      BY <1>1, <2>1, <3>1 DEF Joined
  <2> QED
    BY <2>2, <2>3
<1> QED
  BY <1>1, <1>2 DEF Joined, Unfinished

LEMMA JoinedRest ==
  ASSUME NEW cs \in Seq(ChunkType), cs # <<>>, Joined(cs)
  PROVE  Joined(Tail(cs)) /\ (Unfinished(Tail(cs)) => Unfinished(cs))
<1>1. /\ Len(cs) \in Nat /\ Tail(cs) \in Seq(ChunkType)
      /\ Len(Tail(cs)) = Len(cs) - 1
      /\ \A i \in 1..Len(Tail(cs)) : i + 1 \in 1..Len(cs) /\ Tail(cs)[i] = cs[i + 1]
  OBVIOUS
<1>2. ASSUME NEW i \in 1..(Len(Tail(cs)) - 1), ~Tail(cs)[i].last
      PROVE  Tail(cs)[i + 1].kind = "data"
  <2>1. i \in 1..Len(Tail(cs)) /\ i + 1 \in 1..Len(Tail(cs)) /\ i + 1 \in 1..(Len(cs) - 1)
    BY <1>1
  <2>2. Tail(cs)[i] = cs[i + 1] /\ Tail(cs)[i + 1] = cs[(i + 1) + 1]
    BY <1>1, <2>1
  <2> QED
    BY <1>2, <2>1, <2>2 DEF Joined
<1>3. ASSUME Unfinished(Tail(cs)) PROVE Unfinished(cs)
  <2>1. Len(Tail(cs)) \in 1..Len(Tail(cs)) /\ Len(Tail(cs)) + 1 = Len(cs)
    BY <1>1, <1>3 DEF Unfinished
  <2>2. Tail(cs)[Len(Tail(cs))] = cs[Len(cs)]
    BY <1>1, <2>1
  <2> QED
    BY <1>3, <2>2 DEF Unfinished
<1> QED
  BY <1>2, <1>3 DEF Joined

LEMMA SingleTidy == \A c \in ChunkType : c.last => Tidy(<<c>>)
BY DEF Tidy

LEMMA InitWhole == Init => WholeInv
<1> SUFFICES ASSUME Init PROVE WholeInv
  OBVIOUS
<1>1. \A e \in Ends : \A g \in Own(e) : pc[g] # "put"
  BY FourGoroutines DEF Init, Own
<1>2. Tidy(<<>>) /\ Joined(<<>>) /\ ~Unfinished(<<>>)
  BY DEF Tidy, Joined, Unfinished
<1> QED
  BY <1>1, <1>2 DEF Init, WholeInv, RawExclusive, Resumes

\* A step of goroutine g of end e that neither puts g among those that write nor
\* takes it away, and that leaves the pipes and the mutex alone.
LEMMA WholeElsewhere ==
  ASSUME Types, WholeInv, NEW e \in Ends, NEW g \in Own(e),
         pc[g] # "put", pc'[g] # "put",
         \A h \in Goroutines \ {g} : pc'[h] = pc[h] /\ todo'[h] = todo[h],
         Tidy(todo'[g]), rawMutex' = rawMutex,
         \A f \in Ends : Joined(pipe'[f]) /\ (Unfinished(pipe'[f]) => Unfinished(pipe[f]))
  PROVE  WholeInv'
<1>1. \A f \in Ends : \A h \in Own(f) : h \in Goroutines
  BY FourGoroutines DEF Own
<1>2. RawExclusive'
  BY <1>1 DEF WholeInv, RawExclusive
<1>3. \A h \in Goroutines : Tidy(todo'[h])
  BY DEF WholeInv
<1>4. ASSUME NEW f \in Ends, Unfinished(pipe'[f])
      PROVE  \E h \in Own(f) : pc'[h] = "put" /\ todo'[h] # <<>> /\ Head(todo'[h]).kind = "data"
  <2>1. PICK h \in Own(f) : pc[h] = "put" /\ todo[h] # <<>> /\ Head(todo[h]).kind = "data"
    BY <1>4 DEF WholeInv, Resumes
  <2> QED
    BY <1>1, <2>1
<1> QED
  BY <1>2, <1>3, <1>4 DEF WholeInv, Resumes

LEMMA NextWhole == Types /\ Types' /\ WholeInv /\ [Next]_vars => WholeInv'
<1> SUFFICES ASSUME Types, Types', WholeInv, [Next]_vars PROVE WholeInv'
  OBVIOUS
<1>1. \A f \in Ends : \A h \in Own(f) : h \in Goroutines /\ h # Nobody
  BY FourGoroutines DEF Own
<1>2. \A f, k \in Ends : \A h \in Own(f) : h \in Own(k) => f = k
  BY FourGoroutines DEF Own
<1>3. \A f \in Ends : Joined(pipe[f]) /\ pipe[f] \in Seq(ChunkType)
  BY DEF WholeInv, Types
<1>4. \A h \in Goroutines : Tidy(todo[h]) /\ todo[h] \in Seq(ChunkType)
  BY DEF WholeInv, Types
<1>5. Tidy(<<>>)
  BY DEF Tidy
<1>6. ASSUME NEW e \in Ends, NEW g \in Own(e), LockMessage(e, g) PROVE WholeInv'
  <2>1. pc[g] = "lock" /\ pc' = [pc EXCEPT ![g] = "lockRaw"]
        /\ UNCHANGED <<rawMutex, todo, pipe>>
    BY <1>6 DEF LockMessage, MayLockMessage
  <2>2. pc'[g] = "lockRaw" /\ \A h \in Goroutines \ {g} : pc'[h] = pc[h]
    BY <1>1, <2>1 DEF Types
  <2> QED
    BY <1>1, <1>3, <1>4, <2>1, <2>2, WholeElsewhere
<1>7. ASSUME NEW e \in Ends, NEW g \in Own(e), LockRaw(e, g) PROVE WholeInv'
  <2>1. /\ rawMutex[e] = Nobody /\ rawMutex' = [rawMutex EXCEPT ![e] = g]
        /\ pc' = [pc EXCEPT ![g] = "put"] /\ pc[g] = "lockRaw"
        /\ UNCHANGED <<todo, pipe>>
    BY <1>7 DEF LockRaw, MayLockRaw
  <2>2. /\ pc'[g] = "put" /\ \A h \in Goroutines \ {g} : pc'[h] = pc[h]
        /\ rawMutex'[e] = g /\ \A f \in Ends \ {e} : rawMutex'[f] = rawMutex[f]
    BY <1>1, <2>1 DEF Types
  <2>3. \A h \in Own(e) : pc[h] # "put"
    BY <1>1, <2>1 DEF WholeInv, RawExclusive
  <2>4. RawExclusive'
    BY <1>1, <1>2, <2>2, <2>3 DEF WholeInv, RawExclusive
  <2>5. ASSUME NEW f \in Ends PROVE Resumes(f)'
    BY <1>1, <1>2, <2>1, <2>2, <2>3 DEF WholeInv, Resumes
  <2> QED
    BY <1>3, <1>4, <2>1, <2>4, <2>5 DEF WholeInv
<1>8. ASSUME NEW e \in Ends, NEW g \in Own(e), Put(e, g) PROVE WholeInv'
  <2> DEFINE c == Head(todo[g])
  <2>1. /\ pc[g] = "put" /\ todo[g] # <<>>
        /\ pipe' = [pipe EXCEPT ![e] = Append(pipe[e], c)]
        /\ todo' = [todo EXCEPT ![g] = Tail(todo[g])]
        /\ UNCHANGED <<rawMutex, pc>>
    BY <1>8 DEF Put, MayPut
  <2>2. c \in ChunkType
    BY <1>1, <1>4, <2>1
  <2>3. /\ Tidy(Tail(todo[g]))
        /\ ~c.last => Tail(todo[g]) # <<>> /\ Head(Tail(todo[g])).kind = "data"
    BY <1>1, <1>4, <2>1, TidyRest
  <2>4. Unfinished(pipe[e]) => c.kind = "data"
    BY <2>1 DEF WholeInv, Resumes, RawExclusive
  <2> HIDE DEF c
  <2>5. /\ Joined(Append(pipe[e], c))
        /\ Unfinished(Append(pipe[e], c)) => ~c.last
    BY <1>3, <2>2, <2>4, JoinedMore
  <2>6. /\ pipe'[e] = Append(pipe[e], c) /\ \A f \in Ends \ {e} : pipe'[f] = pipe[f]
        /\ todo'[g] = Tail(todo[g]) /\ \A h \in Goroutines \ {g} : todo'[h] = todo[h]
    BY <1>1, <2>1 DEF Types
  <2>7. RawExclusive'
    BY <2>1 DEF WholeInv, RawExclusive
  <2>8. \A h \in Goroutines : Tidy(todo'[h])
    BY <1>4, <2>3, <2>6
  <2>9. ASSUME NEW f \in Ends PROVE Joined(pipe'[f]) /\ Resumes(f)'
    <3>1. CASE f = e
      BY <2>1, <2>3, <2>5, <2>6, <3>1 DEF Resumes
    <3>2. CASE f # e
      BY <1>1, <1>2, <1>3, <2>1, <2>6, <3>2 DEF WholeInv, Resumes
    <3> QED
      BY <3>1, <3>2
  <2> QED
    BY <2>7, <2>8, <2>9 DEF WholeInv
<1>9. ASSUME NEW e \in Ends, NEW g \in Own(e), Unlock(e, g) PROVE WholeInv'
  <2>1. /\ pc[g] = "put" /\ todo[g] = <<>>
        /\ rawMutex' = [rawMutex EXCEPT ![e] = Nobody]
        /\ UNCHANGED <<todo, pipe>>
    BY <1>9 DEF Unlock, MayUnlock
  <2>2. /\ pc'[g] # "put" /\ \A h \in Goroutines \ {g} : pc'[h] = pc[h]
    <3> DEFINE s == CASE g = App(e) -> "idle"
                      [] g = Rd(e) /\ current[e] # NoChunk -> "acknowledged"
                      [] OTHER -> "read"
    <3>1. s # "put" /\ pc' = [pc EXCEPT ![g] = s]
      BY <1>9 DEF Unlock, MayUnlock
    <3> HIDE DEF s
    <3> QED
      BY <1>1, <3>1 DEF Types
  <2>3. \A h \in Own(e) \ {g} : pc[h] # "put"
    BY <2>1 DEF WholeInv, RawExclusive
  <2>4. RawExclusive'
    <3>1. \A f \in Ends \ {e} : rawMutex'[f] = rawMutex[f]
      BY <2>1 DEF Types
    <3> QED
      BY <1>1, <1>2, <2>2, <2>3, <3>1 DEF WholeInv, RawExclusive
  <2>5. ASSUME NEW f \in Ends PROVE Resumes(f)'
    BY <1>1, <1>2, <2>1, <2>2, <2>3 DEF WholeInv, Resumes
  <2> QED
    BY <1>3, <1>4, <2>1, <2>4, <2>5 DEF WholeInv
<1>10. ASSUME NEW e \in Ends, ReadChunk(e) PROVE WholeInv'
  <2> DEFINE count == U(received[e] + Head(pipe[Peer(e)]).size)
  <2>1. /\ pc[Rd(e)] = "read" /\ pipe[Peer(e)] # <<>>
        /\ pipe' = [pipe EXCEPT ![Peer(e)] = Tail(pipe[Peer(e)])]
        /\ UNCHANGED rawMutex
        /\ \/ /\ todo' = [todo EXCEPT ![Rd(e)] = <<Ack(count)>>]
              /\ pc' = [pc EXCEPT ![Rd(e)] = "lock"]
           \/ pc' = [pc EXCEPT ![Rd(e)] = "handle"] /\ UNCHANGED todo
    BY <1>10 DEF ReadChunk, MayReadChunk
  <2>2. Rd(e) \in Own(e) /\ Rd(e) \in Goroutines /\ Peer(e) \in Ends
    BY FourGoroutines, TwoEnds DEF Own
  <2>3. Tidy(<<Ack(count)>>)
    BY DEF Tidy, Ack
  <2> HIDE DEF count
  <2>4. /\ pc'[Rd(e)] # "put"
        /\ \A h \in Goroutines \ {Rd(e)} : pc'[h] = pc[h] /\ todo'[h] = todo[h]
        /\ Tidy(todo'[Rd(e)])
    BY <1>4, <2>1, <2>2, <2>3 DEF Types
  <2>5. \A f \in Ends : Joined(pipe'[f]) /\ (Unfinished(pipe'[f]) => Unfinished(pipe[f]))
    <3>1. /\ Joined(Tail(pipe[Peer(e)]))
          /\ Unfinished(Tail(pipe[Peer(e)])) => Unfinished(pipe[Peer(e)])
      BY <1>3, <2>1, <2>2, JoinedRest
    <3> QED
      BY <1>3, <2>1, <2>2, <3>1 DEF Types
  <2> QED
    BY <2>1, <2>2, <2>4, <2>5, WholeElsewhere
<1>11. ASSUME NEW e \in Ends, AckWritten(e) \/ Handle(e) \/ SetAcknowledgeValue(e)
       PROVE  WholeInv'
  <2>1. Rd(e) \in Own(e) /\ Rd(e) \in Goroutines
    BY FourGoroutines DEF Own
  <2>2. /\ pc[Rd(e)] # "put" /\ UNCHANGED <<rawMutex, pipe>>
        /\ \/ pc' = [pc EXCEPT ![Rd(e)] = "handle"] /\ UNCHANGED todo
           \/ pc' = [pc EXCEPT ![Rd(e)] = "read"] /\ UNCHANGED todo
           \/ /\ pc' = [pc EXCEPT ![Rd(e)] = "lock"]
              /\ todo' = [todo EXCEPT ![Rd(e)] = <<Pong>>]
    BY <1>11 DEF AckWritten, Handle, MayHandle, SetAcknowledgeValue, MaySetAcknowledge
  <2>3. Tidy(<<Pong>>)
    BY DEF Tidy, Pong
  <2>4. /\ pc'[Rd(e)] # "put"
        /\ \A h \in Goroutines \ {Rd(e)} : pc'[h] = pc[h] /\ todo'[h] = todo[h]
        /\ Tidy(todo'[Rd(e)])
    BY <1>4, <2>1, <2>2, <2>3 DEF Types
  <2> QED
    BY <1>3, <2>1, <2>2, <2>4, WholeElsewhere
<1>12. ASSUME NEW e \in Ends, AppWrite(e) PROVE WholeInv'
  <2>1. App(e) \in Own(e) /\ App(e) \in Goroutines
    BY FourGoroutines DEF Own
  <2>2. PICK m \in AppMessages[e] : todo' = [todo EXCEPT ![App(e)] = m]
    BY <1>12 DEF AppWrite
  <2>3. /\ pc[App(e)] = "idle" /\ UNCHANGED <<rawMutex, pipe>>
        /\ pc' = [pc EXCEPT ![App(e)] = "lock"]
    BY <1>12 DEF AppWrite
  <2>4. Tidy(m)
    <3>1. m \in Seq(ChunkType) /\ DOMAIN m = 1..Len(m)
      BY ChunksAssumption
    <3> QED
      BY <3>1, ChunksAssumption DEF Tidy
  <2>5. /\ pc'[App(e)] # "put"
        /\ \A h \in Goroutines \ {App(e)} : pc'[h] = pc[h] /\ todo'[h] = todo[h]
        /\ Tidy(todo'[App(e)])
    BY <2>1, <2>2, <2>3, <2>4 DEF Types
  <2> QED
    BY <1>3, <2>1, <2>3, <2>5, WholeElsewhere
<1>13. CASE UNCHANGED vars
  BY <1>13 DEF vars, WholeInv, RawExclusive, Resumes
<1> QED
  BY <1>6, <1>7, <1>8, <1>9, <1>10, <1>11, <1>12, <1>13
  DEF Next, Progress, Reading, Writing, Own

\* The chunks of a message stay together on the wire: nothing that the reading
\* goroutine writes comes between two of them (message/writer.go:55-79,
\* rawmessage/writer.go:222-233).
THEOREM MessagesContiguous == Spec => []Contiguous
<1>1. WholeInv => Contiguous
  BY DEF WholeInv, Joined, Contiguous
<1> QED
  BY <1>1, InitTypes, NextTypes, InitWhole, NextWhole, PTL DEF Spec

(***************************************************************************)
(* Acknowledges keep up with what is read.  A chunk is never larger than   *)
(* the window, so that what a reader owes, modulo 2^32, passes the window  *)
(* by less than another one: an acknowledge brings it back.                *)
(***************************************************************************)
Owed(e) == U(received[e] - lastAckCount[e])

Writes(e) == pc[Rd(e)] \in {"lock", "lockRaw", "put"}

\* The reading goroutine of e is busy with an acknowledge exactly when it owes more
\* than a window.
Keeps(e) ==
  /\ pc[Rd(e)] # "idle"
  /\ ~Writes(e) => todo[Rd(e)] = <<>>
  /\ pc[Rd(e)] = "read" => current[e] = NoChunk
  /\ pc[Rd(e)] = "acknowledged" => current[e] # NoChunk
  /\ IF pc[Rd(e)] = "acknowledged" \/ (Writes(e) /\ current[e] # NoChunk)
     THEN Owed(e) > Window /\ Owed(e) <= 2 * Window
     ELSE Owed(e) <= Window

KeepInv == \A e \in Ends : Keeps(e)

\* What is owed once a chunk is counted: the sum does not wrap.
LEMMA OwedMore ==
  ASSUME NEW r \in Nat, NEW l \in 0..(CountMod - 1), NEW size \in 1..Window,
         U(r - l) <= Window
  PROVE  /\ U(U(r + size) - l) = U(r - l) + size
         /\ U((r + size) - l) = U(r - l) + size
<1>1. CountMod \in Nat \ {0} /\ Window \in Nat /\ 2 * Window < CountMod
  BY DuplexAssumption, SMT
<1>2. r \in Int /\ l \in Int /\ size \in Int /\ r + size \in Int /\ r - l \in Int
  BY <1>1, SMT
<1>3. l % CountMod = l
  BY <1>1, SmallRemainder
<1>4. U(U(r + size) - l) = ((r + size) - l) % CountMod
  <2>1. (((r + size) % CountMod) - (l % CountMod)) % CountMod = ((r + size) - l) % CountMod
    BY <1>1, <1>2, RemainderOfSum
  <2> QED
    BY <1>3, <2>1 DEF U
<1>5. (((r - l) % CountMod) + size) % CountMod = ((r - l) + size) % CountMod
  BY <1>1, <1>2, RemainderOfSum
<1>6. U(r - l) \in 0..(CountMod - 1)
  BY <1>2, CounterType
<1>7. U(r - l) + size \in 0..(CountMod - 1) /\ (r + size) - l = (r - l) + size
  BY <1>1, <1>2, <1>6, SMT
<1>8. (U(r - l) + size) % CountMod = U(r - l) + size
  BY <1>1, <1>7, SmallRemainder
<1> QED
  BY <1>4, <1>5, <1>7, <1>8 DEF U

\* What is owed once an acknowledge is accounted for.
LEMMA OwedLess ==
  ASSUME NEW r \in Nat, NEW l \in 0..(CountMod - 1), U(r - l) > Window
  PROVE  U(r - U(l + Window)) = U(r - l) - Window
<1>1. CountMod \in Nat \ {0} /\ Window \in Nat /\ 2 * Window < CountMod
  BY DuplexAssumption, SMT
<1>2. r \in Int /\ l \in Int /\ l + Window \in Int /\ r - l \in Int /\ r % CountMod \in Int
      /\ r - (l + Window) = (r - l) - Window
  BY <1>1, SMT
<1>3. U(l + Window) \in 0..(CountMod - 1) /\ U(r - l) \in 0..(CountMod - 1)
  BY <1>2, CounterType
<1>4. U(l + Window) % CountMod = U(l + Window)
  BY <1>1, <1>3, SmallRemainder
<1>5. (r - U(l + Window)) % CountMod = (r - (l + Window)) % CountMod
  <2>1. U(l + Window) \in Int
    BY <1>3
  <2>2. (r - U(l + Window)) % CountMod
          = ((r % CountMod) - (U(l + Window) % CountMod)) % CountMod
    BY <1>1, <1>2, <2>1, RemainderOfSum
  <2>3. (r - (l + Window)) % CountMod
          = ((r % CountMod) - ((l + Window) % CountMod)) % CountMod
    BY <1>1, <1>2, RemainderOfSum
  <2> QED
    BY <1>4, <2>2, <2>3 DEF U
<1>6. (((r - l) % CountMod) + (-Window)) % CountMod = ((r - l) + (-Window)) % CountMod
  <2>1. -Window \in Int
    BY <1>1
  <2> QED
    BY <1>1, <1>2, <2>1, RemainderOfSum
<1>7. /\ U(r - l) - Window \in 0..(CountMod - 1)
      /\ U(r - l) + (-Window) = U(r - l) - Window
      /\ (r - l) + (-Window) = (r - l) - Window
  BY <1>1, <1>2, <1>3, SMT
<1>8. (U(r - l) - Window) % CountMod = U(r - l) - Window
  BY <1>1, <1>7, SmallRemainder
<1> QED
  BY <1>2, <1>5, <1>6, <1>7, <1>8 DEF U

LEMMA InitKeeps == Init => KeepInv
<1>1. U(0 - 0) = 0 /\ 0 <= Window
  BY DuplexAssumption, SmallRemainder, SMT DEF U
<1>2. \A e \in Ends : Rd(e)[2] = "rd" /\ Rd(e) \in Goroutines
  BY FourGoroutines DEF Rd
<1> QED
  BY <1>1, <1>2 DEF Init, KeepInv, Keeps, Owed, Writes

\* A step that leaves what an end reads and owes alone.
LEMMA KeepsElsewhere ==
  ASSUME NEW e \in Ends, Keeps(e), pc'[Rd(e)] = pc[Rd(e)], todo'[Rd(e)] = todo[Rd(e)],
         current'[e] = current[e], received'[e] = received[e],
         lastAckCount'[e] = lastAckCount[e]
  PROVE  Keeps(e)'
BY DEF Keeps, Owed, Writes

LEMMA NextKeeps == Types /\ Types' /\ KeepInv /\ [Next]_vars => KeepInv'
<1> SUFFICES ASSUME Types, Types', KeepInv, [Next]_vars, NEW f \in Ends PROVE Keeps(f)'
  BY DEF KeepInv
<1> USE FourGoroutines
<1>1. Keeps(f) /\ Rd(f) \in Goroutines
  BY DEF KeepInv
<1>2. /\ \A e \in Ends : App(e) \in Goroutines /\ Rd(e) \in Goroutines
      /\ \A e \in Ends : App(e) # Rd(f) /\ (e # f => Rd(e) # Rd(f))
  OBVIOUS
<1>3. ASSUME NEW e \in Ends, Writing(e, App(e)) PROVE Keeps(f)'
  <2>1. /\ \A h \in Goroutines \ {App(e)} : pc'[h] = pc[h] /\ todo'[h] = todo[h]
        /\ UNCHANGED <<current, received, lastAckCount>>
    BY <1>2, <1>3 DEF Writing, LockMessage, MayLockMessage, LockRaw, MayLockRaw, Put,
        MayPut, Unlock, MayUnlock, Types
  <2> QED
    BY <1>1, <1>2, <2>1, KeepsElsewhere
<1>4. ASSUME NEW e \in Ends, Writing(e, Rd(e)) PROVE Keeps(f)'
  <2>1. /\ \A h \in Goroutines \ {Rd(e)} : pc'[h] = pc[h] /\ todo'[h] = todo[h]
        /\ UNCHANGED <<current, received, lastAckCount>>
    BY <1>2, <1>4 DEF Writing, LockMessage, MayLockMessage, LockRaw, MayLockRaw, Put,
        MayPut, Unlock, MayUnlock, Types
  <2>2. CASE e # f
    BY <1>1, <1>2, <2>1, <2>2, KeepsElsewhere
  <2>3. CASE e = f
    <3>1. Writes(f) /\ Owed(f)' = Owed(f)
      BY <1>4, <2>1, <2>3 DEF Writing, LockMessage, MayLockMessage, LockRaw, MayLockRaw,
          Put, MayPut, Unlock, MayUnlock, Writes, Owed
    <3>2. CASE Writes(f)'
      BY <1>1, <2>1, <3>1, <3>2 DEF Keeps, Writes
    <3>3. CASE ~Writes(f)'
      <4>1. Unlock(f, Rd(f))
        BY <1>1, <1>4, <2>3, <3>3
        DEF Writing, LockMessage, MayLockMessage, LockRaw, MayLockRaw, Put, MayPut,
            Writes, Types
      <4>2. /\ todo'[Rd(f)] = <<>>
            /\ pc'[Rd(f)] = IF current[f] # NoChunk THEN "acknowledged" ELSE "read"
        BY <1>1, <1>2, <4>1 DEF Unlock, MayUnlock, Types
      <4> QED
        BY <1>1, <2>1, <3>1, <4>2 DEF Keeps, Writes
    <3> QED
      BY <3>2, <3>3
  <2> QED
    BY <2>2, <2>3
<1>5. ASSUME NEW e \in Ends, ReadChunk(e) PROVE Keeps(f)'
  <2> DEFINE ch == Head(pipe[Peer(e)])
             count == U(received[e] + ch.size)
  <2>1. /\ pc[Rd(e)] = "read"
        /\ pipe[Peer(e)] # <<>> /\ Peer(e) \in Ends
        /\ received' = [received EXCEPT ![e] = received[e] + ch.size]
        /\ current' = [current EXCEPT ![e] = ch]
        /\ IF AckNeeded(e, count)
           THEN /\ todo' = [todo EXCEPT ![Rd(e)] = <<Ack(count)>>]
                /\ pc' = [pc EXCEPT ![Rd(e)] = "lock"]
           ELSE /\ pc' = [pc EXCEPT ![Rd(e)] = "handle"]
                /\ UNCHANGED todo
        /\ UNCHANGED lastAckCount
    BY <1>5, TwoEnds DEF ReadChunk, MayReadChunk
  <2>2. ch \in ChunkType /\ ch # NoChunk /\ ch.size \in 1..Window
    <3>1. pipe[Peer(e)] \in Seq(ChunkType)
      BY <2>1 DEF Types
    <3>2. ch \in ChunkType
      BY <2>1, <3>1
    <3> QED
      BY <3>2, ChunkKinds DEF ChunkType
  <2> HIDE DEF ch, count
  <2>3. CASE e # f
    <3>1. /\ current'[f] = current[f] /\ received'[f] = received[f]
          /\ lastAckCount'[f] = lastAckCount[f]
      BY <2>1, <2>3 DEF Types
    <3>2. /\ \E s \in {"lock", "handle"} : pc' = [pc EXCEPT ![Rd(e)] = s]
          /\ \E w \in {todo[Rd(e)], <<Ack(count)>>} : todo' = [todo EXCEPT ![Rd(e)] = w]
      <4>1. todo = [todo EXCEPT ![Rd(e)] = todo[Rd(e)]]
        BY DEF Types
      <4> QED
        BY <2>1, <4>1
    <3>3. pc'[Rd(f)] = pc[Rd(f)] /\ todo'[Rd(f)] = todo[Rd(f)]
      BY <1>1, <1>2, <2>3, <3>2 DEF Types
    <3> QED
      BY <1>1, <3>1, <3>3, KeepsElsewhere
  <2>4. CASE e = f
    <3>1. Owed(f) <= Window /\ todo[Rd(f)] = <<>>
      BY <1>1, <2>1, <2>4 DEF Keeps, Writes
    <3>2. /\ received[f] \in Nat /\ lastAckCount[f] \in 0..(CountMod - 1)
          /\ received'[f] = received[f] + ch.size /\ lastAckCount'[f] = lastAckCount[f]
          /\ current'[f] = ch
      BY <2>1, <2>4 DEF Types
    <3>3. Owed(f)' = Owed(f) + ch.size /\ U(count - lastAckCount[f]) = Owed(f) + ch.size
      BY <2>2, <2>4, <3>1, <3>2, OwedMore DEF Owed, count
    <3>4. Owed(f)' <= 2 * Window
      <4>1. Owed(f) \in 0..(CountMod - 1)
        <5>1. received[f] - lastAckCount[f] \in Int
          BY <3>2
        <5> QED
          BY <5>1, CounterType DEF Owed
      <4> HIDE DEF Owed
      <4> QED
        BY <2>2, <3>1, <3>3, <4>1, DuplexAssumption, SMT
    <3>5. CASE AckNeeded(e, count)
      <4>1. Owed(f)' > Window
        BY <2>4, <3>3, <3>5 DEF AckNeeded
      <4>2. pc'[Rd(f)] = "lock"
        BY <1>1, <2>1, <2>4, <3>5 DEF Types
      <4> QED
        BY <2>2, <3>2, <3>4, <4>1, <4>2 DEF Keeps, Writes
    <3>6. CASE ~AckNeeded(e, count)
      <4>1. Owed(f)' <= Window
        <5>1. ~(Owed(f)' > Window)
          BY <2>4, <3>3, <3>6 DEF AckNeeded
        <5>2. Owed(f)' \in Int
          <6>1. received'[f] - lastAckCount'[f] \in Int
            BY <2>2, <3>2
          <6> QED
            BY <6>1, CounterType DEF Owed
        <5> HIDE DEF Owed
        <5> QED
          BY <5>1, <5>2, DuplexAssumption, SMT
      <4>2. pc'[Rd(f)] = "handle" /\ todo'[Rd(f)] = <<>>
        BY <1>1, <2>1, <2>4, <3>1, <3>6 DEF Types
      <4> QED
        BY <4>1, <4>2 DEF Keeps, Writes
    <3> QED
      BY <3>5, <3>6
  <2> QED
    BY <2>3, <2>4
<1>6. ASSUME NEW e \in Ends, AckWritten(e) PROVE Keeps(f)'
  <2>1. /\ pc[Rd(e)] = "acknowledged"
        /\ lastAckCount' = [lastAckCount EXCEPT ![e] = U(lastAckCount[e] + Window)]
        /\ pc' = [pc EXCEPT ![Rd(e)] = "handle"]
        /\ UNCHANGED <<todo, current, received>>
    BY <1>6 DEF AckWritten
  <2>2. CASE e # f
    BY <1>1, <1>2, <2>1, <2>2, KeepsElsewhere DEF Types
  <2>3. CASE e = f
    <3>1. Owed(f) > Window /\ Owed(f) <= 2 * Window /\ todo[Rd(f)] = <<>>
      BY <1>1, <2>1, <2>3 DEF Keeps, Writes
    <3>2. /\ received[f] \in Nat /\ lastAckCount[f] \in 0..(CountMod - 1)
          /\ received'[f] = received[f]
          /\ lastAckCount'[f] = U(lastAckCount[f] + Window)
          /\ pc'[Rd(f)] = "handle" /\ todo'[Rd(f)] = todo[Rd(f)]
      BY <1>1, <2>1, <2>3 DEF Types
    <3>3. Owed(f)' = Owed(f) - Window
      BY <3>1, <3>2, OwedLess DEF Owed
    <3>4. Owed(f) \in 0..(CountMod - 1)
      <4>1. received[f] - lastAckCount[f] \in Int
        BY <3>2
      <4> QED
        BY <4>1, CounterType DEF Owed
    <3>5. Owed(f)' <= Window
      <4> HIDE DEF Owed
      <4> QED
        BY <3>1, <3>3, <3>4, DuplexAssumption, SMT
    <3> QED
      BY <3>1, <3>2, <3>5 DEF Keeps, Writes
  <2> QED
    BY <2>2, <2>3
<1>7. ASSUME NEW e \in Ends, Handle(e) \/ SetAcknowledgeValue(e) PROVE Keeps(f)'
  <2>1. /\ pc[Rd(e)] = "handle" /\ UNCHANGED <<received, lastAckCount>>
        /\ current' = [current EXCEPT ![e] = NoChunk]
        /\ \/ pc' = [pc EXCEPT ![Rd(e)] = "read"] /\ UNCHANGED todo
           \/ /\ pc' = [pc EXCEPT ![Rd(e)] = "lock"]
              /\ todo' = [todo EXCEPT ![Rd(e)] = <<Pong>>]
    BY <1>7 DEF Handle, MayHandle, SetAcknowledgeValue, MaySetAcknowledge
  <2>2. CASE e # f
    BY <1>1, <1>2, <2>1, <2>2, KeepsElsewhere DEF Types
  <2>3. CASE e = f
    <3>1. Owed(f) <= Window /\ todo[Rd(f)] = <<>> /\ Owed(f)' = Owed(f)
      BY <1>1, <2>1, <2>3 DEF Keeps, Writes, Owed
    <3>2. /\ current'[f] = NoChunk
          /\ pc'[Rd(f)] = "lock" \/ (pc'[Rd(f)] = "read" /\ todo'[Rd(f)] = todo[Rd(f)])
      BY <1>1, <2>1, <2>3 DEF Types
    <3> QED
      BY <3>1, <3>2 DEF Keeps, Writes
  <2> QED
    BY <2>2, <2>3
<1>8. ASSUME NEW e \in Ends, AppWrite(e) PROVE Keeps(f)'
  <2>1. /\ pc'[Rd(f)] = pc[Rd(f)] /\ todo'[Rd(f)] = todo[Rd(f)]
        /\ current'[f] = current[f] /\ received'[f] = received[f]
        /\ lastAckCount'[f] = lastAckCount[f]
    BY <1>1, <1>2, <1>8 DEF AppWrite, Types
  <2> QED
    BY <1>1, <2>1, KeepsElsewhere
<1>9. CASE UNCHANGED vars
  BY <1>1, <1>9, KeepsElsewhere DEF vars
<1> QED
  BY <1>3, <1>4, <1>5, <1>6, <1>7, <1>8, <1>9 DEF Next, Progress, Reading

\* Between two chunks a reader never owes more than a window, however often the
\* byte counters wrapped (rawmessage/reader.go:54-67).
THEOREM ReaderKeepsUp == Spec => []AcksKeepUp
<1>1. KeepInv => AcksKeepUp
  BY DEF KeepInv, Keeps, AcksKeepUp, Owed, Writes
<1> QED
  BY <1>1, InitTypes, NextTypes, InitKeeps, NextKeeps, PTL DEF Spec

(***************************************************************************)
(* What is unacknowledged at rest.  The last acknowledge may be about to   *)
(* be written, in the pipe, just read or stored: wherever it is, what has  *)
(* been read since is no more than what the reader owes.                   *)
(***************************************************************************)

\* What a pipe holds is what was written and not read.
Offsets(cs, from, to) ==
  \E off \in [1..(Len(cs) + 1) -> Int] :
    /\ off[1] = from /\ off[Len(cs) + 1] = to
    /\ \A i \in 1..Len(cs) : off[i + 1] = off[i] + cs[i].size

Balanced == \A e \in Ends : Offsets(pipe[e], received[Peer(e)], sent[e])

LEMMA OffsetsMore ==
  ASSUME NEW cs \in Seq(ChunkType), NEW from \in Int, NEW to \in Int, NEW c \in ChunkType,
         Offsets(cs, from, to)
  PROVE  Offsets(Append(cs, c), from, to + c.size)
<1>1. PICK off \in [1..(Len(cs) + 1) -> Int] :
        /\ off[1] = from /\ off[Len(cs) + 1] = to
        /\ \A i \in 1..Len(cs) : off[i + 1] = off[i] + cs[i].size
  BY DEF Offsets
<1>2. /\ Len(cs) \in Nat /\ Len(Append(cs, c)) = Len(cs) + 1
      /\ Append(cs, c)[Len(cs) + 1] = c
      /\ \A i \in 1..Len(cs) : Append(cs, c)[i] = cs[i]
  OBVIOUS
<1>3. c.size \in Int
  BY ChunkKinds
<1> DEFINE n == Len(cs)
           more == [i \in 1..((n + 1) + 1) |-> IF i = (n + 1) + 1 THEN to + c.size ELSE off[i]]
<1>4. n \in Nat
  BY <1>2
<1>5. more \in [1..((n + 1) + 1) -> Int]
  <2>1. \A i \in 1..((n + 1) + 1) : i # (n + 1) + 1 => i \in 1..(n + 1)
    BY <1>4
  <2> QED
    BY <1>1, <1>3, <2>1
<1>6. more[1] = from /\ more[(n + 1) + 1] = to + c.size /\ more[n + 1] = to
  <2>1. /\ 1 \in 1..((n + 1) + 1) /\ 1 # (n + 1) + 1
        /\ n + 1 \in 1..((n + 1) + 1) /\ n + 1 # (n + 1) + 1
        /\ (n + 1) + 1 \in 1..((n + 1) + 1)
    BY <1>4
  <2> QED
    BY <1>1, <2>1
<1>7. ASSUME NEW i \in 1..(n + 1) PROVE more[i + 1] = more[i] + Append(cs, c)[i].size
  <2>1. CASE i = n + 1
    BY <1>2, <1>6, <2>1
  <2>2. CASE i # n + 1
    <3>1. /\ i \in 1..n /\ i \in 1..((n + 1) + 1) /\ i # (n + 1) + 1
          /\ i + 1 \in 1..((n + 1) + 1) /\ i + 1 # (n + 1) + 1
      BY <1>4, <2>2
    <3> QED
      BY <1>1, <1>2, <3>1
  <2> QED
    BY <2>1, <2>2
<1> HIDE DEF more
<1> QED
  BY <1>2, <1>5, <1>6, <1>7 DEF Offsets

LEMMA OffsetsRest ==
  ASSUME NEW cs \in Seq(ChunkType), cs # <<>>, NEW from \in Int, NEW to \in Int,
         Offsets(cs, from, to)
  PROVE  Offsets(Tail(cs), from + Head(cs).size, to)
<1>1. PICK off \in [1..(Len(cs) + 1) -> Int] :
        /\ off[1] = from /\ off[Len(cs) + 1] = to
        /\ \A i \in 1..Len(cs) : off[i + 1] = off[i] + cs[i].size
  BY DEF Offsets
<1>2. /\ Len(cs) \in Nat /\ Len(cs) > 0
      /\ Len(Tail(cs)) = Len(cs) - 1 /\ Head(cs) = cs[1]
      /\ \A i \in 1..Len(Tail(cs)) : i + 1 \in 1..Len(cs) /\ Tail(cs)[i] = cs[i + 1]
  OBVIOUS
<1> DEFINE n == Len(cs)
           rest == [i \in 1..n |-> off[i + 1]]
<1>3. n \in Nat /\ n > 0 /\ Len(Tail(cs)) + 1 = n
  BY <1>2
<1>4. \A i \in 1..n : i + 1 \in 1..(n + 1)
  BY <1>3
<1>5. rest \in [1..n -> Int]
  BY <1>1, <1>4
<1>6. rest[1] = from + Head(cs).size /\ rest[n] = to
  <2>1. 1 \in 1..n /\ n \in 1..n
    BY <1>3
  <2> QED
    BY <1>1, <1>2, <2>1
<1>7. ASSUME NEW i \in 1..Len(Tail(cs)) PROVE rest[i + 1] = rest[i] + Tail(cs)[i].size
  <2>1. i \in 1..n /\ i + 1 \in 1..n
    BY <1>2, <1>3
  <2> QED
    BY <1>1, <1>2, <2>1
<1> HIDE DEF rest
<1> QED
  BY <1>3, <1>5, <1>6, <1>7 DEF Offsets

LEMMA InitBalanced == Init => Balanced
<1> DEFINE off == [i \in 1..1 |-> 0]
<1>1. off \in [1..(Len(<<>>) + 1) -> Int] /\ off[1] = 0 /\ off[Len(<<>>) + 1] = 0
  OBVIOUS
<1>2. Offsets(<<>>, 0, 0)
  <2>1. \A i \in 1..Len(<<>>) : off[i + 1] = off[i] + <<>>[i].size
    OBVIOUS
  <2> HIDE DEF off
  <2> QED
    BY <1>1, <2>1 DEF Offsets
<1> QED
  BY <1>2, TwoEnds DEF Init, Balanced

LEMMA NextBalanced == Types /\ Balanced /\ [Next]_vars => Balanced'
<1> SUFFICES ASSUME Types, Balanced, [Next]_vars, NEW d \in Ends
             PROVE  Offsets(pipe'[d], received'[Peer(d)], sent'[d])
  BY TwoEnds DEF Balanced
<1>1. /\ Offsets(pipe[d], received[Peer(d)], sent[d]) /\ pipe[d] \in Seq(ChunkType)
      /\ received[Peer(d)] \in Int /\ sent[d] \in Int /\ Peer(d) \in Ends
  BY TwoEnds DEF Balanced, Types
<1>2. ASSUME NEW e \in Ends, NEW g \in Goroutines, Put(e, g)
      PROVE  Offsets(pipe'[d], received'[Peer(d)], sent'[d])
  <2>1. /\ todo[g] # <<>> /\ received' = received
        /\ pipe' = [pipe EXCEPT ![e] = Append(pipe[e], Head(todo[g]))]
        /\ sent' = [sent EXCEPT ![e] = sent[e] + Head(todo[g]).size]
    BY <1>2 DEF Put, MayPut
  <2>2. Head(todo[g]) \in ChunkType
    <3>1. todo[g] \in Seq(ChunkType)
      BY DEF Types
    <3> QED
      BY <2>1, <3>1
  <2>3. CASE d = e
    <3>1. Offsets(Append(pipe[d], Head(todo[g])), received[Peer(d)],
                  sent[d] + Head(todo[g]).size)
      BY <1>1, <2>2, OffsetsMore
    <3> QED
      BY <2>1, <2>3, <3>1 DEF Types
  <2>4. CASE d # e
    BY <1>1, <2>1, <2>4 DEF Types
  <2> QED
    BY <2>3, <2>4
<1>3. ASSUME NEW e \in Ends, ReadChunk(e)
      PROVE  Offsets(pipe'[d], received'[Peer(d)], sent'[d])
  <2>1. /\ pipe[Peer(e)] # <<>> /\ sent' = sent
        /\ pipe' = [pipe EXCEPT ![Peer(e)] = Tail(pipe[Peer(e)])]
        /\ received' = [received EXCEPT ![e] = received[e] + Head(pipe[Peer(e)]).size]
    BY <1>3 DEF ReadChunk, MayReadChunk
  <2>2. CASE d = Peer(e)
    <3>1. Peer(d) = e
      BY <2>2, TwoEnds
    <3>2. Offsets(Tail(pipe[d]), received[Peer(d)] + Head(pipe[d]).size, sent[d])
      BY <1>1, <2>1, <2>2, OffsetsRest
    <3> QED
      BY <1>1, <2>1, <2>2, <3>1, <3>2 DEF Types
  <2>3. CASE d # Peer(e)
    <3>1. Peer(d) # e
      BY <2>3, TwoEnds
    <3> QED
      BY <1>1, <2>1, <2>3, <3>1, TwoEnds DEF Types
  <2> QED
    BY <2>2, <2>3
<1>4. ASSUME UNCHANGED <<pipe, received, sent>>
      PROVE  Offsets(pipe'[d], received'[Peer(d)], sent'[d])
  BY <1>1, <1>4
<1> QED
  BY <1>2, <1>3, <1>4, FourGoroutines
  DEF Next, Progress, Writing, Reading, LockMessage, MayLockMessage, LockRaw, MayLockRaw,
      Unlock, MayUnlock, AckWritten, Handle, MayHandle,
      SetAcknowledgeValue, MaySetAcknowledge, AppWrite, vars

\* The value of the last acknowledge of cs, or d.
LastAck(cs, d, v) ==
  \/ \E i \in 1..Len(cs) :
       /\ cs[i].kind = "ack" /\ cs[i].value = v
       /\ \A j \in 1..Len(cs) : j > i => cs[j].kind # "ack"
  \/ v = d /\ \A i \in 1..Len(cs) : cs[i].kind # "ack"

LEMMA LastAckMore ==
  ASSUME NEW cs \in Seq(ChunkType), NEW c \in ChunkType, NEW d, NEW v
  PROVE  /\ c.kind # "ack" /\ LastAck(cs, d, v) => LastAck(Append(cs, c), d, v)
         /\ c.kind = "ack" => LastAck(Append(cs, c), d, c.value)
<1> DEFINE cc == Append(cs, c)
<1>1. /\ Len(cs) \in Nat /\ Len(cc) = Len(cs) + 1 /\ cc[Len(cs) + 1] = c
      /\ \A i \in 1..Len(cs) : cc[i] = cs[i]
  OBVIOUS
<1> HIDE DEF cc
<1>2. /\ Len(cs) + 1 \in 1..Len(cc)
      /\ \A i \in 1..Len(cc) : i \in 1..Len(cs) \/ i = Len(cs) + 1
      /\ \A i \in 1..Len(cs) : i \in 1..Len(cc) /\ Len(cs) + 1 > i
      /\ \A j \in 1..Len(cc) : ~(j > Len(cs) + 1)
  BY <1>1
<1>3. ASSUME c.kind # "ack", LastAck(cs, d, v) PROVE LastAck(cc, d, v)
  <2>1. CASE \E i \in 1..Len(cs) :
               /\ cs[i].kind = "ack" /\ cs[i].value = v
               /\ \A j \in 1..Len(cs) : j > i => cs[j].kind # "ack"
    <3>1. PICK i \in 1..Len(cs) :
               /\ cs[i].kind = "ack" /\ cs[i].value = v
               /\ \A j \in 1..Len(cs) : j > i => cs[j].kind # "ack"
      BY <2>1
    <3>2. \A j \in 1..Len(cc) : j > i => cc[j].kind # "ack"
      BY <1>1, <1>2, <1>3, <3>1
    <3> QED
      BY <1>1, <1>2, <3>1, <3>2 DEF LastAck
  <2>2. CASE v = d /\ \A i \in 1..Len(cs) : cs[i].kind # "ack"
    BY <1>1, <1>2, <1>3, <2>2 DEF LastAck
  <2> QED
    BY <1>3, <2>1, <2>2 DEF LastAck
<1>4. ASSUME c.kind = "ack" PROVE LastAck(cc, d, c.value)
  BY <1>1, <1>2, <1>4 DEF LastAck
<1> QED
  BY <1>3, <1>4 DEF cc

LEMMA LastAckRest ==
  ASSUME NEW cs \in Seq(ChunkType), cs # <<>>, NEW d, NEW v, LastAck(cs, d, v)
  PROVE  LastAck(Tail(cs), IF Head(cs).kind = "ack" THEN Head(cs).value ELSE d, v)
<1> DEFINE rest == Tail(cs)
<1>1. /\ Len(cs) \in Nat /\ Len(cs) > 0 /\ Len(rest) = Len(cs) - 1 /\ Head(cs) = cs[1]
      /\ \A i \in 1..Len(rest) : i + 1 \in 1..Len(cs) /\ rest[i] = cs[i + 1]
  OBVIOUS
<1> HIDE DEF rest
<1>2. 1 \in 1..Len(cs) /\ \A i \in 1..Len(rest) : i + 1 > 1
  BY <1>1
<1>3. ASSUME NEW i \in 1..Len(cs), cs[i].kind = "ack", cs[i].value = v,
             \A j \in 1..Len(cs) : j > i => cs[j].kind # "ack"
      PROVE  LastAck(rest, IF Head(cs).kind = "ack" THEN Head(cs).value ELSE d, v)
  <2>1. CASE i = 1
    <3>1. \A j \in 1..Len(rest) : rest[j].kind # "ack"
      BY <1>1, <1>2, <1>3, <2>1
    <3> QED
      BY <1>1, <1>3, <2>1, <3>1 DEF LastAck
  <2>2. CASE i # 1
    <3>1. i - 1 \in 1..Len(rest) /\ (i - 1) + 1 = i
      BY <1>1, <2>2
    <3>2. rest[i - 1] = cs[i]
      BY <1>1, <3>1
    <3>3. ASSUME NEW j \in 1..Len(rest), j > i - 1 PROVE rest[j].kind # "ack"
      <4>1. j + 1 \in 1..Len(cs) /\ rest[j] = cs[j + 1] /\ j + 1 > i
        BY <1>1, <3>3
      <4> QED
        BY <1>3, <4>1
    <3> QED
      BY <1>3, <3>1, <3>2, <3>3 DEF LastAck
  <2> QED
    BY <2>1, <2>2
<1>4. ASSUME v = d, \A i \in 1..Len(cs) : cs[i].kind # "ack"
      PROVE  LastAck(rest, IF Head(cs).kind = "ack" THEN Head(cs).value ELSE d, v)
  BY <1>1, <1>2, <1>4 DEF LastAck
<1> QED
  BY <1>3, <1>4 DEF LastAck, rest

\* The reading goroutine of an end writes one chunk at a time, its application
\* never writes an acknowledge.
WhoAcks ==
  \A e \in Ends :
    /\ Len(todo[Rd(e)]) <= 1
    /\ \A i \in 1..Len(todo[App(e)]) : todo[App(e)][i].kind # "ack"

\* The last value acknowledged to e by its peer, wherever it is.
Known(e) == IF current[e].kind = "ack" THEN current[e].value ELSE ackValue[e]

AboutToAck(f) == todo[Rd(f)] # <<>> /\ Head(todo[Rd(f)]).kind = "ack"

Acked(e, v) ==
  IF AboutToAck(Peer(e))
  THEN v = Head(todo[Rd(Peer(e))]).value
  ELSE LastAck(pipe[Peer(e)], Known(e), v)

AckPhase(f) == pc[Rd(f)] = "acknowledged" \/ (Writes(f) /\ current[f] # NoChunk)

Lag(f, v) ==
  IF AckPhase(f) THEN U(received[f] - v) = 0 ELSE U(received[f] - v) <= Owed(f)

Lagging == \A e \in Ends : \E v \in 0..(CountMod - 1) : Acked(e, v) /\ Lag(Peer(e), v)

LEMMA InitWhoAcks == Init => WhoAcks
BY FourGoroutines DEF Init, WhoAcks

LEMMA NextWhoAcks == Types /\ WhoAcks /\ [Next]_vars => WhoAcks'
<1> SUFFICES ASSUME Types, WhoAcks, [Next]_vars, NEW d \in Ends
             PROVE  /\ Len(todo'[Rd(d)]) <= 1
                    /\ \A i \in 1..Len(todo'[App(d)]) : todo'[App(d)][i].kind # "ack"
  BY DEF WhoAcks
<1> DEFINE Goal == /\ Len(todo'[Rd(d)]) <= 1
                   /\ \A i \in 1..Len(todo'[App(d)]) : todo'[App(d)][i].kind # "ack"
<1>1. /\ Rd(d) \in Goroutines /\ App(d) \in Goroutines
      /\ todo[Rd(d)] \in Seq(ChunkType) /\ todo[App(d)] \in Seq(ChunkType)
      /\ Len(todo[Rd(d)]) <= 1
      /\ \A i \in 1..Len(todo[App(d)]) : todo[App(d)][i].kind # "ack"
  BY FourGoroutines DEF WhoAcks, Types
<1>2. ASSUME NEW e \in Ends, NEW g \in Goroutines, Put(e, g) PROVE Goal
  <2>1. todo[g] # <<>> /\ todo' = [todo EXCEPT ![g] = Tail(todo[g])]
    BY <1>2 DEF Put, MayPut
  <2>2. ASSUME g = Rd(d) PROVE Len(Tail(todo[Rd(d)])) <= 1
    BY <1>1, <2>1, <2>2
  <2>3. ASSUME g = App(d), NEW i \in 1..Len(Tail(todo[App(d)]))
        PROVE  Tail(todo[App(d)])[i].kind # "ack"
    <3>1. i + 1 \in 1..Len(todo[App(d)]) /\ Tail(todo[App(d)])[i] = todo[App(d)][i + 1]
      BY <1>1, <2>1, <2>3
    <3> QED
      BY <1>1, <3>1
  <2> QED
    BY <1>1, <2>1, <2>2, <2>3 DEF Types
<1>3. ASSUME NEW e \in Ends, NEW c, todo' = [todo EXCEPT ![Rd(e)] = <<c>>] PROVE Goal
  <2>1. Rd(e) # App(d)
    BY FourGoroutines
  <2>2. Len(<<c>>) <= 1
    OBVIOUS
  <2> QED
    BY <1>1, <1>3, <2>1, <2>2 DEF Types
<1>4. ASSUME NEW e \in Ends, AppWrite(e) PROVE Goal
  <2>1. PICK m \in AppMessages[e] : todo' = [todo EXCEPT ![App(e)] = m]
    BY <1>4 DEF AppWrite
  <2>2. m \in Seq(ChunkType) /\ \A i \in 1..Len(m) : m[i].kind # "ack"
    <3>1. m \in Seq(ChunkType) /\ DOMAIN m = 1..Len(m)
      BY ChunksAssumption
    <3>2. \A i \in DOMAIN m : m[i].kind \in {"data", "ping"}
      BY ChunksAssumption
    <3> QED
      BY <3>1, <3>2
  <2>3. App(e) # Rd(d)
    BY FourGoroutines
  <2> QED
    BY <1>1, <2>1, <2>2, <2>3 DEF Types
<1>5. ASSUME UNCHANGED todo PROVE Goal
  BY <1>1, <1>5
<1> HIDE DEF Goal
<1>6. ASSUME NEW e \in Ends, ReadChunk(e) PROVE Goal
  BY <1>3, <1>5, <1>6 DEF ReadChunk, MayReadChunk
<1>7. ASSUME NEW e \in Ends, Handle(e) PROVE Goal
  BY <1>3, <1>5, <1>7 DEF Handle, MayHandle
<1>8. Goal
  BY <1>2, <1>4, <1>5, <1>6, <1>7, FourGoroutines
  DEF Next, Progress, Writing, Reading, LockMessage, MayLockMessage, LockRaw, MayLockRaw,
      Unlock, MayUnlock, AckWritten,
      SetAcknowledgeValue, MaySetAcknowledge, vars
<1> QED
  BY <1>8 DEF Goal

LEMMA InitLagging == Init => Lagging
<1> SUFFICES ASSUME Init PROVE Lagging
  OBVIOUS
<1>1. U(0 - 0) = 0 /\ 0 <= 0 /\ 0 \in 0..(CountMod - 1)
  BY DuplexAssumption, SmallRemainder, SMT DEF U
<1>2. \A e \in Ends : pc[Rd(e)] = "read" /\ todo[Rd(e)] = <<>>
  BY FourGoroutines DEF Init, Rd
<1>3. ASSUME NEW e \in Ends PROVE Acked(e, 0)
  <2>1. Known(e) = 0 /\ pipe[Peer(e)] = <<>>
    BY TwoEnds DEF Init, Known, NoChunk
  <2>2. ~AboutToAck(Peer(e))
    BY <1>2, TwoEnds DEF AboutToAck
  <2>3. LastAck(<<>>, 0, 0)
    BY DEF LastAck
  <2> QED
    BY <2>1, <2>2, <2>3 DEF Acked
<1>4. \A e \in Ends : Lag(e, 0)
  BY <1>1, <1>2 DEF Init, Lag, AckPhase, Writes, Owed
<1> QED
  BY <1>1, <1>3, <1>4, TwoEnds DEF Lagging

\* A step that leaves alone what is acknowledged to e, and what its peer owes.
LEMMA LaggingElsewhere ==
  ASSUME NEW e \in Ends, NEW f, f = Peer(e), NEW v, Acked(e, v), Lag(f, v),
         todo'[Rd(f)] = todo[Rd(f)], pipe'[f] = pipe[f], Known(e)' = Known(e),
         AckPhase(f)' = AckPhase(f), received'[f] = received[f], Owed(f)' = Owed(f)
  PROVE  Acked(e, v)' /\ Lag(f, v)'
BY DEF Acked, AboutToAck, Lag

\* What was read since the last acknowledge grows with what is owed.
LEMMA LagMore ==
  ASSUME NEW r \in Nat, NEW v \in 0..(CountMod - 1), NEW size \in 1..Window
  PROVE  U((r + size) - v) <= U(r - v) + size
<1>1. CountMod \in Nat \ {0} /\ r \in Int /\ v \in Int /\ size \in Int /\ r - v \in Int
      /\ (r + size) - v = (r - v) + size
  BY DuplexAssumption, SMT
<1>2. ((r + size) - v) % CountMod = (((r - v) % CountMod) + size) % CountMod
  <2>1. (((r - v) % CountMod) + size) % CountMod = ((r - v) + size) % CountMod
    BY <1>1, RemainderOfSum
  <2> QED
    BY <1>1, <2>1
<1>3. U(r - v) \in 0..(CountMod - 1)
  BY <1>1, CounterType
<1>4. U(r - v) + size \in Nat
  BY <1>1, <1>3
<1>5. \A n \in Nat : n % CountMod <= n
  <2>1. ASSUME NEW n \in Nat PROVE n % CountMod <= n
    <3>1. CASE n < CountMod
      <4>1. n \in 0..(CountMod - 1)
        BY <1>1, <3>1
      <4> QED
        BY <1>1, <4>1, SmallRemainder
    <3>2. CASE n >= CountMod
      <4>1. n % CountMod \in 0..(CountMod - 1)
        BY <1>1, Division
      <4> QED
        BY <1>1, <3>2, <4>1
    <3> QED
      BY <1>1, <3>1, <3>2
  <2> QED
    BY <2>1
<1> QED
  BY <1>2, <1>4, <1>5 DEF U

LEMMA NextLagging ==
  /\ Types /\ Types' /\ KeepInv /\ KeepInv' /\ RawExclusive /\ WhoAcks
  /\ Lagging /\ [Next]_vars
  => Lagging'
<1> SUFFICES ASSUME Types, Types', KeepInv, KeepInv', RawExclusive, WhoAcks, Lagging,
                    [Next]_vars, NEW e \in Ends
             PROVE  \E v \in 0..(CountMod - 1) : Acked(e, v)' /\ Lag(Peer(e), v)'
  BY DEF Lagging
<1> DEFINE f == Peer(e)
<1>1. /\ f \in Ends /\ f # e /\ Peer(f) = e
      /\ \A k \in Ends : k = e \/ k = f
      /\ \A k \in Ends : App(k) \in Goroutines /\ Rd(k) \in Goroutines
      /\ \A k, m \in Ends : App(k) # Rd(m) /\ (Rd(k) = Rd(m) => k = m)
  BY TwoEnds, FourGoroutines DEF Ends
<1>2. PICK v \in 0..(CountMod - 1) : Acked(e, v) /\ Lag(f, v)
  BY DEF Lagging
<1>3. /\ pipe[f] \in Seq(ChunkType) /\ Keeps(f) /\ Keeps(e) /\ Keeps(f)'
      /\ received[f] \in Nat /\ Owed(f) \in 0..(CountMod - 1)
  <2>1. received[f] \in Nat /\ lastAckCount[f] \in 0..(CountMod - 1)
    BY <1>1 DEF Types
  <2>2. received[f] - lastAckCount[f] \in Int
    BY <2>1
  <2>3. Owed(f) \in 0..(CountMod - 1)
    BY <2>2, CounterType DEF Owed
  <2> QED
    BY <1>1, <2>1, <2>3 DEF Types, KeepInv
<1> HIDE DEF f
<1> SUFFICES \E w \in 0..(CountMod - 1) : Acked(e, w)' /\ Lag(f, w)'
  BY DEF f
<1>4. ASSUME NEW k \in Ends, NEW g \in Own(k), LockMessage(k, g) \/ LockRaw(k, g) \/ Unlock(k, g)
      PROVE  Acked(e, v)' /\ Lag(f, v)'
  <2>1. /\ UNCHANGED <<todo, pipe, current, ackValue, received, lastAckCount>>
        /\ g \in Goroutines
    BY <1>1, <1>4 DEF LockMessage, MayLockMessage, LockRaw, MayLockRaw, Unlock,
        MayUnlock, Own
  <2>2. AckPhase(f)' = AckPhase(f)
    <3>1. CASE g # Rd(f)
      <4>1. pc'[Rd(f)] = pc[Rd(f)]
        BY <1>1, <1>4, <2>1, <3>1 DEF LockMessage, MayLockMessage, LockRaw, MayLockRaw,
            Unlock, MayUnlock, Types
      <4> QED
        BY <2>1, <4>1 DEF AckPhase, Writes
    <3>2. CASE g = Rd(f) /\ Unlock(k, g)
      <4>1. k = f
        BY <1>1, <3>2 DEF Own
      <4>2. /\ pc[Rd(f)] = "put"
            /\ pc'[Rd(f)] = IF current[f] # NoChunk THEN "acknowledged" ELSE "read"
        BY <1>1, <2>1, <3>2, <4>1 DEF Unlock, MayUnlock, Types
      <4> QED
        BY <2>1, <4>2 DEF AckPhase, Writes
    <3>3. CASE g = Rd(f) /\ (LockMessage(k, g) \/ LockRaw(k, g))
      <4>1. Writes(f) /\ Writes(f)'
        BY <1>1, <2>1, <3>3 DEF LockMessage, MayLockMessage, LockRaw, MayLockRaw, Types,
            Writes
      <4> QED
        BY <2>1, <4>1 DEF AckPhase, Writes
    <3> QED
      BY <1>4, <3>1, <3>2, <3>3
  <2>3. Known(e)' = Known(e) /\ Owed(f)' = Owed(f)
    BY <2>1 DEF Known, Owed
  <2> QED
    BY <1>2, <2>1, <2>2, <2>3, LaggingElsewhere DEF f
<1>5. ASSUME NEW k \in Ends, NEW g \in Own(k), Put(k, g)
      PROVE  Acked(e, v)' /\ Lag(f, v)'
  <2> DEFINE c == Head(todo[g])
  <2>1. /\ UNCHANGED <<pc, current, ackValue, received, lastAckCount>>
        /\ todo[g] # <<>> /\ g \in Goroutines
        /\ todo' = [todo EXCEPT ![g] = Tail(todo[g])]
        /\ pipe' = [pipe EXCEPT ![k] = Append(pipe[k], c)]
    BY <1>1, <1>5 DEF Put, MayPut, Own
  <2>2. /\ Known(e)' = Known(e) /\ Owed(f)' = Owed(f) /\ Lag(f, v)'
        /\ AckPhase(f)' = AckPhase(f)
    BY <1>2, <2>1 DEF Known, Owed, Lag, AckPhase, Writes
  <2>3. CASE k # f
    <3>1. g # Rd(f)
      BY <1>1, <2>3 DEF Own
    <3>2. todo'[Rd(f)] = todo[Rd(f)] /\ pipe'[f] = pipe[f] /\ received'[f] = received[f]
      BY <1>1, <2>1, <2>3, <3>1 DEF Types
    <3> QED
      BY <1>2, <2>2, <3>2, LaggingElsewhere DEF f
  <2>4. CASE k = f
    <3>1. /\ todo[g] \in Seq(ChunkType) /\ c \in ChunkType /\ c = todo[g][1]
          /\ 1 \in 1..Len(todo[g])
      <4>1. todo[g] \in Seq(ChunkType)
        BY <2>1 DEF Types
      <4> QED
        BY <2>1, <4>1
    <3>2. pipe'[f] = Append(pipe[f], c)
      BY <1>1, <2>1, <2>4 DEF Types
    <3> HIDE DEF c
    <3>3. CASE g = App(f)
      <4>1. c.kind # "ack"
        BY <1>1, <3>1, <3>3 DEF WhoAcks
      <4>2. todo'[Rd(f)] = todo[Rd(f)] /\ AboutToAck(f)' = AboutToAck(f)
        BY <1>1, <2>1, <3>3 DEF Types, AboutToAck
      <4>3. LastAck(pipe[f], Known(e), v) => LastAck(Append(pipe[f], c), Known(e), v)
        BY <1>3, <3>1, <4>1, LastAckMore
      <4> QED
        BY <1>2, <2>2, <3>2, <4>2, <4>3 DEF Acked, f
    <3>4. CASE g = Rd(f)
      <4>1. todo'[Rd(f)] = <<>> /\ ~AboutToAck(f)'
        <5>1. Len(todo[g]) <= 1 /\ todo'[Rd(f)] = Tail(todo[g])
          BY <1>1, <2>1, <3>4 DEF Types, WhoAcks
        <5>2. \A t \in Seq(ChunkType) : t # <<>> /\ Len(t) <= 1 => Tail(t) = <<>>
          OBVIOUS
        <5>3. Tail(todo[g]) = <<>>
          BY <2>1, <3>1, <5>1, <5>2
        <5> QED
          BY <5>1, <5>3 DEF AboutToAck
      <4>2. CASE c.kind = "ack"
        <5>1. v = c.value
          BY <1>2, <2>1, <3>4, <4>2 DEF Acked, AboutToAck, f, c
        <5>2. LastAck(Append(pipe[f], c), Known(e), v)
          BY <1>3, <3>1, <4>2, <5>1, LastAckMore
        <5> QED
          BY <2>2, <3>2, <4>1, <5>2 DEF Acked, f
      <4>3. CASE c.kind # "ack"
        <5>1. LastAck(pipe[f], Known(e), v)
          BY <1>2, <3>4, <4>3 DEF Acked, AboutToAck, f, c
        <5>2. LastAck(Append(pipe[f], c), Known(e), v)
          BY <1>3, <3>1, <4>3, <5>1, LastAckMore
        <5> QED
          BY <2>2, <3>2, <4>1, <5>2 DEF Acked, f
      <4> QED
        BY <4>2, <4>3
    <3> QED
      BY <2>4, <3>3, <3>4 DEF Own
  <2> QED
    BY <2>3, <2>4
<1>6. ASSUME ReadChunk(e) PROVE Acked(e, v)' /\ Lag(f, v)'
  <2> DEFINE c == Head(pipe[f])
  <2>1. /\ pipe[f] # <<>> /\ pc[Rd(e)] = "read"
        /\ pipe' = [pipe EXCEPT ![f] = Tail(pipe[f])]
        /\ current' = [current EXCEPT ![e] = c]
        /\ \A h \in Goroutines \ {Rd(e)} : pc'[h] = pc[h] /\ todo'[h] = todo[h]
        /\ \A k \in Ends \ {e} : received'[k] = received[k]
        /\ UNCHANGED <<lastAckCount, ackValue>>
    <3>1. /\ \A h \in Goroutines \ {Rd(e)} : pc'[h] = pc[h] /\ todo'[h] = todo[h]
          /\ \A k \in Ends \ {e} : received'[k] = received[k]
      BY <1>6 DEF ReadChunk, MayReadChunk, Types
    <3> QED
      BY <1>6, <3>1 DEF ReadChunk, MayReadChunk, f
  <2>2. /\ pipe'[f] = Tail(pipe[f]) /\ current'[e] = c /\ current'[f] = current[f]
        /\ pc'[Rd(f)] = pc[Rd(f)] /\ todo'[Rd(f)] = todo[Rd(f)] /\ received'[f] = received[f]
    BY <1>1, <2>1 DEF Types
  <2>3. Known(e) = ackValue[e]
    BY <1>3, <2>1 DEF Keeps, Known, NoChunk
  <2>4. Known(e)' = IF c.kind = "ack" THEN c.value ELSE Known(e)
    BY <2>1, <2>2, <2>3 DEF Known
  <2>5. Lag(f, v)'
    BY <1>2, <2>1, <2>2 DEF Lag, AckPhase, Writes, Owed
  <2>6. LastAck(pipe[f], Known(e), v) => LastAck(pipe'[f], Known(e)', v)
    <3>1. ASSUME LastAck(pipe[f], Known(e), v)
          PROVE  LastAck(Tail(pipe[f]), IF c.kind = "ack" THEN c.value ELSE Known(e), v)
      BY <1>3, <2>1, <3>1, LastAckRest
    <3> QED
      BY <2>2, <2>4, <3>1
  <2> QED
    BY <1>2, <2>2, <2>5, <2>6 DEF Acked, AboutToAck, f
<1>7. ASSUME ReadChunk(f) PROVE \E w \in 0..(CountMod - 1) : Acked(e, w)' /\ Lag(f, w)'
  <2> DEFINE c == Head(pipe[e])
             count == U(received[f] + c.size)
  <2>1. /\ pipe[e] # <<>> /\ pc[Rd(f)] = "read"
        /\ pipe' = [pipe EXCEPT ![e] = Tail(pipe[e])]
        /\ received' = [received EXCEPT ![f] = received[f] + c.size]
        /\ current' = [current EXCEPT ![f] = c]
        /\ UNCHANGED <<lastAckCount, ackValue>>
        /\ IF AckNeeded(f, count)
           THEN /\ todo' = [todo EXCEPT ![Rd(f)] = <<Ack(count)>>]
                /\ pc' = [pc EXCEPT ![Rd(f)] = "lock"]
           ELSE /\ pc' = [pc EXCEPT ![Rd(f)] = "handle"]
                /\ UNCHANGED todo
    BY <1>1, <1>7 DEF ReadChunk, MayReadChunk
  <2>2. c \in ChunkType /\ c # NoChunk /\ c.size \in 1..Window
    <3>1. pipe[e] \in Seq(ChunkType)
      BY DEF Types
    <3>2. c \in ChunkType
      BY <2>1, <3>1
    <3> QED
      BY <3>2, ChunkKinds DEF ChunkType
  <2> HIDE DEF c
  <2>3. /\ received'[f] = received[f] + c.size /\ current'[f] = c /\ pipe'[f] = pipe[f]
        /\ Known(e)' = Known(e) /\ lastAckCount'[f] = lastAckCount[f]
    BY <1>1, <2>1 DEF Types, Known
  <2>4. todo[Rd(f)] = <<>> /\ Owed(f) <= Window
    BY <1>3, <2>1 DEF Keeps, Writes
  <2>5. CASE AckNeeded(f, count)
    <3>1. pc'[Rd(f)] = "lock" /\ todo'[Rd(f)] = <<Ack(count)>>
      <4>1. Rd(f) \in DOMAIN pc /\ Rd(f) \in DOMAIN todo
        BY <1>1 DEF Types
      <4>2. /\ todo' = [todo EXCEPT ![Rd(f)] = <<Ack(count)>>]
            /\ pc' = [pc EXCEPT ![Rd(f)] = "lock"]
        BY <2>1, <2>5
      <4> HIDE DEF count, f
      <4> QED
        BY <4>1, <4>2
    <3>2. received[f] + c.size \in Int
      BY <1>3, <2>2
    <3>3. PICK w \in 0..(CountMod - 1) : w = count
      BY <3>2, CounterType
    <3>4. Acked(e, w)'
      BY <3>1, <3>3 DEF Acked, AboutToAck, Ack, f
    <3>5. U((received[f] + c.size) - count) = 0
      <4> DEFINE n == received[f] + c.size
      <4>1. n \in Int /\ CountMod \in Nat \ {0} /\ U(n) \in Int /\ U(n) % CountMod = U(n)
        <5>1. n \in Int /\ CountMod \in Nat \ {0}
          BY <3>2, DuplexAssumption, SMT
        <5>2. U(n) \in 0..(CountMod - 1)
          BY <5>1, CounterType
        <5>3. U(n) % CountMod = U(n)
          BY <5>1, <5>2, SmallRemainder
        <5> QED
          BY <5>1, <5>2, <5>3
      <4>2. ((n % CountMod) - (U(n) % CountMod)) % CountMod = (n - U(n)) % CountMod
        <5> HIDE DEF n
        <5> QED
          BY <4>1, RemainderOfSum
      <4>3. (n % CountMod) - (U(n) % CountMod) = 0
        <5>1. n % CountMod = U(n)
          BY DEF U
        <5> HIDE DEF n
        <5> QED
          BY <4>1, <5>1
      <4>4. 0 % CountMod = 0
        BY <4>1, SmallRemainder
      <4> QED
        BY <4>2, <4>3, <4>4 DEF U
    <3>6. AckPhase(f)'
      BY <2>2, <2>3, <3>1 DEF AckPhase, Writes
    <3> HIDE DEF count
    <3>7. Lag(f, w)'
      BY <2>3, <3>3, <3>5, <3>6 DEF Lag
    <3> QED
      BY <3>3, <3>4, <3>7
  <2>6. CASE ~AckNeeded(f, count)
    <3>1. pc'[Rd(f)] = "handle" /\ todo'[Rd(f)] = todo[Rd(f)]
      BY <1>1, <2>1, <2>6 DEF Types
    <3>2. Acked(e, v)'
      BY <1>2, <2>3, <3>1 DEF Acked, AboutToAck, f
    <3>3. U(received[f] - v) <= Owed(f) /\ ~AckPhase(f)'
      BY <1>2, <2>1, <3>1 DEF Lag, AckPhase, Writes
    <3>4. U((received[f] + c.size) - v) <= U(received[f] - v) + c.size
      BY <1>3, <2>2, LagMore
    <3>5. Owed(f)' = Owed(f) + c.size
      <4>1. lastAckCount[f] \in 0..(CountMod - 1)
        BY <1>1 DEF Types
      <4> QED
        BY <1>3, <2>2, <2>3, <2>4, <4>1, OwedMore DEF Owed
    <3>6. U(received'[f] - v) <= Owed(f)'
      <4>1. /\ U(received[f] - v) \in Int
            /\ U((received[f] + c.size) - v) \in Int
        <5>1. received[f] - v \in Int /\ (received[f] + c.size) - v \in Int
          BY <1>3, <2>2
        <5> QED
          BY <5>1, CounterType
      <4> HIDE DEF Owed
      <4> QED
        BY <1>3, <2>2, <2>3, <3>3, <3>4, <3>5, <4>1
    <3> QED
      BY <3>2, <3>3, <3>6 DEF Lag
  <2> QED
    BY <2>5, <2>6
<1>8. ASSUME NEW k \in Ends, AckWritten(k) PROVE Acked(e, v)' /\ Lag(f, v)'
  <2>1. /\ pc[Rd(k)] = "acknowledged" /\ pc' = [pc EXCEPT ![Rd(k)] = "handle"]
        /\ lastAckCount' = [lastAckCount EXCEPT ![k] = U(lastAckCount[k] + Window)]
        /\ UNCHANGED <<todo, pipe, current, received, ackValue>>
    BY <1>8 DEF AckWritten
  <2>2. Acked(e, v)'
    BY <1>2, <2>1 DEF Acked, AboutToAck, Known
  <2>3. CASE k = f
    <3>1. U(received[f] - v) = 0 /\ ~AckPhase(f)'
      <4>1. pc'[Rd(f)] = "handle"
        BY <1>1, <2>1, <2>3 DEF Types
      <4> QED
        BY <1>2, <2>1, <2>3, <4>1 DEF Lag, AckPhase, Writes
    <3>2. 0 <= Owed(f)'
      <4>1. received'[f] \in Nat /\ lastAckCount'[f] \in 0..(CountMod - 1)
        BY <1>1 DEF Types
      <4>2. received'[f] - lastAckCount'[f] \in Int
        BY <4>1
      <4>3. U(received'[f] - lastAckCount'[f]) \in 0..(CountMod - 1)
        BY <4>2, CounterType
      <4>4. Owed(f)' = U(received'[f] - lastAckCount'[f])
        BY DEF Owed
      <4> QED
        BY <4>3, <4>4
    <3> QED
      BY <2>1, <2>2, <3>1, <3>2 DEF Lag
  <2>4. CASE k # f
    <3>1. pc'[Rd(f)] = pc[Rd(f)] /\ lastAckCount'[f] = lastAckCount[f]
      BY <1>1, <2>1, <2>4 DEF Types
    <3> QED
      BY <1>2, <2>1, <2>2, <3>1 DEF Lag, AckPhase, Writes, Owed
  <2> QED
    BY <2>3, <2>4
<1>9. ASSUME Handle(f) \/ SetAcknowledgeValue(f) PROVE Acked(e, v)' /\ Lag(f, v)'
  <2>1. /\ pc[Rd(f)] = "handle" /\ UNCHANGED <<received, lastAckCount, pipe>>
        /\ current' = [current EXCEPT ![f] = NoChunk]
        /\ \/ pc' = [pc EXCEPT ![Rd(f)] = "read"] /\ UNCHANGED todo
           \/ /\ pc' = [pc EXCEPT ![Rd(f)] = "lock"]
              /\ todo' = [todo EXCEPT ![Rd(f)] = <<Pong>>]
        /\ ackValue'[e] = ackValue[e]
    BY <1>1, <1>9 DEF Handle, MayHandle, SetAcknowledgeValue, MaySetAcknowledge, Types
  <2>2. /\ Known(e)' = Known(e) /\ current'[f] = NoChunk
        /\ pc'[Rd(f)] = "read" \/ pc'[Rd(f)] = "lock"
        /\ todo'[Rd(f)] = todo[Rd(f)] \/ todo'[Rd(f)] = <<Pong>>
    BY <1>1, <2>1 DEF Known, Types
  <2>3. todo[Rd(f)] = <<>>
    BY <1>3, <2>1 DEF Keeps, Writes
  <2>4. ~AckPhase(f) /\ ~AckPhase(f)' /\ Owed(f)' = Owed(f)
    BY <2>1, <2>2 DEF AckPhase, Writes, Owed
  <2>5. ~AboutToAck(f) /\ ~AboutToAck(f)'
    BY <2>2, <2>3 DEF AboutToAck, Pong
  <2> QED
    BY <1>2, <2>1, <2>2, <2>4, <2>5 DEF Acked, Lag, f
<1>10. ASSUME Handle(e) \/ SetAcknowledgeValue(e) PROVE Acked(e, v)' /\ Lag(f, v)'
  <2>1. Known(e)' = Known(e)
    BY <1>10 DEF Handle, MayHandle, SetAcknowledgeValue, MaySetAcknowledge, Known,
        NoChunk, Types
  <2>2. /\ UNCHANGED <<received, lastAckCount, pipe>> /\ current'[f] = current[f]
        /\ \E s \in {"lock", "read"} : pc' = [pc EXCEPT ![Rd(e)] = s]
        /\ todo' = todo \/ todo' = [todo EXCEPT ![Rd(e)] = <<Pong>>]
    BY <1>1, <1>10 DEF Handle, MayHandle, SetAcknowledgeValue, MaySetAcknowledge, Types
  <2>3. pc'[Rd(f)] = pc[Rd(f)] /\ todo'[Rd(f)] = todo[Rd(f)]
    BY <1>1, <2>2 DEF Types
  <2>4. AckPhase(f)' = AckPhase(f) /\ Owed(f)' = Owed(f)
    BY <2>2, <2>3 DEF AckPhase, Writes, Owed
  <2> QED
    BY <1>2, <2>1, <2>2, <2>3, <2>4, LaggingElsewhere DEF f
<1>11. ASSUME NEW k \in Ends, AppWrite(k) PROVE Acked(e, v)' /\ Lag(f, v)'
  <2>1. UNCHANGED <<received, lastAckCount, pipe, current, ackValue>>
    BY <1>11 DEF AppWrite
  <2>2. pc'[Rd(f)] = pc[Rd(f)] /\ todo'[Rd(f)] = todo[Rd(f)]
    BY <1>1, <1>11 DEF AppWrite, Types
  <2>3. AckPhase(f)' = AckPhase(f) /\ Owed(f)' = Owed(f) /\ Known(e)' = Known(e)
    BY <2>1, <2>2 DEF AckPhase, Writes, Owed, Known
  <2> QED
    BY <1>2, <2>1, <2>2, <2>3, LaggingElsewhere DEF f
<1>12. ASSUME UNCHANGED vars PROVE Acked(e, v)' /\ Lag(f, v)'
  BY <1>2, <1>12 DEF vars, Acked, AboutToAck, Known, Lag, AckPhase, Writes, Owed
<1>13. CASE \E k \in Ends : Writing(k, App(k)) \/ Writing(k, Rd(k))
  BY <1>2, <1>4, <1>5, <1>13 DEF Writing, Own
<1>14. CASE \E k \in Ends : Reading(k)
  BY <1>1, <1>2, <1>6, <1>7, <1>8, <1>9, <1>10, <1>14 DEF Reading
<1>15. CASE \E k \in Ends : AppWrite(k)
  BY <1>2, <1>11, <1>15
<1> QED
  BY <1>2, <1>12, <1>13, <1>14, <1>15 DEF Next, Progress

RestInv == Types /\ KeepInv /\ WholeInv /\ Balanced /\ WhoAcks /\ Lagging

\* Once everything written is read, no end has more than a window of bytes
\* unacknowledged, wherever the counters are, so that a writer that checks
\* acknowledges is far from its limit (rawmessage/writer.go:26-33).
THEOREM AcknowledgedInTheEnd == Spec => []AcknowledgedAtRest
<1>1. RestInv => AcknowledgedAtRest
  <2> SUFFICES ASSUME RestInv, Quiet, NEW e \in Ends
               PROVE  U(sent[e] - ackValue[e]) <= Window
    BY DEF AcknowledgedAtRest
  <2> DEFINE f == Peer(e)
  <2>1. /\ f \in Ends /\ Keeps(f) /\ Keeps(e) /\ pc[Rd(f)] = "read" /\ pc[Rd(e)] = "read"
        /\ pipe[f] = <<>> /\ pipe[e] = <<>>
    BY TwoEnds DEF RestInv, KeepInv, Quiet
  <2>2. PICK v \in 0..(CountMod - 1) : Acked(e, v) /\ Lag(f, v)
    BY DEF RestInv, Lagging
  <2>3. sent[e] = received[f]
    <3>1. Offsets(<<>>, received[f], sent[e])
      BY <2>1 DEF RestInv, Balanced
    <3> QED
      BY <3>1 DEF Offsets
  <2>4. v = ackValue[e]
    <3>1. Known(e) = ackValue[e]
      BY <2>1 DEF Keeps, Known, NoChunk
    <3>2. ~AboutToAck(f)
      BY <2>1 DEF Keeps, Writes, AboutToAck
    <3> QED
      BY <2>1, <2>2, <3>1, <3>2 DEF Acked, LastAck
  <2>5. U(received[f] - v) <= Owed(f) /\ Owed(f) <= Window
    BY <2>1, <2>2 DEF Keeps, Lag, AckPhase, Writes
  <2>6. U(received[f] - v) \in Int /\ Owed(f) \in Int
    <3>1. received[f] \in Nat /\ lastAckCount[f] \in 0..(CountMod - 1)
      BY <2>1 DEF RestInv, Types
    <3>2. received[f] - v \in Int /\ received[f] - lastAckCount[f] \in Int
      BY <3>1
    <3> QED
      BY <3>2, CounterType DEF Owed
  <2> HIDE DEF f, Owed
  <2> QED
    BY <2>3, <2>4, <2>5, <2>6, DuplexAssumption
<1>2. Init => RestInv
  BY InitTypes, InitKeeps, InitWhole, InitBalanced, InitWhoAcks, InitLagging DEF RestInv
<1>3. RestInv /\ [Next]_vars => RestInv'
  BY NextTypes, NextKeeps, NextWhole, NextBalanced, NextWhoAcks, NextLagging
  DEF RestInv, WholeInv
<1> QED
  BY <1>1, <1>2, <1>3, PTL DEF Spec

(***************************************************************************)
(* Who waits for whom.  A mutex is held by the goroutine that is past      *)
(* locking it, and by no other; so a goroutine waits for a mutex only      *)
(* while the other one of its end is in Conn.Write.                        *)
(***************************************************************************)
Holds(e) ==
  /\ messageMutex[e] \in Own(e) \cup {Nobody} /\ rawMutex[e] \in Own(e) \cup {Nobody}
  /\ \A g \in Own(e) : /\ messageMutex[e] = g <=> pc[g] \in {"lockRaw", "put"}
                       /\ rawMutex[e] = g <=> pc[g] = "put"
  /\ pc[App(e)] \notin {"read", "acknowledged", "handle"} /\ pc[Rd(e)] # "idle"

MutexInv == \A e \in Ends : Holds(e)

LEMMA InitMutex == Init => MutexInv
BY FourGoroutines DEF Init, MutexInv, Holds, Own, App, Rd, Ends

\* A step of one end leaves the mutexes of the other.
LEMMA HoldsElsewhere ==
  ASSUME Types, MutexInv, NEW e \in Ends, Holds(e)',
         \A f \in Ends \ {e} : messageMutex'[f] = messageMutex[f] /\ rawMutex'[f] = rawMutex[f],
         \A g \in Goroutines \ Own(e) : pc'[g] = pc[g]
  PROVE  MutexInv'
<1>1. \A f \in Ends \ {e} : \A g \in Own(f) : g \in Goroutines \ Own(e)
  BY FourGoroutines DEF Own
<1>2. \A f \in Ends \ {e} : App(f) \in Own(f) /\ Rd(f) \in Own(f)
  BY DEF Own
<1> QED
  BY <1>1, <1>2 DEF MutexInv, Holds

LEMMA NextMutex == Types /\ MutexInv /\ [Next]_vars => MutexInv'
<1> SUFFICES ASSUME Types, MutexInv, [Next]_vars PROVE MutexInv'
  OBVIOUS
<1>1. \A e \in Ends : /\ App(e) \in Goroutines /\ Rd(e) \in Goroutines /\ App(e) # Rd(e)
                      /\ App(e) # Nobody /\ Rd(e) # Nobody /\ Own(e) = {App(e), Rd(e)}
                      /\ Holds(e)
  BY FourGoroutines DEF Own, MutexInv
\* A step of goroutine g that leaves the mutexes.
<1>2. ASSUME NEW e \in Ends, NEW g \in Own(e), NEW s, pc' = [pc EXCEPT ![g] = s],
             UNCHANGED <<messageMutex, rawMutex>>,
             pc[g] \notin {"lockRaw", "put"}, s \notin {"lockRaw", "put"},
             g = App(e) => s \notin {"read", "acknowledged", "handle"},
             g = Rd(e) => s # "idle"
      PROVE  MutexInv'
  <2>1. pc'[g] = s /\ \A h \in Goroutines \ {g} : pc'[h] = pc[h]
    BY <1>1, <1>2 DEF Types
  <2>2. Holds(e)'
    BY <1>1, <1>2, <2>1 DEF Holds, Own
  <2> QED
    BY <1>1, <1>2, <2>1, <2>2, HoldsElsewhere
<1>3. ASSUME NEW e \in Ends, NEW g \in Own(e), LockMessage(e, g) PROVE MutexInv'
  <2>1. /\ messageMutex[e] = Nobody /\ messageMutex' = [messageMutex EXCEPT ![e] = g]
        /\ pc[g] = "lock" /\ pc' = [pc EXCEPT ![g] = "lockRaw"] /\ UNCHANGED rawMutex
    BY <1>3 DEF LockMessage, MayLockMessage
  <2>2. /\ pc'[g] = "lockRaw" /\ \A h \in Goroutines \ {g} : pc'[h] = pc[h]
        /\ messageMutex'[e] = g /\ \A f \in Ends \ {e} : messageMutex'[f] = messageMutex[f]
    BY <1>1, <2>1 DEF Types
  <2>3. Holds(e)'
    BY <1>1, <2>1, <2>2 DEF Holds, Own
  <2> QED
    BY <1>1, <2>1, <2>2, <2>3, HoldsElsewhere
<1>4. ASSUME NEW e \in Ends, NEW g \in Own(e), LockRaw(e, g) PROVE MutexInv'
  <2>1. /\ rawMutex[e] = Nobody /\ rawMutex' = [rawMutex EXCEPT ![e] = g]
        /\ pc[g] = "lockRaw" /\ pc' = [pc EXCEPT ![g] = "put"] /\ UNCHANGED messageMutex
    BY <1>4 DEF LockRaw, MayLockRaw
  <2>2. /\ pc'[g] = "put" /\ \A h \in Goroutines \ {g} : pc'[h] = pc[h]
        /\ rawMutex'[e] = g /\ \A f \in Ends \ {e} : rawMutex'[f] = rawMutex[f]
    BY <1>1, <2>1 DEF Types
  <2>3. Holds(e)'
    BY <1>1, <2>1, <2>2 DEF Holds, Own
  <2> QED
    BY <1>1, <2>1, <2>2, <2>3, HoldsElsewhere
<1>5. ASSUME NEW e \in Ends, NEW g \in Own(e), Unlock(e, g) PROVE MutexInv'
  <2> DEFINE s == CASE g = App(e) -> "idle"
                    [] g = Rd(e) /\ current[e] # NoChunk -> "acknowledged"
                    [] OTHER -> "read"
  <2>1. /\ messageMutex' = [messageMutex EXCEPT ![e] = Nobody]
        /\ rawMutex' = [rawMutex EXCEPT ![e] = Nobody]
        /\ pc[g] = "put" /\ pc' = [pc EXCEPT ![g] = s]
    BY <1>5 DEF Unlock, MayUnlock
  <2>2. /\ s \notin {"lockRaw", "put", "lock"} /\ (g = App(e) => s = "idle")
        /\ g = Rd(e) => s # "idle"
    BY <1>1
  <2> HIDE DEF s
  <2>3. /\ pc'[g] = s /\ \A h \in Goroutines \ {g} : pc'[h] = pc[h]
        /\ messageMutex'[e] = Nobody /\ rawMutex'[e] = Nobody
        /\ \A f \in Ends \ {e} : messageMutex'[f] = messageMutex[f] /\ rawMutex'[f] = rawMutex[f]
    BY <1>1, <2>1 DEF Types
  <2>4. Holds(e)'
    BY <1>1, <2>1, <2>2, <2>3 DEF Holds, Own
  <2> QED
    BY <1>1, <2>3, <2>4, HoldsElsewhere
<1>6. ASSUME NEW e \in Ends, NEW g \in Own(e), Put(e, g) PROVE MutexInv'
  BY <1>6 DEF Put, MutexInv, Holds
<1>7. ASSUME NEW e \in Ends, ReadChunk(e) PROVE MutexInv'
  <2>1. PICK s \in {"lock", "handle"} : pc' = [pc EXCEPT ![Rd(e)] = s]
    BY <1>7 DEF ReadChunk
  <2>2. pc[Rd(e)] = "read" /\ UNCHANGED <<messageMutex, rawMutex>>
    BY <1>7 DEF ReadChunk, MayReadChunk
  <2> QED
    BY <1>1, <1>2, <2>1, <2>2
<1>8. ASSUME NEW e \in Ends, AckWritten(e) PROVE MutexInv'
  <2>1. /\ pc[Rd(e)] = "acknowledged" /\ pc' = [pc EXCEPT ![Rd(e)] = "handle"]
        /\ UNCHANGED <<messageMutex, rawMutex>>
    BY <1>8 DEF AckWritten
  <2> QED
    BY <1>1, <1>2, <2>1
<1>9. ASSUME NEW e \in Ends, Handle(e) \/ SetAcknowledgeValue(e) PROVE MutexInv'
  <2>1. PICK s \in {"lock", "read"} : pc' = [pc EXCEPT ![Rd(e)] = s]
    BY <1>9 DEF Handle, SetAcknowledgeValue
  <2>2. pc[Rd(e)] = "handle" /\ UNCHANGED <<messageMutex, rawMutex>>
    BY <1>9 DEF Handle, MayHandle, SetAcknowledgeValue, MaySetAcknowledge
  <2> QED
    BY <1>1, <1>2, <2>1, <2>2
<1>10. ASSUME NEW e \in Ends, AppWrite(e) PROVE MutexInv'
  <2>1. /\ pc[App(e)] = "idle" /\ pc' = [pc EXCEPT ![App(e)] = "lock"]
        /\ UNCHANGED <<messageMutex, rawMutex>>
    BY <1>10 DEF AppWrite
  <2> QED
    BY <1>1, <1>2, <2>1
<1>11. CASE UNCHANGED vars
  BY <1>11 DEF vars, MutexInv, Holds
<1> QED
  BY <1>1, <1>3, <1>4, <1>5, <1>6, <1>7, <1>8, <1>9, <1>10, <1>11
  DEF Next, Progress, Writing, Reading

\* A pipe with nothing in it holds no bytes.
LEMMA EmptyPipe ==
  ASSUME Types, Balanced, NEW e \in Ends, pipe[e] = <<>>
  PROVE  InPipe(e) = 0
<1>1. Offsets(<<>>, received[Peer(e)], sent[e])
  BY DEF Balanced
<1>2. sent[e] = received[Peer(e)] /\ sent[e] \in Nat
  BY <1>1, TwoEnds DEF Offsets, Types
<1> QED
  BY <1>2 DEF InPipe

\* An end that is not in a full Conn.Write has a step, or nothing to do but to read
\* an empty pipe.
LEMMA EndRuns ==
  ASSUME Types, NEW e \in Ends, Holds(e), ~Full(e, App(e)), ~Full(e, Rd(e)),
         ~MayWrite(e, App(e)), ~MayWrite(e, Rd(e)), ~MayRead(e)
  PROVE  pc[App(e)] = "idle" /\ pc[Rd(e)] = "read" /\ pipe[Peer(e)] = <<>>
<1>1. /\ App(e) \in Goroutines /\ Rd(e) \in Goroutines /\ App(e) # Nobody /\ Rd(e) # Nobody
      /\ Own(e) = {App(e), Rd(e)}
  BY FourGoroutines DEF Own
<1>2. ASSUME NEW g \in Own(e) PROVE pc[g] # "put"
  <2> SUFFICES ASSUME pc[g] = "put" PROVE FALSE
    OBVIOUS
  <2>1. ~MayWrite(e, g) /\ ~Full(e, g) /\ g \in Goroutines
    BY <1>1
  <2>2. todo[g] # <<>> /\ InPipe(e) \in Int /\ todo[g] \in Seq(ChunkType)
    <3>1. todo[g] # <<>>
      BY <2>1 DEF MayWrite, MayUnlock
    <3>2. todo[g] \in Seq(ChunkType)
      BY <2>1 DEF Types
    <3>3. sent[e] \in Nat /\ received[Peer(e)] \in Nat
      BY TwoEnds DEF Types
    <3> QED
      BY <3>1, <3>2, <3>3 DEF InPipe
  <2>3. Head(todo[g]).size \in Int
    <3>1. Head(todo[g]) \in ChunkType
      BY <2>2
    <3> QED
      BY <3>1, ChunkKinds
  <2>4. ~(InPipe(e) + Head(todo[g]).size <= Capacity) /\ ~(InPipe(e) + Head(todo[g]).size > Capacity)
    BY <2>1, <2>2 DEF MayWrite, MayPut, Full
  <2> QED
    BY <2>2, <2>3, <2>4, DuplexAssumption
<1>3. rawMutex[e] = Nobody
  BY <1>1, <1>2 DEF Holds
<1>4. ASSUME NEW g \in Own(e) PROVE pc[g] # "lockRaw"
  BY <1>1, <1>3 DEF MayWrite, MayLockRaw
<1>5. messageMutex[e] = Nobody
  BY <1>1, <1>2, <1>4 DEF Holds
<1>6. ASSUME NEW g \in Own(e) PROVE pc[g] # "lock"
  BY <1>1, <1>5 DEF MayWrite, MayLockMessage
<1>7. pc[App(e)] = "idle"
  BY <1>1, <1>2, <1>4, <1>6 DEF Types, Holds
<1>8. pc[Rd(e)] = "read"
  BY <1>1, <1>2, <1>3, <1>4, <1>6 DEF Types, Holds, MayRead, MayHandle, MaySetAcknowledge
<1> QED
  BY <1>7, <1>8 DEF MayRead, MayReadChunk

\* The goroutines of the two ends, with two mutexes each and a connection that holds
\* a limited number of bytes, block each other only when both directions are full:
\* no mutex held across a write is by itself the reason
\* (rawmessage/writer.go:205-218, message/writer.go:55-79).
THEOREM OnlyFullBlocks == Spec => []BlockedOnlyWhenFull
<1> DEFINE BlockInv == Types /\ Balanced /\ MutexInv
<1>1. BlockInv => BlockedOnlyWhenFull
  <2> SUFFICES ASSUME BlockInv, ~Runnable, NEW e \in Ends, ~Full(e, App(e)), ~Full(e, Rd(e))
               PROVE  Quiet
    BY DEF BlockedOnlyWhenFull
  <2> DEFINE f == Peer(e)
  <2>1. f \in Ends /\ e = Peer(f) /\ \A d \in Ends : d = e \/ d = f
    BY TwoEnds
  <2>2. \A d \in Ends : ~MayWrite(d, App(d)) /\ ~MayWrite(d, Rd(d)) /\ ~MayRead(d)
    BY DEF Runnable
  <2>3. pc[App(e)] = "idle" /\ pc[Rd(e)] = "read" /\ pipe[f] = <<>>
    BY <2>2, EndRuns DEF MutexInv
  <2>4. ASSUME NEW g \in Own(f) PROVE ~Full(f, g)
    <3> SUFFICES ASSUME Full(f, g) PROVE FALSE
      OBVIOUS
    <3>1. todo[g] # <<>> /\ todo[g] \in Seq(ChunkType) /\ InPipe(f) = 0
      BY <2>1, <2>3, EmptyPipe, FourGoroutines DEF Full, Own, Types
    <3>2. Head(todo[g]) \in ChunkType
      BY <3>1
    <3>3. Head(todo[g]).size \in Nat /\ Head(todo[g]).size <= Capacity
      BY <3>2, ChunkKinds
    <3>4. 0 + Head(todo[g]).size > Capacity
      BY <3>1 DEF Full
    <3> QED
      BY <3>3, <3>4, DuplexAssumption
  <2>5. pc[App(f)] = "idle" /\ pc[Rd(f)] = "read" /\ pipe[e] = <<>>
    BY <2>1, <2>2, <2>4, EndRuns DEF MutexInv, Own
  <2> QED
    BY <2>1, <2>3, <2>5 DEF Quiet
<1>2. Init => BlockInv
  BY InitTypes, InitBalanced, InitMutex
<1>3. BlockInv /\ [Next]_vars => BlockInv'
  BY NextTypes, NextBalanced, NextMutex
<1> QED
  BY <1>1, <1>2, <1>3, PTL DEF Spec
===============================================================================
