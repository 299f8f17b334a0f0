---------------------------- MODULE Session_proofs ----------------------------
(***************************************************************************)
(* Proofs about Session: what Initialize leaves behind, how often it       *)
(* dials, and what client and server agree upon when it succeeds, for all  *)
(* users, passwords and stream keys, and for both kinds of server.         *)
(***************************************************************************)
EXTENDS Session, TLAPS

(***************************************************************************)
(* What each side may have written.                                        *)
(***************************************************************************)
Auths ==
  {NoAuth} \cup
  (IF url.cred = NoCredentials THEN {}
   ELSE {[step |-> 1, user |-> url.cred.user, response |-> <<>>]}
        \cup {[step |-> 2, user |-> MyUser, response |-> Response(url.cred, n)] :
                n \in {NoNonce, ServerNonce}})

TheAction == Action(IF url.publish THEN "publish" ELSE "play", ActionId, url.key)

FromClient ==
  {Control, Hello("C0C1"), Hello("C2"), TheAction}
    \cup {Connect(auth) : auth \in Auths}
    \cup {Command(name, id) : name \in {"releaseStream", "FCPublish", "createStream"},
                              id \in Nat}

\* An onStatus of level "status" tells that the application accepted an action.
FromServer(accepted) ==
  {Control, Hello("S0S1S2"), Command("onBWDone", 0)}
    \cup {Error(desc) : desc \in {"needauth", "challenge", "authfailed"}}
    \cup {Result(id, ok) : id \in Nat, ok \in BOOLEAN}
    \cup {OnStatus(id, "error") : id \in Nat}
    \cup (IF accepted THEN {OnStatus(id, "status") : id \in Nat} ELSE {})

ClientType ==
  [pc : {"dial", "write", "wait", "leave", "join", "returned"}, res : {"ok", "auth", "error"},
   authState : Nat, nonce : {NoNonce, ServerNonce}, todo : Seq(FromClient),
   wait : {"S0S1S2", "connect", "create", "status"}, dials : Nat]

ServerType(accepted) ==
  [pc : {"wait", "write", "decide", "active", "close", "closed"},
   wait : {"C0C1", "C2", "connect", "action"}, todo : Seq(FromServer(accepted)),
   then : {"wait", "close", "active"}, key : Keys \cup {""},
   publish : BOOLEAN, id : Nat, actionAccepted : {accepted}]

ConnType(accepted) ==
  [client : BOOLEAN, server : BOOLEAN, lost : BOOLEAN, c2s : Seq(FromClient),
   s2c : Seq(FromServer(accepted))]

Types ==
  /\ url \in [cred : Credentials, key : Keys, publish : BOOLEAN]
  /\ config \in [cred : Credentials, reject : BOOLEAN, failures : BOOLEAN]
  /\ client \in ClientType
  /\ closer \in {"none", "waiting", "done"}
  /\ cancelled \in BOOLEAN
  /\ server.actionAccepted \in BOOLEAN
  /\ server \in ServerType(server.actionAccepted)
  /\ conn \in ConnType(server.actionAccepted)
  /\ client.pc = "write" => client.todo # <<>>
  /\ server.pc = "write" => server.todo # <<>>

LEMMA ClientMessages ==
  ASSUME Types
  PROVE  /\ Control \in FromClient /\ Hello("C0C1") \in FromClient /\ Hello("C2") \in FromClient
         /\ Action("publish", ActionId, url.key) \in FromClient \/ ~url.publish
         /\ Action("play", ActionId, url.key) \in FromClient \/ url.publish
         /\ \A auth \in Auths : Connect(auth) \in FromClient
         /\ \A id \in Nat : /\ Command("releaseStream", id) \in FromClient
                            /\ Command("FCPublish", id) \in FromClient
                            /\ Command("createStream", id) \in FromClient
BY DEF FromClient, TheAction, Types

LEMMA ServerMessages ==
  ASSUME NEW acc \in BOOLEAN
  PROVE  /\ Control \in FromServer(acc) /\ Hello("S0S1S2") \in FromServer(acc)
         /\ Command("onBWDone", 0) \in FromServer(acc)
         /\ \A desc \in {"needauth", "challenge", "authfailed"} : Error(desc) \in FromServer(acc)
         /\ \A id \in Nat, ok \in BOOLEAN : Result(id, ok) \in FromServer(acc)
         /\ \A id \in Nat : OnStatus(id, "error") \in FromServer(acc)
         /\ \A id \in Nat : acc => OnStatus(id, "status") \in FromServer(acc)
         /\ FromServer(acc) \subseteq FromServer(TRUE)
BY DEF FromServer

\* What a message tells from its name.
LEMMA ClientShapes ==
  ASSUME Types, NEW m \in FromClient
  PROVE  /\ m.name = "connect" => m.auth \in Auths
         /\ m.name \in {"play", "publish"} =>
              m.key = url.key /\ m.id \in Nat /\ (m.name = "publish") = url.publish
         /\ m.name \in {"createStream", "releaseStream", "FCPublish"} => m.id \in Nat
<1>1. ActionId \in Nat /\ url.publish \in BOOLEAN
  BY DEF ActionId, Types
<1>2. CASE m \in {Control, Hello("C0C1"), Hello("C2")}
  BY <1>2 DEF Control, Hello
<1>3. CASE m = TheAction
  BY <1>1, <1>3 DEF TheAction, Action
<1>4. CASE m \in {Connect(auth) : auth \in Auths}
  BY <1>4 DEF Connect
<1>5. CASE m \in {Command(name, id) : name \in {"releaseStream", "FCPublish", "createStream"},
                              id \in Nat}
  BY <1>5 DEF Command
<1> QED
  BY <1>2, <1>3, <1>4, <1>5 DEF FromClient

LEMMA ServerShapes ==
  ASSUME NEW acc \in BOOLEAN, NEW m \in FromServer(acc), m.name = "onStatus",
         m.level = "status"
  PROVE  acc
<1>1. m \notin {Control, Hello("S0S1S2"), Command("onBWDone", 0)}
  BY DEF Control, Hello, Command
<1>2. m \notin {Error(desc) : desc \in {"needauth", "challenge", "authfailed"}}
  BY DEF Error
<1>3. m \notin {Result(id, ok) : id \in Nat, ok \in BOOLEAN}
  BY DEF Result
<1>4. m \notin {OnStatus(id, "error") : id \in Nat}
  BY DEF OnStatus
<1> QED
  BY <1>1, <1>2, <1>3, <1>4 DEF FromServer

LEMMA Queues ==
  ASSUME NEW S, NEW q \in Seq(S)
  PROVE  /\ <<>> \in Seq(S)
         /\ \A m \in S : Append(q, m) \in Seq(S) /\ Append(q, m) # <<>>
         /\ q # <<>> => /\ Head(q) \in S /\ Tail(q) \in Seq(S)
                        /\ Len(q) # 1 => Tail(q) # <<>>
<1>1. <<>> \in Seq(S)
  OBVIOUS
<1>2. ASSUME NEW m \in S PROVE Append(q, m) \in Seq(S) /\ Append(q, m) # <<>>
  <2>1. Append(q, m) \in Seq(S) /\ Len(Append(q, m)) = Len(q) + 1 /\ Len(q) \in Nat
    OBVIOUS
  <2>2. Len(Append(q, m)) # 0
    BY <2>1
  <2> QED
    BY <2>1, <2>2
<1>3. ASSUME q # <<>> PROVE Head(q) \in S /\ Tail(q) \in Seq(S)
  BY <1>3
<1>4. ASSUME q # <<>>, Len(q) # 1 PROVE Tail(q) # <<>>
  <2>1. Len(Tail(q)) = Len(q) - 1 /\ Len(q) \in Nat
    BY <1>4
  <2>2. Len(Tail(q)) # 0
    BY <1>4, <2>1
  <2>3. Len(<<>>) = 0
    OBVIOUS
  <2> QED
    BY <2>2, <2>3
<1> QED
  BY <1>1, <1>2, <1>3, <1>4

\* Closing only ever closes one side, and only loses messages.
LEMMA Closing ==
  ASSUME NEW acc \in BOOLEAN, NEW cn \in ConnType(acc)
  PROVE  /\ \A c \in ClosedByClient(cn) : c \in ConnType(acc) /\ ~c.client
         /\ \A c \in ClosedByServer(cn) : c \in ConnType(acc) /\ c.client = cn.client
<1>1. <<>> \in Seq(FromClient) /\ <<>> \in Seq(FromServer(acc))
  OBVIOUS
<1>2. ASSUME NEW c \in ClosedByClient(cn) PROVE c \in ConnType(acc) /\ ~c.client
  <2>1. c = [cn EXCEPT !.client = FALSE] \/ c = [cn EXCEPT !.client = FALSE, !.c2s = <<>>]
    BY <1>2 DEF ClosedByClient
  <2> QED
    BY <1>1, <2>1 DEF ConnType
<1>3. ASSUME NEW c \in ClosedByServer(cn) PROVE c \in ConnType(acc) /\ c.client = cn.client
  <2>1. c = [cn EXCEPT !.server = FALSE] \/ c = [cn EXCEPT !.server = FALSE, !.s2c = <<>>]
    BY <1>3 DEF ClosedByServer
  <2> QED
    BY <1>1, <2>1 DEF ConnType
<1> QED
  BY <1>2, <1>3

\* The answers to publish and play.
LEMMA Answers ==
  ASSUME NEW S, NEW c \in S, NEW d \in S
  PROVE  /\ <<c>> \in Seq(S) /\ <<c>> # <<>>
         /\ <<d, d, c, c, c, c>> \in Seq(S) /\ <<d, d, c, c, c, c>> # <<>>
<1>1. <<c>> \in Seq(S) /\ <<d, d, c, c, c, c>> \in Seq(S)
  OBVIOUS
<1>2. Len(<<c>>) = 1 /\ Len(<<d, d, c, c, c, c>>) = 6 /\ Len(<<>>) = 0
  OBVIOUS
<1> QED
  BY <1>1, <1>2

LEMMA WiderQueue ==
  ASSUME NEW S, NEW T, S \subseteq T, NEW q \in Seq(S)
  PROVE  q \in Seq(T)
OBVIOUS

LEMMA Widening ==
  ASSUME NEW acc \in BOOLEAN, NEW cn \in ConnType(acc)
  PROVE  cn \in ConnType(TRUE)
<1>1. FromServer(acc) \subseteq FromServer(TRUE)
  BY ServerMessages
<1>2. \A q \in Seq(FromServer(acc)) : q \in Seq(FromServer(TRUE))
  BY <1>1, WiderQueue
<1> QED
  BY <1>2 DEF ConnType

(***************************************************************************)
(* The inductive invariant.                                                *)
(***************************************************************************)

\* Initialize dials again at most twice, after it has closed the connection and
\* waited for the goroutine that could close it.
InTurn ==
  /\ client.authState >= 1 => url.cred # NoCredentials
  /\ client.pc \in {"dial", "returned"} => closer = "none"
  /\ client.pc = "dial" =>
       ~conn.client /\ client.dials = client.authState /\ client.authState <= 2
  /\ client.pc \in {"write", "wait", "leave", "join"} => client.dials = client.authState + 1
  /\ client.pc \in {"write", "wait"} => client.authState <= 2
  /\ client.pc \in {"leave", "join"} /\ client.res = "auth" =>
       client.authState <= 1 /\ url.cred # NoCredentials
  /\ client.pc \in {"join", "returned"} /\ client.res # "ok" => ~conn.client

\* The action that the application accepts is the client's.
Told ==
  /\ server.pc = "decide" \/ server.actionAccepted =>
       server.publish = url.publish /\ server.key = url.key
  /\ server.pc = "decide" => server.wait = "action"
  /\ client.pc \in {"leave", "join", "returned"} /\ client.res = "ok" => server.actionAccepted

Inv == Types /\ InTurn /\ Told /\ OnlyWithCredentials

LEMMA InitInv == Init => Inv
<1> SUFFICES ASSUME Init PROVE Inv
  OBVIOUS
<1>1. /\ client = [pc |-> "dial", res |-> "ok", authState |-> 0, nonce |-> NoNonce,
                   todo |-> <<>>, wait |-> "S0S1S2", dials |-> 0]
      /\ server = [pc |-> "closed", wait |-> "C0C1", todo |-> <<>>, then |-> "wait",
                   key |-> "", publish |-> FALSE, id |-> 0,
                   actionAccepted |-> FALSE]
      /\ conn = [client |-> FALSE, server |-> FALSE, lost |-> FALSE, c2s |-> <<>>,
                 s2c |-> <<>>]
  BY DEF Init, NewServer, NoConn, NewConn
<1>2. <<>> \in Seq(FromClient) /\ <<>> \in Seq(FromServer(FALSE))
  OBVIOUS
<1>3. Types
  <2>1. client \in ClientType
    BY <1>1, <1>2 DEF ClientType
  <2>2. server \in ServerType(FALSE) /\ conn \in ConnType(FALSE)
    BY <1>1, <1>2 DEF ServerType, ConnType
  <2>3. server.actionAccepted = FALSE /\ client.pc # "write" /\ server.pc # "write"
    BY <1>1
  <2> HIDE DEF ClientType, ServerType, ConnType
  <2> QED
    BY <2>1, <2>2, <2>3 DEF Init, Types
<1>4. InTurn
  <2>1. client.pc = "dial" /\ client.authState = 0 /\ client.dials = 0 /\ ~conn.client
    BY <1>1
  <2>2. ~(client.authState >= 1) /\ client.authState <= 2
    BY <2>1
  <2> QED
    BY <2>1, <2>2 DEF Init, InTurn
<1>5. Told /\ OnlyWithCredentials
  BY <1>1 DEF Told, OnlyWithCredentials
<1> QED
  BY <1>3, <1>4, <1>5 DEF Inv

LEMMA SameUrl == url' = url => FromClient' = FromClient
BY DEF FromClient, Auths, TheAction, ActionId, Action, Response

LEMMA StillTyped ==
  ASSUME Types, url' = url, config' = config, closer' \in {"none", "waiting", "done"},
         cancelled' \in BOOLEAN, NEW acc \in BOOLEAN,
         client' \in ClientType, server' \in ServerType(acc), conn' \in ConnType(acc),
         client'.pc = "write" => client'.todo # <<>>,
         server'.pc = "write" => server'.todo # <<>>
  PROVE  Types' /\ server'.actionAccepted = acc
<1>1. FromClient' = FromClient
  BY SameUrl
<1>2. server'.actionAccepted = acc
  BY DEF ServerType
<1>3. ClientType' = ClientType /\ ConnType(acc)' = ConnType(acc)
  BY <1>1 DEF ClientType, ConnType
<1>4. /\ url' \in [cred : Credentials, key : Keys, publish : BOOLEAN]
      /\ config' \in [cred : Credentials, reject : BOOLEAN, failures : BOOLEAN]
  BY DEF Types
<1>5. FromServer(server.actionAccepted)' = FromServer(acc)
  BY <1>2 DEF FromServer
<1>6. ConnType(server.actionAccepted)' = ConnType(acc)
  BY <1>1, <1>5 DEF ConnType
<1>7. ServerType(server.actionAccepted)' = ServerType(acc)
  BY <1>2, <1>5 DEF ServerType
<1> QED
  BY <1>2, <1>3, <1>4, <1>6, <1>7 DEF Types

(***************************************************************************)
(* The client's steps.                                                     *)
(***************************************************************************)
LEMMA DialInv == Inv /\ Dial => Inv'
<1> SUFFICES ASSUME Inv, Dial PROVE Inv'
  OBVIOUS
<1>1. Types /\ InTurn /\ client.pc = "dial" /\ client \in ClientType /\ url' = url /\ config' = config
  BY DEF Inv, Dial, Types
<1>2. /\ client' = [client EXCEPT !.pc = "write", !.todo = <<Hello("C0C1")>>,
                                  !.wait = "S0S1S2", !.dials = client.dials + 1]
      /\ server' = [pc |-> "wait", wait |-> "C0C1", todo |-> <<>>, then |-> "wait",
                    key |-> "", publish |-> FALSE, id |-> 0,
                    actionAccepted |-> FALSE]
      /\ conn' = [client |-> TRUE, server |-> TRUE, lost |-> FALSE, c2s |-> <<>>,
                  s2c |-> <<>>]
      /\ closer' = "waiting" /\ UNCHANGED <<url, config, cancelled>>
  BY DEF Dial, NewServer, NewConn
<1>3. <<Hello("C0C1")>> \in Seq(FromClient) /\ <<Hello("C0C1")>> # <<>>
  <2>1. Hello("C0C1") \in FromClient
    BY <1>1, ClientMessages
  <2> QED
    BY <2>1
<1>4. <<>> \in Seq(FromClient) /\ <<>> \in Seq(FromServer(FALSE))
  OBVIOUS
<1>5. /\ client' \in ClientType /\ client'.pc = "write" /\ client'.todo # <<>>
      /\ client'.dials = client.dials + 1 /\ client'.authState = client.authState
  <2>1. client.dials + 1 \in Nat
    BY <1>1 DEF ClientType
  <2> QED
    BY <1>1, <1>2, <1>3, <2>1 DEF ClientType
<1>6. server' \in ServerType(FALSE) /\ conn' \in ConnType(FALSE)
  BY <1>2, <1>4 DEF ServerType, ConnType
<1>7. Types'
  <2>1. closer' \in {"none", "waiting", "done"} /\ cancelled' \in BOOLEAN /\ server'.pc # "write"
    BY <1>1, <1>2 DEF Types
  <2> QED
    BY <1>1, <1>5, <1>6, <2>1, StillTyped
<1>8. InTurn'
  BY <1>1, <1>2, <1>5 DEF InTurn
<1>9. Told' /\ OnlyWithCredentials'
  BY <1>2, <1>5 DEF Told, OnlyWithCredentials
<1> QED
  BY <1>7, <1>8, <1>9 DEF Inv

\* A step of the client that leaves the server alone.
LEMMA ClientAlone ==
  ASSUME Inv, UNCHANGED <<url, config, cancelled, server>>,
         closer' \in {"none", "waiting", "done"}, client' \in ClientType,
         conn' \in ConnType(server.actionAccepted),
         client'.pc = "write" => client'.todo # <<>>, InTurn',
         client'.pc \in {"leave", "join", "returned"} /\ client'.res = "ok" =>
           server.actionAccepted
  PROVE  Inv'
<1>1. PICK acc \in BOOLEAN : acc = server.actionAccepted
  BY DEF Inv, Types
<1>2. /\ server' \in ServerType(acc) /\ conn' \in ConnType(acc) /\ cancelled' \in BOOLEAN
      /\ server'.pc = "write" => server'.todo # <<>>
  BY <1>1 DEF Inv, Types
<1>3. Types'
  BY <1>2, StillTyped DEF Inv
<1>4. Told' /\ OnlyWithCredentials'
  BY DEF Inv, Told, OnlyWithCredentials
<1> QED
  BY <1>3, <1>4 DEF Inv

LEMMA DialFailsInv == Inv /\ DialFails => Inv'
<1> SUFFICES ASSUME Inv, DialFails PROVE Inv'
  OBVIOUS
<1>1. client \in ClientType /\ conn \in ConnType(server.actionAccepted) /\ InTurn
      /\ closer \in {"none", "waiting", "done"}
  BY DEF Inv, Types
<1>2. /\ client' \in ClientType /\ client'.pc = "returned" /\ client'.res = "error"
      /\ client'.authState = client.authState
  BY <1>1 DEF DialFails, ClientType
<1>3. InTurn'
  BY <1>1, <1>2 DEF DialFails, InTurn
<1> QED
  BY <1>1, <1>2, <1>3, ClientAlone DEF DialFails

LEMMA ClientWritesInv == Inv /\ ClientWrites => Inv'
<1> SUFFICES ASSUME Inv, ClientWrites PROVE Inv'
  OBVIOUS
<1>1. client \in ClientType /\ conn \in ConnType(server.actionAccepted) /\ InTurn
      /\ closer \in {"none", "waiting", "done"} /\ client.pc = "write" /\ client.todo # <<>>
  BY DEF Inv, Types, ClientWrites
<1>2. ASSUME conn' = [conn EXCEPT !.c2s = Append(conn.c2s, Head(client.todo))],
             client' = [client EXCEPT !.todo = Tail(client.todo),
                          !.pc = IF Len(client.todo) = 1 THEN "wait" ELSE "write"]
      PROVE  Inv'
  <2>1. /\ Head(client.todo) \in FromClient /\ Tail(client.todo) \in Seq(FromClient)
        /\ Len(client.todo) # 1 => Tail(client.todo) # <<>>
    <3>1. client.todo \in Seq(FromClient)
      BY <1>1 DEF ClientType
    <3> QED
      BY <1>1, <3>1, Queues
  <2>2. Append(conn.c2s, Head(client.todo)) \in Seq(FromClient)
    <3>1. conn.c2s \in Seq(FromClient)
      BY <1>1 DEF ConnType
    <3> QED
      BY <2>1, <3>1, Queues
  <2>3. conn' \in ConnType(server.actionAccepted) /\ conn'.client = conn.client
    BY <1>1, <1>2, <2>2 DEF ConnType
  <2>4. /\ client' \in ClientType /\ client'.pc \in {"wait", "write"}
        /\ client'.pc = "write" => client'.todo # <<>>
        /\ client'.authState = client.authState /\ client'.dials = client.dials
    BY <1>1, <1>2, <2>1 DEF ClientType
  <2>5. InTurn'
    BY <1>1, <2>3, <2>4 DEF InTurn, ClientWrites
  <2> QED
    BY <1>1, <2>3, <2>4, <2>5, ClientAlone DEF ClientWrites
<1>3. ASSUME Leave("error"), UNCHANGED conn PROVE Inv'
  <2>1. /\ client' \in ClientType /\ client'.pc = "leave" /\ client'.res = "error"
        /\ client'.authState = client.authState /\ client'.dials = client.dials
    <3>1. <<>> \in Seq(FromClient)
      OBVIOUS
    <3> QED
      BY <1>1, <1>3, <3>1 DEF ClientType, Leave
  <2>2. InTurn'
    BY <1>1, <1>3, <2>1 DEF InTurn, ClientWrites
  <2> QED
    BY <1>1, <1>3, <2>1, <2>2, ClientAlone DEF ClientWrites
<1> QED
  BY <1>2, <1>3 DEF ClientWrites

LEMMA GoesOn ==
  ASSUME Inv, client.pc = "wait", UNCHANGED <<url, config, closer, cancelled, server>>,
         conn' \in ConnType(server.actionAccepted), conn'.client = conn.client,
         client' \in ClientType,
         client'.authState = client.authState, client'.dials = client.dials,
         \/ client'.pc = "wait"
         \/ client'.pc = "write" /\ client'.todo # <<>>
         \/ /\ client'.pc = "leave"
            /\ client'.res = "ok" => server.actionAccepted
            /\ client'.res = "auth" => client.authState <= 1 /\ url.cred # NoCredentials
  PROVE  Inv'
<1>1. InTurn'
  BY DEF Inv, InTurn
<1>2. closer' \in {"none", "waiting", "done"}
  BY DEF Inv, Types
<1> QED
  BY <1>1, <1>2, ClientAlone

\* What initialize3 makes of the answers to its messages.
LEMMA ClientHandles ==
  ASSUME Inv, client.pc = "wait", NEW m \in FromServer(server.actionAccepted),
         \/ OnHello(m) \/ OnConnectResult(m) \/ OnCreateResult(m) \/ OnStatusReceived(m)
  PROVE  /\ client' \in ClientType
         /\ client'.authState = client.authState /\ client'.dials = client.dials
         /\ \/ client'.pc = "write" /\ client'.todo # <<>>
            \/ /\ client'.pc = "leave"
               /\ client'.res = "ok" => server.actionAccepted
               /\ client'.res = "auth" => client.authState <= 1 /\ url.cred # NoCredentials
<1> DEFINE Goal ==
         /\ client' \in ClientType
         /\ client'.authState = client.authState /\ client'.dials = client.dials
         /\ \/ client'.pc = "write" /\ client'.todo # <<>>
            \/ /\ client'.pc = "leave"
               /\ client'.res = "ok" => server.actionAccepted
               /\ client'.res = "auth" => client.authState <= 1 /\ url.cred # NoCredentials
<1>1. Types /\ InTurn /\ client \in ClientType
  BY DEF Inv, Types
<1>2. ASSUME NEW res \in {"ok", "auth", "error"}, Leave(res),
             res = "ok" => server.actionAccepted,
             res = "auth" => client.authState <= 1 /\ url.cred # NoCredentials
      PROVE  Goal
  <2>1. <<>> \in Seq(FromClient)
    OBVIOUS
  <2>2. /\ client' \in ClientType /\ client'.pc = "leave" /\ client'.res = res
        /\ client'.authState = client.authState /\ client'.dials = client.dials
    BY <1>1, <1>2, <2>1 DEF Leave, ClientType
  <2> QED
    BY <1>2, <2>2
<1>3. ASSUME NEW todo \in Seq(FromClient), todo # <<>>,
             NEW wait \in {"connect", "create", "status"}, Write(todo, wait)
      PROVE  Goal
  <2>1. /\ client' \in ClientType /\ client'.pc = "write" /\ client'.todo = todo
        /\ client'.authState = client.authState /\ client'.dials = client.dials
    BY <1>1, <1>3 DEF Write, ClientType
  <2> QED
    BY <1>3, <2>1
<1> SUFFICES Goal
  OBVIOUS
<1> HIDE DEF Goal
<1>4. Leave("error") => Goal
  BY <1>2
<1>5. CASE OnHello(m)
  <2>1. Auth \in Auths
    <3>1. client.nonce \in {NoNonce, ServerNonce} /\ client.authState \in Nat
      BY <1>1 DEF ClientType
    <3>2. client.authState # 0 => url.cred # NoCredentials
      BY <1>1, <3>1 DEF InTurn
    <3> QED
      BY <3>1, <3>2 DEF Auth, Auths
  <2>2. PICK todo : todo = <<Hello("C2"), Control, Control, Control, Connect(Auth)>>
    OBVIOUS
  <2>3. todo \in Seq(FromClient) /\ todo # <<>>
    <3>1. Hello("C2") \in FromClient /\ Control \in FromClient /\ Connect(Auth) \in FromClient
      BY <1>1, <2>1, ClientMessages
    <3> QED
      BY <2>2, <3>1
  <2> QED
    BY <1>3, <1>4, <1>5, <2>2, <2>3 DEF OnHello
<1>6. CASE OnConnectResult(m)
  <2>1. CASE m.name = "_result"
    <3>1. PICK todo : todo = IF url.publish
               THEN <<Command("releaseStream", 2), Command("FCPublish", 3),
                      Command("createStream", CreateId)>>
               ELSE <<Command("createStream", CreateId)>>
      OBVIOUS
    <3>2. todo \in Seq(FromClient) /\ todo # <<>>
      <4>1. CreateId \in Nat
        BY DEF CreateId
      <4>2. /\ Command("releaseStream", 2) \in FromClient
            /\ Command("FCPublish", 3) \in FromClient
            /\ Command("createStream", CreateId) \in FromClient
        BY <1>1, <4>1, ClientMessages
      <4> QED
        BY <3>1, <4>2
    <3>3. Write(todo, "create")
      BY <1>6, <2>1, <3>1 DEF OnConnectResult
    <3> QED
      BY <1>3, <3>2, <3>3
  <2>2. CASE m.name = "_error" /\ m.desc = "needauth"
    <3>1. Leave(IF url.cred # NoCredentials /\ client.authState = 0 THEN "auth" ELSE "error")
      BY <1>6, <2>2 DEF OnConnectResult
    <3>2. CASE url.cred # NoCredentials /\ client.authState = 0
      <4>1. client.authState <= 1
        BY <3>2
      <4> QED
        BY <1>2, <3>1, <3>2, <4>1
    <3>3. CASE ~(url.cred # NoCredentials /\ client.authState = 0)
      BY <1>4, <3>1, <3>3
    <3> QED
      BY <3>2, <3>3
  <2>3. CASE m.name = "_error" /\ m.desc = "challenge" /\ client.authState = 1
    <3>1. client' = [client EXCEPT !.pc = "leave", !.res = "auth", !.nonce = ServerNonce]
      BY <1>6, <2>3 DEF OnConnectResult
    <3>2. client.authState <= 1 /\ url.cred # NoCredentials
      BY <1>1, <2>3 DEF InTurn
    <3>3. /\ client' \in ClientType /\ client'.pc = "leave" /\ client'.res = "auth"
          /\ client'.authState = client.authState /\ client'.dials = client.dials
      BY <1>1, <3>1 DEF ClientType
    <3> QED
      BY <3>2, <3>3 DEF Goal
  <2>4. CASE m.name # "_result" /\ ~(m.name = "_error" /\ m.desc = "needauth")
             /\ ~(m.name = "_error" /\ m.desc = "challenge" /\ client.authState = 1)
    BY <1>4, <1>6, <2>4 DEF OnConnectResult
  <2> QED
    BY <2>1, <2>2, <2>3, <2>4
<1>7. CASE OnCreateResult(m)
  <2>1. PICK todo : todo = IF url.publish
             THEN <<Action("publish", ActionId, url.key)>>
             ELSE <<Control, Action("play", ActionId, url.key)>>
    OBVIOUS
  <2>2. todo \in Seq(FromClient) /\ todo # <<>>
    <3>1. /\ Control \in FromClient
          /\ Action("publish", ActionId, url.key) \in FromClient \/ ~url.publish
          /\ Action("play", ActionId, url.key) \in FromClient \/ url.publish
      BY <1>1, ClientMessages
    <3>2. url.publish \in BOOLEAN
      BY <1>1 DEF Types
    <3> QED
      BY <2>1, <3>1, <3>2
  <2> QED
    BY <1>3, <1>4, <1>7, <2>1, <2>2 DEF OnCreateResult
<1>8. CASE OnStatusReceived(m)
  <2>1. Leave(IF m.name = "onStatus" /\ m.level = "status" THEN "ok" ELSE "error")
    BY <1>8 DEF OnStatusReceived
  <2>2. ASSUME m.name = "onStatus", m.level = "status" PROVE server.actionAccepted
    <3>1. server.actionAccepted \in BOOLEAN
      BY <1>1 DEF Types
    <3> QED
      BY <2>2, <3>1, ServerShapes
  <2>3. CASE m.name = "onStatus" /\ m.level = "status"
    BY <1>2, <2>1, <2>2, <2>3
  <2>4. CASE ~(m.name = "onStatus" /\ m.level = "status")
    BY <1>4, <2>1, <2>4
  <2> QED
    BY <2>3, <2>4
<1> QED
  BY <1>5, <1>6, <1>7, <1>8

LEMMA ClientReadsInv == Inv /\ ClientReads => Inv'
<1> SUFFICES ASSUME Inv, ClientReads PROVE Inv'
  OBVIOUS
<1>1. client \in ClientType /\ conn \in ConnType(server.actionAccepted) /\ client.pc = "wait"
      /\ UNCHANGED <<url, config, closer, cancelled, server>>
  BY DEF Inv, Types, ClientReads
<1>2. ASSUME Leave("error"), UNCHANGED conn PROVE Inv'
  <2>1. <<>> \in Seq(FromClient)
    OBVIOUS
  <2>2. /\ client' \in ClientType /\ client'.pc = "leave" /\ client'.res = "error"
        /\ client'.authState = client.authState /\ client'.dials = client.dials
    BY <1>1, <1>2, <2>1 DEF Leave, ClientType
  <2> QED
    BY <1>1, <1>2, <2>2, GoesOn
<1>3. ASSUME ClientMayRead, conn' = [conn EXCEPT !.s2c = Tail(conn.s2c)],
             \/ UNCHANGED client
             \/ OnHello(Head(conn.s2c)) \/ OnConnectResult(Head(conn.s2c))
             \/ OnCreateResult(Head(conn.s2c)) \/ OnStatusReceived(Head(conn.s2c))
      PROVE  Inv'
  <2>1. conn.s2c \in Seq(FromServer(server.actionAccepted)) /\ conn.s2c # <<>>
    BY <1>1, <1>3 DEF ConnType, ClientMayRead
  <2>2. /\ Head(conn.s2c) \in FromServer(server.actionAccepted)
        /\ Tail(conn.s2c) \in Seq(FromServer(server.actionAccepted))
    BY <2>1, Queues
  <2>3. conn' \in ConnType(server.actionAccepted) /\ conn'.client = conn.client
    BY <1>1, <1>3, <2>2 DEF ConnType
  <2>4. CASE UNCHANGED client
    BY <1>1, <2>3, <2>4, GoesOn
  <2>5. CASE ~UNCHANGED client
    <3>1. PICK m : m = Head(conn.s2c)
      OBVIOUS
    <3>2. /\ client' \in ClientType
          /\ client'.authState = client.authState /\ client'.dials = client.dials
          /\ \/ client'.pc = "write" /\ client'.todo # <<>>
             \/ /\ client'.pc = "leave"
                /\ client'.res = "ok" => server.actionAccepted
                /\ client'.res = "auth" => client.authState <= 1 /\ url.cred # NoCredentials
      <4>1. \/ OnHello(m) \/ OnConnectResult(m) \/ OnCreateResult(m) \/ OnStatusReceived(m)
        BY <1>3, <2>5, <3>1
      <4> QED
        BY <1>1, <2>2, <3>1, <4>1, ClientHandles
    <3> QED
      BY <1>1, <2>3, <3>2, GoesOn
  <2> QED
    BY <2>4, <2>5
<1> QED
  BY <1>2, <1>3 DEF ClientReads

LEMMA ClientLeavesInv == Inv /\ ClientLeaves => Inv'
<1> SUFFICES ASSUME Inv, ClientLeaves PROVE Inv'
  OBVIOUS
<1>1. /\ client \in ClientType /\ conn \in ConnType(server.actionAccepted)
      /\ client.pc = "leave" /\ closer \in {"none", "waiting", "done"}
      /\ server.actionAccepted \in BOOLEAN /\ InTurn /\ Told
      /\ UNCHANGED <<url, config, closer, cancelled, server>>
      /\ client' = [client EXCEPT !.pc = "join"]
  BY DEF Inv, Types, ClientLeaves
<1>2. /\ conn' \in ConnType(server.actionAccepted)
      /\ client.res # "ok" => ~conn'.client
  <2>1. CASE client.res = "ok"
    BY <1>1, <2>1 DEF ClientLeaves
  <2>2. CASE client.res # "ok"
    <3>1. conn' \in ClosedByClient(conn)
      BY <2>2 DEF ClientLeaves
    <3> QED
      BY <1>1, <3>1, Closing
  <2> QED
    BY <2>1, <2>2
<1>3. /\ client' \in ClientType /\ client'.pc = "join" /\ client'.res = client.res
      /\ client'.authState = client.authState /\ client'.dials = client.dials
  BY <1>1 DEF ClientType
<1>4. InTurn'
  BY <1>1, <1>2, <1>3 DEF InTurn
<1>5. client'.res = "ok" => server.actionAccepted
  BY <1>1, <1>3 DEF Told
<1> QED
  BY <1>1, <1>2, <1>3, <1>4, <1>5, ClientAlone

LEMMA ClientJoinsInv == Inv /\ ClientJoins => Inv'
<1> SUFFICES ASSUME Inv, ClientJoins PROVE Inv'
  OBVIOUS
<1>1. /\ client \in ClientType /\ conn \in ConnType(server.actionAccepted)
      /\ client.pc = "join" /\ closer' = "none" /\ InTurn /\ Told
      /\ UNCHANGED <<url, config, cancelled, server, conn>>
      /\ client.authState \in Nat
  BY DEF Inv, Types, ClientJoins, ClientType
<1>2. CASE client.res = "auth"
  <2>1. client.authState + 1 \in Nat
    BY <1>1
  <2>2. /\ client' \in ClientType /\ client'.pc = "dial"
        /\ client'.authState = client.authState + 1 /\ client'.dials = client.dials
    BY <1>1, <1>2, <2>1 DEF ClientType, ClientJoins
  <2>3. client.authState <= 1 /\ url.cred # NoCredentials /\ ~conn.client
        /\ client.dials = client.authState + 1
    BY <1>1, <1>2 DEF InTurn
  <2>4. client.authState + 1 <= 2
    BY <1>1, <2>3
  <2>5. InTurn'
    BY <1>1, <2>2, <2>3, <2>4 DEF InTurn
  <2> QED
    BY <1>1, <2>2, <2>5, ClientAlone
<1>3. CASE client.res # "auth"
  <2>1. /\ client' \in ClientType /\ client'.pc = "returned" /\ client'.res = client.res
        /\ client'.authState = client.authState
    BY <1>1, <1>3 DEF ClientType, ClientJoins
  <2>2. InTurn'
    BY <1>1, <2>1 DEF InTurn
  <2>3. client'.res = "ok" => server.actionAccepted
    BY <1>1, <2>1 DEF Told
  <2> QED
    BY <1>1, <2>1, <2>2, <2>3, ClientAlone
<1> QED
  BY <1>2, <1>3

\* The closer goroutine closes no connection that Initialize has returned.
LEMMA CloserInv == Inv /\ CloserStep => Inv'
<1> SUFFICES ASSUME Inv, CloserStep PROVE Inv'
  OBVIOUS
<1>1. /\ client \in ClientType /\ conn \in ConnType(server.actionAccepted)
      /\ server.actionAccepted \in BOOLEAN /\ InTurn /\ Told
      /\ client.pc = "write" => client.todo # <<>>
  BY DEF Inv, Types
<1>2. /\ UNCHANGED <<url, config, client, cancelled, server>>
      /\ closer = "waiting" /\ closer' = "done"
  BY DEF CloserStep, CloserTerminates, CloserCloses
<1>3. /\ conn' \in ConnType(server.actionAccepted)
      /\ conn'.client = conn.client \/ ~conn'.client
  BY <1>1, Closing DEF CloserStep, CloserTerminates, CloserCloses
<1>4. InTurn'
  BY <1>1, <1>2, <1>3 DEF InTurn
<1> QED
  BY <1>1, <1>2, <1>3, <1>4, ClientAlone DEF Told

(***************************************************************************)
(* The server's steps.                                                     *)
(***************************************************************************)
LEMMA ServerAlone ==
  ASSUME Inv, UNCHANGED <<url, config, client, closer, cancelled>>,
         NEW acc \in BOOLEAN, server.actionAccepted => acc,
         server' \in ServerType(acc), conn' \in ConnType(acc), conn'.client = conn.client,
         server'.pc = "write" => server'.todo # <<>>,
         server'.pc = "decide" \/ acc => server'.publish = url.publish /\ server'.key = url.key,
         server'.pc = "decide" => server'.wait = "action",
         server'.wait = "action" => (config.cred # NoCredentials => url.cred = config.cred)
  PROVE  Inv'
<1>1. /\ client' \in ClientType /\ closer' \in {"none", "waiting", "done"}
      /\ cancelled' \in BOOLEAN
      /\ client'.pc = "write" => client'.todo # <<>>
  BY DEF Inv, Types
<1>2. Types' /\ server'.actionAccepted = acc
  <2>1. Types
    BY DEF Inv
  <2> QED
    BY <1>1, <2>1, StillTyped
<1>3. InTurn'
  BY DEF Inv, InTurn
<1>4. Told' /\ OnlyWithCredentials'
  BY <1>2 DEF Inv, Told, OnlyWithCredentials
<1> QED
  BY <1>2, <1>3, <1>4 DEF Inv

\* The answers of a server whose application has still to accept the action, or
\* has accepted it already.
LEMMA ServerHandles ==
  ASSUME Inv, NEW acc \in BOOLEAN, acc = server.actionAccepted, NEW m \in FromClient,
         \/ ServerFails
         \/ Reply(<<Hello("S0S1S2")>>, "wait", "C2")
         \/ server' = [server EXCEPT !.wait = "connect"] /\ server.pc # "decide"
         \/ server.wait = "connect" /\ OnConnect(m)
         \/ server.wait = "action" /\ OnCommand(m) /\ server.pc = "wait"
         \/ RejectAction
         \/ UNCHANGED server /\ server.pc # "decide"
  PROVE  /\ server' \in ServerType(acc)
         /\ server'.pc = "write" => server'.todo # <<>>
         /\ server'.pc = "decide" \/ acc =>
              server'.publish = url.publish /\ server'.key = url.key
         /\ server'.pc = "decide" => server'.wait = "action"
         /\ server'.wait = "action" => (config.cred # NoCredentials => url.cred = config.cred)
<1> DEFINE Goal ==
         /\ server' \in ServerType(acc)
         /\ server'.pc = "write" => server'.todo # <<>>
         /\ server'.pc = "decide" \/ acc =>
              server'.publish = url.publish /\ server'.key = url.key
         /\ server'.pc = "decide" => server'.wait = "action"
         /\ server'.wait = "action" => (config.cred # NoCredentials => url.cred = config.cred)
<1>1. /\ Types /\ server \in ServerType(acc) /\ config.cred \in Credentials
      /\ url.cred \in Credentials
      /\ acc => server.publish = url.publish /\ server.key = url.key
      /\ server.pc = "decide" => server.wait = "action"
      /\ server.wait = "action" => (config.cred # NoCredentials => url.cred = config.cred)
      /\ server.pc = "write" => server.todo # <<>>
  BY DEF Inv, Types, Told, OnlyWithCredentials
<1>2. ASSUME NEW todo \in Seq(FromServer(acc)), todo # <<>>,
             NEW then \in {"wait", "close"}, NEW wait \in {"C2", "connect", "action"},
             Reply(todo, then, wait),
             wait = "action" => (config.cred # NoCredentials => url.cred = config.cred)
      PROVE  Goal
  <2>1. /\ server' \in ServerType(acc) /\ server'.pc = "write" /\ server'.todo = todo
        /\ server'.publish = server.publish /\ server'.key = server.key
        /\ server'.wait = wait
    BY <1>1, <1>2 DEF Reply, ServerType
  <2> QED
    BY <1>1, <1>2, <2>1
<1>3. ASSUME ServerFails PROVE Goal
  <2>1. <<>> \in Seq(FromServer(acc))
    OBVIOUS
  <2>2. /\ server' \in ServerType(acc) /\ server'.pc = "close"
        /\ server'.publish = server.publish /\ server'.key = server.key
        /\ server'.wait = server.wait
    BY <1>1, <1>3, <2>1 DEF ServerFails, ServerType
  <2> QED
    BY <1>1, <2>2
<1>4. ASSUME NEW todo \in Seq(FromServer(acc)),
             server' = [server EXCEPT !.pc = "write", !.todo = todo,
                             !.then = "wait", !.wait = "action"],
             todo # <<>>, config.cred # NoCredentials => url.cred = config.cred
      PROVE  Goal
  <2>1. /\ server' \in ServerType(acc) /\ server'.pc = "write" /\ server'.todo = todo
        /\ server'.publish = server.publish /\ server'.key = server.key
    BY <1>1, <1>4 DEF ServerType
  <2> QED
    BY <1>1, <1>4, <2>1
<1> SUFFICES Goal
  OBVIOUS
<1> HIDE DEF Goal
<1>5. \A c \in FromServer(acc) : <<c>> \in Seq(FromServer(acc)) /\ <<c>> # <<>>
  OBVIOUS
<1>6. CASE Reply(<<Hello("S0S1S2")>>, "wait", "C2")
  BY <1>2, <1>5, <1>6, ServerMessages
<1>7. CASE server' = [server EXCEPT !.wait = "connect"] /\ server.pc # "decide"
  BY <1>1, <1>7 DEF Goal, ServerType
<1>8. CASE server.wait = "connect" /\ OnConnect(m)
  <2>1. ASSUME m.name = "connect", AcceptConn,
               config.cred # NoCredentials => url.cred = config.cred
        PROVE  Goal
    <3>1. PICK todo \in Foreigner(<<Result(1, TRUE)>>) :
            server' = [server EXCEPT !.pc = "write",
                             !.todo = <<Control, Control, Control>> \o todo,
                             !.then = "wait", !.wait = "action"]
      BY <2>1 DEF AcceptConn
    <3>2. todo \in Seq(FromServer(acc))
      <4>1. Result(1, TRUE) \in FromServer(acc) /\ Command("onBWDone", 0) \in FromServer(acc)
        BY ServerMessages
      <4>2. <<Result(1, TRUE)>> \in Seq(FromServer(acc))
            /\ <<Command("onBWDone", 0)>> \in Seq(FromServer(acc))
        BY <1>5, <4>1
      <4>3. \A p, q \in Seq(FromServer(acc)) : p \o q \in Seq(FromServer(acc))
        OBVIOUS
      <4> QED
        BY <4>2, <4>3 DEF Foreigner
    <3>3. PICK all : all = <<Control, Control, Control>> \o todo
      OBVIOUS
    <3>4. all \in Seq(FromServer(acc)) /\ all # <<>>
      <4>1. Control \in FromServer(acc)
        BY ServerMessages
      <4>2. <<Control, Control, Control>> \in Seq(FromServer(acc))
            /\ Len(<<Control, Control, Control>>) = 3
        BY <4>1
      <4>3. all \in Seq(FromServer(acc)) /\ Len(all) = 3 + Len(todo) /\ Len(todo) \in Nat
        BY <3>2, <3>3, <4>2
      <4>4. Len(all) # 0
        BY <4>3
      <4>5. Len(<<>>) = 0
        OBVIOUS
      <4> QED
        BY <4>3, <4>4, <4>5
    <3>5. server' = [server EXCEPT !.pc = "write", !.todo = all,
                             !.then = "wait", !.wait = "action"]
      BY <3>1, <3>3
    <3> QED
      BY <1>4, <2>1, <3>4, <3>5
  <2>2. ASSUME NEW desc \in {"needauth", "challenge", "authfailed"},
               Reply(<<Error(desc)>>, "close", "connect")
        PROVE  Goal
    <3>1. <<Error(desc)>> \in Seq(FromServer(acc)) /\ <<Error(desc)>> # <<>>
      <4>1. Error(desc) \in FromServer(acc)
        BY ServerMessages
      <4> QED
        BY <1>5, <4>1
    <3> QED
      BY <1>2, <2>2, <3>1
  <2>3. CASE m.name # "connect"
    BY <1>3, <1>8, <2>3 DEF OnConnect
  <2>4. CASE m.name = "connect" /\ config.cred = NoCredentials
    BY <1>8, <2>1, <2>4 DEF OnConnect
  <2>5. CASE m.name = "connect" /\ config.cred # NoCredentials
    <3> DEFINE given == m.auth.step = 2 /\ m.auth.user # EmptyUser
                          /\ m.auth.response = Response(config.cred, ServerNonce)
    <3>1. m.auth \in Auths
      BY <1>1, <2>5, ClientShapes
    <3>2. m.auth.step \in {0, 1, 2} /\ (m.auth.step # 0 => url.cred # NoCredentials)
          /\ (m.auth.step = 2 =>
                \E n \in {NoNonce, ServerNonce} : m.auth.response = Response(url.cred, n))
      BY <3>1 DEF Auths, NoAuth
    <3>3. \/ ServerFails
          \/ \E desc \in {"needauth", "challenge", "authfailed"} :
               Reply(<<Error(desc)>>, "close", "connect")
          \/ given /\ AcceptConn
      <4>1. CASE m.auth.step = 0
        BY <1>8, <2>5, <4>1 DEF OnConnect
      <4>2. CASE m.auth.step # 0 /\ m.auth.user = EmptyUser
        BY <1>8, <2>5, <4>2 DEF OnConnect
      <4>3. CASE m.auth.step = 1 /\ m.auth.user # EmptyUser
        BY <1>8, <2>5, <4>3 DEF OnConnect
      <4>4. CASE m.auth.step = 2 /\ m.auth.user # EmptyUser /\ ~given
        BY <1>8, <2>5, <4>4 DEF OnConnect
      <4>5. CASE given
        BY <1>8, <2>5, <4>5 DEF OnConnect
      <4> QED
        BY <3>2, <4>1, <4>2, <4>3, <4>4, <4>5
    <3>4. ASSUME given PROVE url.cred = config.cred
      <4>1. url.cred # NoCredentials /\ url.cred.user = config.cred.user
            /\ url.cred.pass = config.cred.pass
        BY <3>2, <3>4 DEF Response
      <4>2. /\ url.cred \in [user : Users, pass : Passwords]
            /\ config.cred \in [user : Users, pass : Passwords]
        BY <1>1, <2>5, <4>1 DEF Credentials
      <4> QED
        BY <4>1, <4>2
    <3> HIDE DEF given
    <3> QED
      BY <1>3, <2>1, <2>2, <2>5, <3>3, <3>4
  <2> QED
    BY <2>3, <2>4, <2>5
<1>9. CASE server.wait = "action" /\ OnCommand(m) /\ server.pc = "wait"
  <2>1. CASE m.name = "createStream"
    <3>1. Reply(<<Result(m.id, TRUE)>>, "wait", "action")
      BY <1>9, <2>1 DEF OnCommand
    <3>2. PICK todo : todo = <<Result(m.id, TRUE)>>
      OBVIOUS
    <3>3. todo \in Seq(FromServer(acc)) /\ todo # <<>>
      <4>1. m.id \in Nat
        BY <1>1, <2>1, ClientShapes
      <4>2. Result(m.id, TRUE) \in FromServer(acc)
        BY <4>1, ServerMessages
      <4> QED
        BY <1>5, <3>2, <4>2
    <3> QED
      BY <1>1, <1>2, <1>9, <3>1, <3>2, <3>3
  <2>2. CASE m.name \in {"play", "publish"}
    <3>1. server' = [server EXCEPT !.pc = "decide", !.id = m.id, !.key = m.key,
                                  !.publish = (m.name = "publish")]
      BY <1>9, <2>2 DEF OnCommand
    <3>2. m.key = url.key /\ m.id \in Nat /\ (m.name = "publish") = url.publish
          /\ url.key \in Keys /\ url.publish \in BOOLEAN
      BY <1>1, <2>2, ClientShapes DEF Types
    <3>3. server' = [server EXCEPT !.pc = "decide", !.id = m.id, !.key = url.key,
                                  !.publish = url.publish]
      BY <3>1, <3>2
    <3>4. /\ server' \in ServerType(acc) /\ server'.pc = "decide"
          /\ server'.publish = url.publish /\ server'.key = url.key
          /\ server'.wait = server.wait
      BY <1>1, <3>2, <3>3 DEF ServerType
    <3> QED
      BY <1>1, <1>9, <3>4 DEF Goal
  <2>3. CASE m.name \in {"releaseStream", "FCPublish"} /\ Foreign
    <3>1. Reply(<<Result(m.id, FALSE)>>, "wait", "action")
      BY <1>9, <2>3 DEF OnCommand
    <3>2. PICK todo : todo = <<Result(m.id, FALSE)>>
      OBVIOUS
    <3>3. todo \in Seq(FromServer(acc)) /\ todo # <<>>
      <4>1. m.id \in Nat
        BY <1>1, <2>3, ClientShapes
      <4>2. Result(m.id, FALSE) \in FromServer(acc)
        BY <4>1, ServerMessages
      <4> QED
        BY <1>5, <3>2, <4>2
    <3> QED
      BY <1>1, <1>2, <1>9, <3>1, <3>2, <3>3
  <2>4. CASE m.name # "createStream" /\ m.name \notin {"play", "publish"}
             /\ ~(m.name \in {"releaseStream", "FCPublish"} /\ Foreign)
    <3>1. UNCHANGED server
      BY <1>9, <2>4 DEF OnCommand
    <3> QED
      BY <1>1, <1>9, <3>1 DEF Goal
  <2> QED
    BY <2>1, <2>2, <2>3, <2>4
<1>10. CASE RejectAction
  <2>1. server.pc = "decide" /\ Reply(<<OnStatus(server.id, "error")>>, "close", "action")
    BY <1>10 DEF RejectAction
  <2>2. PICK todo : todo = <<OnStatus(server.id, "error")>>
    OBVIOUS
  <2>3. todo \in Seq(FromServer(acc)) /\ todo # <<>>
    <3>1. server.id \in Nat
      BY <1>1 DEF ServerType
    <3>2. OnStatus(server.id, "error") \in FromServer(acc)
      BY <3>1, ServerMessages
    <3> QED
      BY <1>5, <2>2, <3>2
  <2> QED
    BY <1>1, <1>2, <2>1, <2>2, <2>3
<1>11. CASE UNCHANGED server /\ server.pc # "decide"
  BY <1>1, <1>11 DEF Goal
<1> QED
  BY <1>3, <1>6, <1>7, <1>8, <1>9, <1>10, <1>11

LEMMA ServerReadsInv == Inv /\ (ServerReads \/ RejectAction) => Inv'
<1> SUFFICES ASSUME Inv, ServerReads \/ RejectAction PROVE Inv'
  OBVIOUS
<1>1. PICK acc \in BOOLEAN : acc = server.actionAccepted
  BY DEF Inv, Types
<1>2. conn \in ConnType(acc) /\ UNCHANGED <<url, config, client, closer, cancelled>>
  BY <1>1 DEF Inv, Types, ServerReads, RejectAction
<1>3. Control \in FromClient
  BY ClientMessages DEF Inv
<1>4. ASSUME RejectAction \/ (ServerFails /\ UNCHANGED conn) PROVE Inv'
  <2>1. conn' \in ConnType(acc) /\ conn'.client = conn.client
    BY <1>2, <1>4 DEF RejectAction
  <2> QED
    BY <1>1, <1>2, <1>3, <1>4, <2>1, ServerHandles, ServerAlone
<1>5. ASSUME server.pc = "wait", ServerMayRead, conn' = [conn EXCEPT !.c2s = Tail(conn.c2s)],
             NEW m, m = Head(conn.c2s),
             CASE server.wait = "C0C1" -> Reply(<<Hello("S0S1S2")>>, "wait", "C2")
               [] server.wait = "C2" -> server' = [server EXCEPT !.wait = "connect"]
               [] server.wait = "connect" /\ IsCommand(m) -> OnConnect(m)
               [] server.wait = "action" /\ IsCommand(m) -> OnCommand(m)
               [] OTHER -> UNCHANGED server
      PROVE  Inv'
  <2>1. conn.c2s \in Seq(FromClient) /\ conn.c2s # <<>>
    BY <1>2, <1>5 DEF ConnType, ServerMayRead
  <2>2. m \in FromClient /\ Tail(conn.c2s) \in Seq(FromClient)
    BY <1>5, <2>1, Queues
  <2>3. conn' \in ConnType(acc) /\ conn'.client = conn.client
    BY <1>2, <1>5, <2>2 DEF ConnType
  <2>4. \/ Reply(<<Hello("S0S1S2")>>, "wait", "C2")
        \/ server' = [server EXCEPT !.wait = "connect"] /\ server.pc # "decide"
        \/ server.wait = "connect" /\ OnConnect(m)
        \/ server.wait = "action" /\ OnCommand(m) /\ server.pc = "wait"
        \/ UNCHANGED server /\ server.pc # "decide"
    BY <1>5
  <2>5. /\ server' \in ServerType(acc)
        /\ server'.pc = "write" => server'.todo # <<>>
        /\ server'.pc = "decide" \/ acc =>
             server'.publish = url.publish /\ server'.key = url.key
        /\ server'.pc = "decide" => server'.wait = "action"
        /\ server'.wait = "action" => (config.cred # NoCredentials => url.cred = config.cred)
    BY <1>1, <2>2, <2>4, ServerHandles
  <2> QED
    BY <1>1, <1>2, <2>3, <2>5, ServerAlone
<1>6. PICK m : m = Head(conn.c2s)
  OBVIOUS
<1> QED
  BY <1>4, <1>5, <1>6 DEF ServerReads

LEMMA ServerWritesInv == Inv /\ ServerWrites => Inv'
<1> SUFFICES ASSUME Inv, ServerWrites PROVE Inv'
  OBVIOUS
<1>1. PICK acc \in BOOLEAN : acc = server.actionAccepted
  BY DEF Inv, Types
<1>2. /\ server \in ServerType(acc) /\ conn \in ConnType(acc) /\ server.todo # <<>>
      /\ UNCHANGED <<url, config, client, closer, cancelled>>
      /\ acc => server.publish = url.publish /\ server.key = url.key
      /\ server.wait = "action" => (config.cred # NoCredentials => url.cred = config.cred)
  BY <1>1 DEF Inv, Types, ServerWrites, Told, OnlyWithCredentials
<1>3. ASSUME conn' = [conn EXCEPT !.s2c = IF conn.client
                        THEN Append(conn.s2c, Head(server.todo)) ELSE conn.s2c],
             server' = [server EXCEPT !.todo = Tail(server.todo),
                          !.pc = IF Len(server.todo) = 1 THEN server.then ELSE "write"]
      PROVE  Inv'
  <2>1. /\ Head(server.todo) \in FromServer(acc) /\ Tail(server.todo) \in Seq(FromServer(acc))
        /\ Len(server.todo) # 1 => Tail(server.todo) # <<>>
    <3>1. server.todo \in Seq(FromServer(acc))
      BY <1>2 DEF ServerType
    <3> QED
      BY <1>2, <3>1, Queues
  <2>2. Append(conn.s2c, Head(server.todo)) \in Seq(FromServer(acc))
    <3>1. conn.s2c \in Seq(FromServer(acc))
      BY <1>2 DEF ConnType
    <3> QED
      BY <2>1, <3>1, Queues
  <2>3. conn' \in ConnType(acc) /\ conn'.client = conn.client
    BY <1>2, <1>3, <2>2 DEF ConnType
  <2>4. /\ server' \in ServerType(acc)
        /\ server'.pc \in {"wait", "close", "active"}
             \/ (server'.pc = "write" /\ server'.todo # <<>>)
        /\ server'.publish = server.publish /\ server'.key = server.key
        /\ server'.wait = server.wait
    BY <1>2, <1>3, <2>1 DEF ServerType
  <2>5. server'.pc # "decide" /\ (server'.pc = "write" => server'.todo # <<>>)
    BY <2>4
  <2> QED
    BY <1>1, <1>2, <2>3, <2>4, <2>5, ServerAlone
<1>4. ASSUME ServerFails, UNCHANGED conn PROVE Inv'
  <2>1. <<>> \in Seq(FromServer(acc))
    OBVIOUS
  <2>2. /\ server' \in ServerType(acc) /\ server'.pc = "close"
        /\ server'.publish = server.publish /\ server'.key = server.key
        /\ server'.wait = server.wait
    BY <1>2, <1>4, <2>1 DEF ServerFails, ServerType
  <2> QED
    BY <1>1, <1>2, <1>4, <2>2, ServerAlone
<1> QED
  BY <1>3, <1>4 DEF ServerWrites

LEMMA AcceptActionInv == Inv /\ AcceptAction => Inv'
<1> SUFFICES ASSUME Inv, AcceptAction PROVE Inv'
  OBVIOUS
<1>1. PICK acc \in BOOLEAN : acc = server.actionAccepted
  BY DEF Inv, Types
<1>2. /\ server \in ServerType(acc) /\ conn \in ConnType(acc) /\ server.pc = "decide"
      /\ UNCHANGED <<url, config, client, closer, cancelled, conn>>
      /\ server.publish = url.publish /\ server.key = url.key
      /\ server.wait = "action" => (config.cred # NoCredentials => url.cred = config.cred)
  BY <1>1 DEF Inv, Types, AcceptAction, Told, OnlyWithCredentials
<1>3. PICK todo : todo = LET started == OnStatus(server.id, "status")
                IN IF server.publish THEN <<started>>
                   ELSE <<Control, Control, started, started, started, started>>
  OBVIOUS
<1>4. todo \in Seq(FromServer(TRUE)) /\ todo # <<>>
  <2>1. server.id \in Nat
    BY <1>2 DEF ServerType
  <2>2. OnStatus(server.id, "status") \in FromServer(TRUE) /\ Control \in FromServer(TRUE)
    BY <2>1, ServerMessages
  <2> QED
    BY <1>3, <2>2, Answers
<1>5. server' = [server EXCEPT !.actionAccepted = TRUE, !.pc = "write", !.then = "active",
                               !.todo = todo]
  BY <1>3 DEF AcceptAction
<1>6. /\ server' \in ServerType(TRUE) /\ server'.pc = "write" /\ server'.todo = todo
      /\ server'.publish = server.publish /\ server'.key = server.key
      /\ server'.wait = server.wait
  BY <1>2, <1>4, <1>5 DEF ServerType
<1>7. conn' \in ConnType(TRUE) /\ conn'.client = conn.client
  BY <1>2, Widening
<1> QED
  BY <1>2, <1>4, <1>6, <1>7, ServerAlone

LEMMA ServerClosesInv == Inv /\ ServerCloses => Inv'
<1> SUFFICES ASSUME Inv, ServerCloses PROVE Inv'
  OBVIOUS
<1>1. PICK acc \in BOOLEAN : acc = server.actionAccepted
  BY DEF Inv, Types
<1>2. /\ server \in ServerType(acc) /\ conn \in ConnType(acc)
      /\ UNCHANGED <<url, config, client, closer, cancelled>>
      /\ acc => server.publish = url.publish /\ server.key = url.key
      /\ server.wait = "action" => (config.cred # NoCredentials => url.cred = config.cred)
  BY <1>1 DEF Inv, Types, ServerCloses, Told, OnlyWithCredentials
<1>3. /\ server' \in ServerType(acc) /\ server'.pc = "closed"
      /\ server'.publish = server.publish /\ server'.key = server.key
      /\ server'.wait = server.wait
  BY <1>2 DEF ServerCloses, ServerType
<1>4. conn' \in ConnType(acc) /\ conn'.client = conn.client
  BY <1>2, Closing DEF ServerCloses
<1> QED
  BY <1>1, <1>2, <1>3, <1>4, ServerAlone

LEMMA OutsideInv == Inv /\ (Cancel \/ Break \/ UNCHANGED vars) => Inv'
<1> SUFFICES ASSUME Inv, Cancel \/ Break \/ UNCHANGED vars PROVE Inv'
  OBVIOUS
<1>1. PICK acc \in BOOLEAN : acc = server.actionAccepted
  BY DEF Inv, Types
<1>2. /\ conn' \in ConnType(acc) /\ conn'.client = conn.client
      /\ UNCHANGED <<url, config, client, closer, server>> /\ cancelled' \in BOOLEAN
  BY <1>1 DEF Inv, Types, Cancel, Break, vars, ConnType
<1>3. /\ client' \in ClientType /\ closer' \in {"none", "waiting", "done"}
      /\ server' \in ServerType(acc)
      /\ client'.pc = "write" => client'.todo # <<>>
      /\ server'.pc = "write" => server'.todo # <<>>
  BY <1>1, <1>2 DEF Inv, Types
<1>4. Types'
  BY <1>2, <1>3, StillTyped DEF Inv
<1>5. InTurn' /\ Told' /\ OnlyWithCredentials'
  BY <1>2 DEF Inv, InTurn, Told, OnlyWithCredentials
<1> QED
  BY <1>4, <1>5 DEF Inv

LEMMA NextInv == Inv /\ [Next]_vars => Inv'
BY DialInv, DialFailsInv, ClientWritesInv, ClientReadsInv, ClientLeavesInv, ClientJoinsInv,
   CloserInv, ServerReadsInv, ServerWritesInv, AcceptActionInv, ServerClosesInv, OutsideInv
DEF Next, ClientStep, ServerStep

(***************************************************************************)
(* The theorems.                                                           *)
(***************************************************************************)

\* Every variable keeps its type, and neither side ever has nothing left to
\* write while it writes.
THEOREM TypeCorrect == Spec => []TypeOK
<1>1. Inv => TypeOK
  BY DEF Inv, Types, TypeOK, ClientType, ServerType
<1> QED
  BY <1>1, InitInv, NextInv, PTL DEF Spec

\* When Initialize returns nil, the application of the server accepted this very
\* action on this very stream key, and sees no authentication parameters
\* (client.go:485-587, server_conn.go:370-560).
THEOREM BothAgree == Spec => []Agreement
<1>1. Inv => Agreement
  BY DEF Inv, Types, Told, Agreement, ServerType
<1> QED
  BY <1>1, InitInv, NextInv, PTL DEF Spec

\* No client gets past AcceptConnIfCredentialsMatch with other credentials than
\* those asked for, whatever the users and the passwords (server_conn.go:209-291).
THEOREM CredentialsChecked == Spec => []OnlyWithCredentials
BY InitInv, NextInv, PTL DEF Spec, Inv

\* A failed Initialize leaves neither an open connection nor a goroutine, a
\* successful one no goroutine (client.go:257-279).
THEOREM NothingIsLeft == Spec => []NothingLeft
<1>1. Inv => NothingLeft
  BY DEF Inv, InTurn, NothingLeft
<1> QED
  BY <1>1, InitInv, NextInv, PTL DEF Spec

\* Initialize dials at most three times, each time after the connection before
\* is closed and its closer goroutine has ended (client.go:197-204, 257-279).
THEOREM OneDialAtATime == Spec => DialsInTurn
<1> DEFINE Turn == client'.dials # client.dials =>
                     client'.dials <= 3 /\ ~conn.client /\ closer = "none"
<1>1. Inv /\ [Next]_vars => [Turn]_vars
  <2> SUFFICES ASSUME Inv, [Next]_vars, client'.dials # client.dials
               PROVE  client'.dials <= 3 /\ ~conn.client /\ closer = "none"
    OBVIOUS
  <2>1. client \in ClientType /\ InTurn
    BY DEF Inv, Types
  <2>2. Dial
    BY <2>1
    DEF Next, ClientStep, ServerStep, CloserStep, DialFails, ClientWrites, ClientReads,
        ClientLeaves, ClientJoins, CloserTerminates, CloserCloses, ServerWrites,
        ServerReads, AcceptAction, RejectAction, ServerCloses, Cancel, Break, vars,
        Leave, Write, OnHello, OnConnectResult, OnCreateResult, OnStatusReceived, ClientType
  <2>3. client.pc = "dial" /\ client'.dials = client.dials + 1 /\ client.dials \in Nat
    BY <2>1, <2>2 DEF Dial, ClientType
  <2>4. client.dials <= 2 /\ ~conn.client /\ closer = "none"
    BY <2>1, <2>3 DEF InTurn
  <2> QED
    BY <2>3, <2>4
<1> QED
  BY <1>1, InitInv, NextInv, PTL DEF Spec, DialsInTurn

\* Cancelling the context after Initialize has returned does not touch the
\* connection that it returned (client.go:258-259).
THEOREM CallerOwns == Spec => OwnedByCaller
<1> DEFINE Same == client.pc = "returned" => conn'.client = conn.client
<1>1. Inv /\ [Next]_vars => [Same]_vars
  <2> SUFFICES ASSUME Inv, [Next]_vars, client.pc = "returned"
               PROVE  conn'.client = conn.client
    OBVIOUS
  <2>1. closer = "none" /\ conn \in ConnType(server.actionAccepted)
        /\ server.actionAccepted \in BOOLEAN
    BY DEF Inv, Types, InTurn
  <2>2. ~CloserStep /\ ~ClientStep
    BY <2>1 DEF CloserStep, CloserTerminates, CloserCloses, ClientStep, Dial, DialFails,
                ClientWrites, ClientReads, ClientLeaves, ClientJoins
  <2>3. CASE ServerStep
    <3>1. CASE ServerCloses
      BY <2>1, <3>1, Closing DEF ServerCloses
    <3>2. CASE ServerWrites \/ ServerReads
      BY <2>1, <3>2 DEF ServerWrites, ServerReads, ConnType
    <3>3. CASE AcceptAction \/ RejectAction
      BY <3>3 DEF AcceptAction, RejectAction
    <3> QED
      BY <2>3, <3>1, <3>2, <3>3 DEF ServerStep
  <2>4. CASE Cancel \/ Break \/ UNCHANGED vars
    BY <2>1, <2>4 DEF Cancel, Break, vars, ConnType
  <2> QED
    BY <2>2, <2>3, <2>4 DEF Next
<1> QED
  BY <1>1, InitInv, NextInv, PTL DEF Spec, OwnedByCaller
===============================================================================
