--------------------------- MODULE ServiceProofs ----------------------------
(***************************************************************************)
(* Service, for any number of clients, connections, commands and faults:   *)
(* no command to restore is lost (from RestoreInv); and, from SessionInv,  *)
(* the server stays in step with the stream, the resume point counts       *)
(* sectors that are there, and what it completes is one upload's; with     *)
(* Told, that a client takes for an answer only its own.                   *)
(*                                                                         *)
(* A step of the server or of a client changes its own connection: each    *)
(* XStep lemma says that action X keeps SessionInv, each XTells lemma that *)
(* it keeps Told, and the lemmas before them reduce that to the one        *)
(* connection and its two ends.                                            *)
(***************************************************************************)
EXTENDS Service, TLAPS, SequenceTheorems

\* What the argument needs of the clients' state: that the parts an action
\* assigns are there.
Shape ==
  /\ DOMAIN client = Clients
  /\ \A c \in Clients : /\ {"pc", "command"} \subseteq DOMAIN client[c]
                        /\ client[c].command \in AllCommands
  /\ restore_string \in [Clients -> AllCommands]
  /\ is_restore_connection \in [Clients -> BOOLEAN]

RestoreInv == Shape /\ RestoreKept

LEMMA Initial == Init => RestoreInv
BY DEF Init, RestoreInv, Shape, RestoreKept, AllCommands

\* A session that ends without an assignment leaves a pending command with
\* its flag, and the client connects again.
LEMMA EarlyReturnKeeps ==
  ASSUME RestoreInv, NEW c \in Clients, NEW k, EarlyReturn(c, k)
  PROVE  RestoreInv'
BY DEF RestoreInv, Shape, RestoreKept, EarlyReturn, SessionEnds

LEMMA DeathKeeps ==
  ASSUME RestoreInv, NEW c \in Clients, NEW k, ClientDies(c, k)
  PROVE  RestoreInv'
BY DEF RestoreInv, Shape, RestoreKept, ClientDies

\* The end of the loop assigns both together.
LEMMA LoopEndKeeps ==
  ASSUME RestoreInv, NEW c \in Clients, NEW k, NEW restore \in AllCommands,
         LoopEnds(c, k, restore)
  PROVE  RestoreInv'
BY DEF RestoreInv, Shape, RestoreKept, LoopEnds, SessionEnds

\* A client that waits has nothing to restore.
LEMMA AwaitKeeps ==
  ASSUME RestoreInv, NEW c \in Clients, NEW k, AwaitLine(c, k),
         client[c].pc \notin {"connect", "input", "killed"}
  PROVE  RestoreInv'
BY DEF RestoreInv, Shape, RestoreKept, AwaitLine

\* The server and the network do not touch a client's variables.
LEMMA UntouchedKeeps ==
  ASSUME RestoreInv, UNCHANGED <<client, restore_string, is_restore_connection>>
  PROVE  RestoreInv'
BY DEF RestoreInv, Shape, RestoreKept

LEMMA ConnectKeeps ==
  ASSUME RestoreInv, NEW c \in Clients, ClientConnect(c) \/ ClientConnectFails(c)
  PROVE  RestoreInv'
<1>1. CASE ClientConnect(c)
  <2>1. PICK i \in Conns :
          client' = [client EXCEPT ![c].pc = "input", ![c].conn = i,
                                   ![c].answer = Line("none", NoCommand)]
    BY <1>1 DEF ClientConnect
  <2>2. client[c].pc = "connect" /\ UNCHANGED <<restore_string, is_restore_connection>>
    BY <1>1 DEF ClientConnect
  <2>3. QED
    BY <2>1, <2>2 DEF RestoreInv, Shape, RestoreKept
<1>2. CASE ClientConnectFails(c)
  <2>1. PICK pc \in {"connect", "ended"} :
          /\ client' = [client EXCEPT ![c].pc = pc]
          /\ is_restore_connection[c] => pc = "connect"
    BY <1>2 DEF ClientConnectFails
  <2>2. UNCHANGED <<restore_string, is_restore_connection>>
    BY <1>2 DEF ClientConnectFails
  <2>3. QED
    BY <2>1, <2>2 DEF RestoreInv, Shape, RestoreKept
<1>3. QED
  BY <1>1, <1>2

LEMMA SendKeeps ==
  ASSUME RestoreInv, NEW c \in Clients, NEW command \in AllCommands, ClientSends(c, command),
         client[c].pc = "input"
  PROVE  RestoreInv'
<1>1. PICK o \in Sent(conn[Where(c)], "client", command) :
        \/ /\ restore_string' = [restore_string EXCEPT ![c] = NoCommand]
           /\ \E next \in {"ready", "line"} :
                client' = [client EXCEPT ![c].pc = next, ![c].command = command,
                                         ![c].next = 0,
                                         ![c].answer = Line("none", NoCommand)]
           /\ UNCHANGED is_restore_connection
        \/ EarlyReturn(c, o.conn)
        \/ ClientDies(c, o.conn)
  BY DEF ClientSends
<1>2. CASE EarlyReturn(c, o.conn)
  BY <1>2, EarlyReturnKeeps
<1>3. CASE ClientDies(c, o.conn)
  BY <1>3, DeathKeeps
<1>4. CASE /\ restore_string' = [restore_string EXCEPT ![c] = NoCommand]
           /\ \E next \in {"ready", "line"} :
                client' = [client EXCEPT ![c].pc = next, ![c].command = command,
                                         ![c].next = 0,
                                         ![c].answer = Line("none", NoCommand)]
           /\ UNCHANGED is_restore_connection
  <2>1. NoCommand \in AllCommands
    BY DEF AllCommands
  <2>2. QED
    BY <1>4, <2>1 DEF RestoreInv, Shape, RestoreKept
<1>5. QED
  BY <1>1, <1>2, <1>3, <1>4

LEMMA HandshakeKeeps ==
  ASSUME RestoreInv, NEW c \in Clients,
         ClientReady(c) \/ ClientGo(c) \/ ClientHandshakeLost(c)
  PROVE  RestoreInv'
<1>1. CASE ClientReady(c)
  <2>1. PICK ok \in BOOLEAN :
        \E o \in Sent(Taken(conn[Where(c)]), "client", Answer(ok)) :
          \/ /\ client' = [client EXCEPT ![c].pc = "go", ![c].agreed = ok]
             /\ UNCHANGED <<restore_string, is_restore_connection>>
          \/ AwaitLine(c, o.conn)
          \/ ClientDies(c, o.conn)
    BY <1>1 DEF ClientReady
  <2>2. client[c].pc = "ready"
    BY <1>1 DEF ClientReady
  <2>3. QED
    BY <2>1, <2>2, AwaitKeeps, DeathKeeps DEF RestoreInv, Shape, RestoreKept
<1>2. CASE ClientGo(c)
  <2>1. PICK k, first :
          \/ /\ client' = [client EXCEPT ![c].pc = "send", ![c].next = first]
             /\ UNCHANGED <<restore_string, is_restore_connection>>
          \/ AwaitLine(c, k)
    BY <1>2 DEF ClientGo
  <2>2. client[c].pc = "go"
    BY <1>2 DEF ClientGo
  <2>3. QED
    BY <2>1, <2>2, AwaitKeeps DEF RestoreInv, Shape, RestoreKept
<1>3. CASE ClientHandshakeLost(c)
  BY <1>3, AwaitKeeps DEF ClientHandshakeLost
<1>4. QED
  BY <1>1, <1>2, <1>3

\* The only step that makes a command to restore.
LEMMA SectorKeeps ==
  ASSUME RestoreInv, NEW c \in Clients, ClientSector(c)
  PROVE  RestoreInv'
<1>1. PICK k, i :
        \/ /\ client' = [client EXCEPT ![c].next = i]
           /\ UNCHANGED <<restore_string, is_restore_connection>>
        \/ AwaitLine(c, k)
        \/ /\ client[c].command.op = "UPLOAD"
           /\ LoopEnds(c, k, Continued(client[c].command))
        \/ ClientDies(c, k)
  BY DEF ClientSector
<1>2. client[c].pc = "send"
  BY DEF ClientSector
<1>3. CASE /\ client[c].command.op = "UPLOAD"
           /\ LoopEnds(c, k, Continued(client[c].command))
  <2>1. PICK f \in Names : client[c].command.name = f
    BY <1>3 DEF RestoreInv, Shape, AllCommands, Commands, Uploads, Command, NoCommand
  <2>2. Continued(client[c].command) \in AllCommands
    BY <2>1 DEF Continued, AllCommands, Commands, Uploads, Command
  <2>3. QED
    BY <1>3, <2>2, LoopEndKeeps
<1>4. QED
  BY <1>1, <1>2, <1>3, AwaitKeeps, DeathKeeps DEF RestoreInv, Shape, RestoreKept

LEMMA LineKeeps ==
  ASSUME RestoreInv, NEW c \in Clients, ClientLine(c) \/ ClientLineLost(c)
  PROVE  RestoreInv'
<1>1. NoCommand \in AllCommands
  BY DEF AllCommands
<1>2. CASE ClientLine(c)
  <2>1. PICK rest, a :
          \/ LoopEnds(c, rest, NoCommand)
          \/ /\ client' = [client EXCEPT ![c].pc = "input", ![c].answer = a]
             /\ UNCHANGED <<restore_string, is_restore_connection>>
    BY <1>2 DEF ClientLine
  <2>2. QED
    BY <1>1, <2>1, LoopEndKeeps DEF RestoreInv, Shape, RestoreKept
<1>3. CASE ClientLineLost(c)
  <2>1. PICK k :
          \/ LoopEnds(c, k, NoCommand)
          \/ /\ client' = [client EXCEPT ![c].pc = "input"]
             /\ UNCHANGED <<restore_string, is_restore_connection>>
    BY <1>3 DEF ClientLineLost
  <2>2. QED
    BY <1>1, <2>1, LoopEndKeeps DEF RestoreInv, Shape, RestoreKept
<1>4. QED
  BY <1>2, <1>3

LEMMA Step == RestoreInv /\ [Next]_vars => RestoreInv'
<1> SUFFICES ASSUME RestoreInv, [Next]_vars
             PROVE  RestoreInv'
  OBVIOUS
<1>1. CASE ServerStep
  BY <1>1, UntouchedKeeps DEF ServerStep, ServerAccept, ServerCommand, ServerIdle,
     ServerLeave, ServerAnswer, ServerAnswerLost, ServerSector, ServerSectorLost
<1>2. CASE Cut
  BY <1>2, UntouchedKeeps DEF Cut
<1>3. ASSUME NEW c \in Clients, ClientStep(c)
      PROVE  RestoreInv'
  <2>1. CASE ClientRestores(c)
    <3>1. restore_string[c] \in AllCommands
      BY DEF RestoreInv, Shape
    <3>2. QED
      BY <2>1, <3>1, SendKeeps DEF ClientRestores
  <2>2. QED
    BY <1>3, <2>1, ConnectKeeps, HandshakeKeeps, SectorKeeps, LineKeeps DEF ClientStep
<1>4. ASSUME NEW c \in Clients, ClientCommand(c)
      PROVE  RestoreInv'
  BY <1>4, SendKeeps DEF ClientCommand, AllCommands
<1>5. ASSUME NEW c \in Clients, ClientConnectFails(c)
      PROVE  RestoreInv'
  BY <1>5, ConnectKeeps
<1>6. CASE UNCHANGED vars
  BY <1>6, UntouchedKeeps DEF vars
<1>7. QED
  BY <1>1, <1>2, <1>3, <1>4, <1>5, <1>6 DEF Next

\* No client loses a command to restore: whatever the network, the server and
\* the other clients do, main_client's flag stays set until it has been sent.
THEOREM RestoreIsKept == Spec => []RestoreKept
<1>1. RestoreInv => RestoreKept
  BY DEF RestoreInv
<1>2. QED
  BY Initial, Step, <1>1, PTL DEF Spec

-----------------------------------------------------------------------------
(***************************************************************************)
(* Messages and connections, and what a send or a close makes of them.     *)
(***************************************************************************)
LEMMA CommandTypes ==
  /\ NoCommand \in AllCommands /\ NoCommand \notin Uploads
  /\ Uploads \subseteq Commands /\ Commands \subseteq AllCommands
  /\ \A m \in AllCommands : m.type = "command"
  /\ \A m \in Uploads : /\ m.name \in Names /\ m.op \in {"UPLOAD", "UPLOAD_CONTINUE"}
                        /\ Continued(m) \in Uploads
<1>1. /\ NoCommand \in AllCommands
      /\ Uploads \subseteq Commands /\ Commands \subseteq AllCommands
  BY DEF AllCommands, Commands
<1>2. NoCommand.op = "none" /\ NoCommand.type = "command"
  BY DEF NoCommand, Command
<1>3. ASSUME NEW m \in Uploads
      PROVE  /\ m.name \in Names /\ m.op \in {"UPLOAD", "UPLOAD_CONTINUE"}
             /\ m.type = "command" /\ Continued(m) \in Uploads
  <2>1. PICK op \in {"UPLOAD", "UPLOAD_CONTINUE"}, f \in Names :
          m = [type |-> "command", op |-> op, name |-> f]
    BY DEF Uploads, Command
  <2>2. m.name = f /\ m.op = op /\ m.type = "command"
    BY <2>1
  <2> QED BY <2>2 DEF Continued, Uploads
<1>4. ASSUME NEW m \in Commands PROVE m.type = "command"
  BY <1>3, <1>4 DEF Commands, Command
<1>5. NoCommand \notin Uploads
  BY <1>2, <1>3
<1> QED BY <1>1, <1>2, <1>3, <1>4, <1>5 DEF AllCommands

LEMMA MessageTypes ==
  /\ AllCommands \subseteq ToServer
  /\ \A ok \in BOOLEAN : Answer(ok) \in ToServer /\ Ready(ok) \in ToClient
  /\ \A c \in Clients, f \in Names, n \in Nat : Sector(c, f, n) \in ToServer
  /\ \A n \in Nat : Go(n) \in ToClient
  /\ \A res \in LineResults, m \in AllCommands :
       Line(res, m) \in Lines /\ Line(res, m) \in ToClient
BY DEF ToServer, ToClient, Answer, Ready, Sector, Go, Line, Lines, AllUploads

\* The first message says by its type what it is.
LEMMA ToServerHead ==
  ASSUME NEW m \in ToServer
  PROVE  /\ m.type = "command" => m \in AllCommands
         /\ m.type = "answer" => m.ok \in BOOLEAN /\ m = Answer(m.ok)
         /\ m.type = "sector" => m.of \in AllUploads /\ m.num \in Nat
<1>1. CASE m \in AllCommands
  BY <1>1, CommandTypes
<1>2. CASE m \in [type : {"answer"}, ok : BOOLEAN]
  BY <1>2 DEF Answer
<1>3. CASE m \in [type : {"sector"}, of : AllUploads, num : Nat]
  BY <1>3
<1> QED BY <1>1, <1>2, <1>3 DEF ToServer

LEMMA ToClientHead ==
  ASSUME NEW m \in ToClient
  PROVE  /\ m.type = "ready" => m.ok \in BOOLEAN
         /\ m.type = "go" => m.next \in Nat
         /\ m.type = "line" => m \in Lines /\ [m EXCEPT !.res = "garbled"] \in Lines
<1>1. CASE m \in Lines
  BY <1>1 DEF Lines, LineResults
<1>2. CASE m \in [type : {"ready"}, ok : BOOLEAN]
  BY <1>2
<1>3. CASE m \in [type : {"go"}, next : Nat]
  BY <1>3
<1> QED BY <1>1, <1>2, <1>3 DEF ToClient

LEMMA ConnectionType ==
  ASSUME NEW k \in Connections
  PROVE  /\ k.of \in Clients \cup {"none"}
         /\ k.client \in {"none", "open", "closed"}
         /\ k.server \in {"none", "queued", "open", "closed"}
         /\ k.cut \in BOOLEAN
         /\ k.reset \subseteq {"client", "server"}
         /\ k.toServer \in Seq(ToServer) /\ k.toClient \in Seq(ToClient)
BY DEF Connections

\* Reading from one of the two directions.
LEMMA ReadType ==
  ASSUME NEW k \in Connections, NEW up \in Seq(ToServer), NEW down \in Seq(ToClient)
  PROVE  /\ [k EXCEPT !.toServer = up] \in Connections
         /\ [k EXCEPT !.toClient = down] \in Connections
BY DEF Connections

LEMMA NoConnType ==
  /\ NoConn \in Connections
  /\ \A c \in Clients : Connected(c) \in Connections
<1>1. <<>> \in Seq(ToServer) /\ <<>> \in Seq(ToClient)
  OBVIOUS
<1>2. NoConn \in Connections
  BY <1>1 DEF NoConn, Connections
<1>3. ASSUME NEW c \in Clients
      PROVE  Connected(c) \in Connections
  BY <1>1 DEF NoConn, Connected, Connections
<1> QED BY <1>2, <1>3

LEMMA ResetType ==
  ASSUME NEW k \in Connections, NEW end \in {"client", "server"}
  PROVE  /\ Reset(k, end) \in Connections
         /\ Reset(k, end).of = k.of
         /\ Reset(k, end).client = k.client
         /\ Reset(k, end).server = k.server
         /\ Reset(k, end).cut = k.cut
         /\ Reset(k, end).reset = k.reset \cup {end}
         /\ Reset(k, end).toServer \in {k.toServer, <<>>}
         /\ Reset(k, end).toClient \in {k.toClient, <<>>}
         /\ end = "client" => Reset(k, end).toServer = k.toServer
<1>1. <<>> \in Seq(ToServer) /\ <<>> \in Seq(ToClient)
  OBVIOUS
<1> QED BY <1>1 DEF Reset, Connections

LEMMA DeliveredType ==
  ASSUME NEW k \in Connections
  PROVE  /\ \A m \in ToServer :
              /\ Delivered(k, "client", m) \in Connections
              /\ Delivered(k, "client", m) = [k EXCEPT !.toServer = Append(k.toServer, m)]
         /\ \A m \in ToClient :
              /\ Delivered(k, "server", m) \in Connections
              /\ Delivered(k, "server", m) = [k EXCEPT !.toClient = Append(k.toClient, m)]
<1>1. ASSUME NEW m \in ToServer PROVE Append(k.toServer, m) \in Seq(ToServer)
  BY ConnectionType
<1>2. ASSUME NEW m \in ToClient PROVE Append(k.toClient, m) \in Seq(ToClient)
  BY ConnectionType
<1>3. ASSUME NEW m \in ToServer
      PROVE  /\ Delivered(k, "client", m) = [k EXCEPT !.toServer = Append(k.toServer, m)]
             /\ Delivered(k, "client", m) \in Connections
  BY <1>1, ReadType, ConnectionType DEF Delivered
<1>4. ASSUME NEW m \in ToClient
      PROVE  /\ Delivered(k, "server", m) = [k EXCEPT !.toClient = Append(k.toClient, m)]
             /\ Delivered(k, "server", m) \in Connections
  BY <1>2, ReadType, ConnectionType DEF Delivered
<1> QED BY <1>3, <1>4

\* What a send of the server leaves of a connection.
ServerWrote(k, r) ==
  /\ r \in Connections
  /\ r.of = k.of /\ r.client = k.client /\ r.server = k.server /\ r.cut = k.cut
  /\ r.toServer \in {k.toServer, <<>>}
  /\ "client" \in r.reset => "client" \in k.reset
  /\ "server" \in r.reset => "server" \in k.reset \/ k.client = "closed"

\* On a live connection the message arrives.
LEMMA ServerSent ==
  ASSUME NEW k \in Connections, NEW m \in ToClient, NEW o \in Sent(k, "server", m)
  PROVE  /\ ServerWrote(k, o.conn)
         /\ o.res \in {"sent", "error", "killed"}
         /\ (k.client = "open" /\ ~k.cut /\ "server" \notin k.reset) =>
              /\ o.res = "sent"
              /\ o.conn.toServer = k.toServer
              /\ o.conn.toClient = Append(k.toClient, m)
<1>0. ServerWrote(k, k) /\ (HungUp(k, "server") <=> k.client = "closed")
  BY DEF ServerWrote, HungUp
<1>1. CASE k.cut
  BY <1>0, <1>1 DEF Sent
<1>2. CASE ~k.cut /\ "server" \in k.reset
  BY <1>0, <1>2 DEF Sent, Refused
<1>3. CASE ~k.cut /\ "server" \notin k.reset /\ k.client = "closed"
  <2>1. ServerWrote(k, Reset(k, "server"))
    BY <1>3, ResetType DEF ServerWrote
  <2> QED BY <1>0, <1>3, <2>1 DEF Sent
<1>4. CASE ~k.cut /\ "server" \notin k.reset /\ k.client # "closed"
  <2>1. o = [conn |-> Delivered(k, "server", m), res |-> "sent"]
    BY <1>0, <1>4 DEF Sent
  <2>2. /\ Delivered(k, "server", m) \in Connections
        /\ Delivered(k, "server", m) = [k EXCEPT !.toClient = Append(k.toClient, m)]
    BY DeliveredType
  <2> QED BY <2>1, <2>2 DEF ServerWrote, Connections
<1> QED BY <1>1, <1>2, <1>3, <1>4

\* What a send of the client leaves of a connection.
ClientWrote(k, r) ==
  /\ r \in Connections
  /\ r.of = k.of /\ r.client = k.client /\ r.server = k.server /\ r.cut = k.cut
  /\ "server" \in r.reset => "server" \in k.reset
  /\ "client" \in r.reset => "client" \in k.reset \/ k.server = "closed"

LEMMA ClientSent ==
  ASSUME NEW k \in Connections, NEW m \in ToServer, NEW o \in SentInTwo(k, "client", m)
  PROVE  /\ ClientWrote(k, o.conn)
         /\ o.res \in {"sent", "error", "killed"}
         /\ k.cut => o.conn = k
         /\ (k.server # "closed" /\ ~k.cut /\ "client" \notin k.reset) =>
              /\ o.res = "sent"
              /\ o.conn.toServer = Append(k.toServer, m)
              /\ o.conn.toClient = k.toClient
<1>0. ClientWrote(k, k) /\ (HungUp(k, "client") <=> k.server = "closed")
  BY DEF ClientWrote, HungUp
<1>1. CASE k.cut
  BY <1>0, <1>1 DEF Sent, SentInTwo
<1>2. CASE ~k.cut /\ k.server = "closed"
  <2>1. ClientWrote(k, Reset(k, "client"))
    BY <1>2, ResetType DEF ClientWrote
  <2>2. /\ o.conn \in {k, Reset(k, "client")}
        /\ o.res \in {"sent", "error", "killed"}
    BY <1>0, <1>2 DEF Sent, SentInTwo, Refused
  <2> QED BY <1>0, <1>2, <2>1, <2>2
<1>3. CASE ~k.cut /\ k.server # "closed" /\ "client" \in k.reset
  BY <1>0, <1>3 DEF Sent, SentInTwo, Refused
<1>4. CASE ~k.cut /\ k.server # "closed" /\ "client" \notin k.reset
  <2>1. o = [conn |-> Delivered(k, "client", m), res |-> "sent"]
    BY <1>0, <1>4 DEF Sent, SentInTwo
  <2>2. /\ Delivered(k, "client", m) \in Connections
        /\ Delivered(k, "client", m) = [k EXCEPT !.toServer = Append(k.toServer, m)]
    BY DeliveredType
  <2>3. /\ o.res = "sent"
        /\ o.conn = [k EXCEPT !.toServer = Append(k.toServer, m)]
        /\ o.conn \in Connections
    BY <2>1, <2>2
  <2> HIDE DEF Connections
  <2>4. /\ o.conn.of = k.of /\ o.conn.client = k.client /\ o.conn.server = k.server
        /\ o.conn.cut = k.cut /\ o.conn.reset = k.reset
        /\ o.conn.toServer = Append(k.toServer, m) /\ o.conn.toClient = k.toClient
    BY <2>3 DEF Connections
  <2> QED BY <1>4, <2>3, <2>4 DEF ClientWrote
<1> QED BY <1>1, <1>2, <1>3, <1>4

\* A client's end that closes leaves the server what was sent, or nothing.
LEMMA ClientClosed ==
  ASSUME NEW k \in Connections, NEW r, r = Closed(k, "client")
  PROVE  /\ r \in Connections
         /\ r.of = k.of /\ r.client = "closed" /\ r.server = k.server
         /\ r.toServer \in {k.toServer, <<>>}
         /\ "client" \in r.reset => "client" \in k.reset
<1>1. <<>> \in Seq(ToServer) /\ <<>> \in Seq(ToClient)
  OBVIOUS
<1> DEFINE c == [k EXCEPT !.client = "closed", !.toClient = <<>>]
<1>2. c \in Connections /\ c.of = k.of /\ c.client = "closed" /\ c.server = k.server
      /\ c.toServer = k.toServer /\ c.reset = k.reset
  BY <1>1 DEF Connections
<1>3. CASE k.server = "closed"
  BY <1>1, <1>3, ConnectionType DEF Closed, HungUp, NoConn, Connections
<1>4. CASE k.server # "closed"
  <2>1. r \in {c, Reset(c, "server")}
    BY <1>4 DEF Closed, HungUp
  <2> HIDE DEF c
  <2> QED BY <1>2, <2>1, ResetType
<1> QED BY <1>3, <1>4

LEMMA ServerClosed ==
  ASSUME NEW k \in Connections, NEW r, r = Closed(k, "server")
  PROVE  /\ r \in Connections
         /\ r.of = k.of /\ r.client = k.client /\ r.server = "closed"
         /\ "server" \in r.reset => "server" \in k.reset
<1>1. <<>> \in Seq(ToServer) /\ <<>> \in Seq(ToClient)
  OBVIOUS
<1> DEFINE c == [k EXCEPT !.server = "closed", !.toServer = <<>>]
<1>2. c \in Connections /\ c.of = k.of /\ c.client = k.client /\ c.server = "closed"
      /\ c.reset = k.reset
  BY <1>1 DEF Connections
<1>3. CASE k.client = "closed"
  BY <1>1, <1>3, ConnectionType DEF Closed, HungUp, NoConn, Connections
<1>4. CASE k.client # "closed"
  <2>1. r \in {c, Reset(c, "client")}
    BY <1>4 DEF Closed, HungUp
  <2> HIDE DEF c
  <2> QED BY <1>2, <2>1, ResetType
<1> QED BY <1>3, <1>4

-----------------------------------------------------------------------------
(***************************************************************************)
(* A step of one process, seen from all the connections.                   *)
(***************************************************************************)
LEMMA PlacesAt ==
  ASSUME TypeOK, Places, NEW i \in Conns
  PROVE  /\ conn[i] \in Connections
         /\ conn[i].of = "none" => conn[i].client = "none" /\ conn[i].server = "none"
         /\ conn[i].client = "open" => conn[i].of \in Clients /\ client[conn[i].of].conn = i
         /\ conn[i].server = "open" => Serving /\ server.conn = i
         /\ "client" \in conn[i].reset => conn[i].server = "closed"
         /\ "server" \in conn[i].reset => conn[i].client = "closed"
BY DEF TypeOK, Places, Place

\* The connection that is served, whatever was read from it or sent on it.
Served(k) ==
  /\ k \in Connections
  /\ k.of = conn[server.conn].of /\ k.client = conn[server.conn].client
  /\ k.server = "open" /\ k.cut = conn[server.conn].cut
  /\ "client" \notin k.reset /\ ("server" \in k.reset => k.client = "closed")

LEMMA ServedNow ==
  ASSUME TypeOK, Places, Serving
  PROVE  /\ server.conn \in Conns
         /\ Served(conn[server.conn])
         /\ \A q \in Seq(ToServer) : Served([conn[server.conn] EXCEPT !.toServer = q])
<1>1. server.conn \in Conns /\ conn[server.conn].server = "open"
  BY DEF Places, ServerPlace
<1>2. Served(conn[server.conn])
  BY <1>1, PlacesAt DEF Served
<1>3. ASSUME NEW q \in Seq(ToServer)
      PROVE  Served([conn[server.conn] EXCEPT !.toServer = q])
  BY <1>2 DEF Served, Connections
<1> QED BY <1>1, <1>2, <1>3

\* A step of the server on its connection, seen from the connections.
LEMMA ServerTurn ==
  ASSUME TypeOK, Places, Streams, Serving,
         NEW r, Served(r), NEW s \in ServerStates, NEW n \in Nat,
         s.conn = server.conn,
         s.pc \in {"line", "answer", "data", "leave"},
         s.pc \in {"answer", "data"} => s.command \in Uploads,
         Script(r, s, n),
         Live(r) => Exchange(r, client[r.of], s, n),
         Put(server.conn, r), server' = s, session_next' = n, UNCHANGED client
  PROVE  /\ Places' /\ Streams' /\ conn' \in [Conns -> Connections]
         /\ conn'[server.conn].of = conn[server.conn].of
<1> DEFINE i == server.conn
<1>1. i \in Conns /\ conn[i].server = "open"
  BY DEF Places, ServerPlace
<1>2. /\ conn' \in [Conns -> Connections]
      /\ conn'[i] = r
      /\ \A j \in Conns : j # i => conn'[j] = conn[j] /\ conn[j].server # "open"
  BY <1>1, PlacesAt DEF TypeOK, Put, Served
<1>3. /\ r.of = conn[i].of /\ r.client = conn[i].client /\ r.server = "open"
      /\ "client" \notin r.reset /\ ("server" \in r.reset => r.client = "closed")
  BY <1>1 DEF Served
<1>4. Serving'
  BY DEF Serving
<1>5. ASSUME NEW j \in Conns
      PROVE  Place(j, conn[j])'
  <2>1. CASE j = i
    BY <1>1, <1>2, <1>3, <1>4, <2>1, PlacesAt DEF Place
  <2>2. CASE j # i
    BY <1>2, <2>2, PlacesAt DEF Place
  <2> QED BY <2>1, <2>2
<1>6. ASSUME NEW c \in Clients
      PROVE  ClientPlace(c)'
  <2>1. ClientPlace(c)
    BY DEF Places
  <2> QED BY <1>2, <1>3, <2>1 DEF ClientPlace, Where
<1>7. ServerPlace'
  BY <1>1, <1>2, <1>3, <1>4 DEF ServerPlace
<1>8. ASSUME NEW j \in Conns
      PROVE  /\ Script(conn'[j], s, n)
             /\ Live(conn'[j]) => Exchange(conn'[j], client[conn'[j].of], s, n)
  <2>1. CASE j = i
    BY <1>2, <2>1
  <2>2. CASE j # i
    <3>1. /\ Script(conn[j], server, session_next)
          /\ Live(conn[j]) => Exchange(conn[j], client[conn[j].of], server, session_next)
      BY DEF Streams
    <3>2. conn'[j] = conn[j] /\ Stage(conn[j], s) = Stage(conn[j], server)
          /\ Stage(conn[j], s) \in {"line", "none"}
      BY <1>2, <2>2 DEF Stage
    <3> QED BY <3>1, <3>2 DEF Script, Exchange
  <2> QED BY <2>1, <2>2
<1> QED BY <1>2, <1>3, <1>5, <1>6, <1>7, <1>8 DEF Places, Streams

\* The server's end closes, at the end of a session or with the process.
LEMMA ServerEnds ==
  ASSUME TypeOK, Places, Streams, Serving,
         NEW s \in ServerStates, s.pc \in {"accept", "dead"},
         s.pc = "accept" => s.res # "Completed",
         conn' \in [Conns -> Connections],
         \A i \in Conns :
           \/ /\ conn[i].server # "open" /\ conn'[i] = conn[i]
           \/ /\ conn'[i].of = conn[i].of /\ conn'[i].client = conn[i].client
              /\ conn'[i].server = "closed" /\ conn[i].server # "none"
              /\ "server" \in conn'[i].reset => conn[i].client = "closed",
         server' = s, UNCHANGED client
  PROVE  Places' /\ Streams'
<1>1. ASSUME NEW j \in Conns
      PROVE  Place(j, conn[j])'
  BY PlacesAt DEF Place
<1>2. ASSUME NEW c \in Clients
      PROVE  ClientPlace(c)'
  <2>1. ClientPlace(c)
    BY DEF Places
  <2> QED BY <2>1 DEF ClientPlace, Where
<1>3. ServerPlace'
  BY DEF ServerPlace, Serving
<1>4. ASSUME NEW j \in Conns
      PROVE  /\ Script(conn[j], server, session_next)'
             /\ (Live(conn[j]) => Exchange(conn[j], client[conn[j].of], server, session_next))'
  <2>1. /\ Script(conn[j], server, session_next)
        /\ Live(conn[j]) => Exchange(conn[j], client[conn[j].of], server, session_next)
    BY DEF Streams
  <2>2. CASE conn'[j].server = "closed"
    BY <2>2 DEF Script, Exchange, Stage
  <2>3. CASE conn[j].server # "open" /\ conn'[j] = conn[j]
    <3>1. /\ Stage(conn[j], s) = Stage(conn[j], server)
          /\ Stage(conn[j], s) \in {"line", "none"}
      BY <2>3 DEF Stage
    <3>2. /\ Script(conn[j], s, session_next')
          /\ Live(conn[j]) => Exchange(conn[j], client[conn[j].of], s, session_next')
      BY <2>1, <3>1 DEF Script, Exchange
    <3> QED BY <2>3, <3>2
  <2> QED BY <2>2, <2>3
<1> QED BY <1>1, <1>2, <1>3, <1>4 DEF Places, Streams

\* A step of a client on its connection, seen from the connections.
LEMMA ClientTurn ==
  ASSUME TypeOK, Places, Streams, NEW c \in Clients,
         client[c].pc \in {"input", "ready", "go", "send", "line"},
         NEW r \in Connections, NEW d \in ClientStates,
         r.of = c, r.server = conn[Where(c)].server,
         "client" \in r.reset => conn[Where(c)].server = "closed",
         "server" \in r.reset => r.client = "closed",
         \/ r.client = "closed" /\ d.conn = 0 /\ d.pc \in {"connect", "ended", "killed"}
         \/ r.client = "open" /\ d.conn = Where(c) /\ d.pc \notin {"connect", "ended", "killed"},
         d.pc \in {"ready", "go", "send"} => d.command \in Uploads,
         Script(r, server, session_next),
         Live(r) => Exchange(r, d, server, session_next),
         Put(Where(c), r), client' = [client EXCEPT ![c] = d],
         UNCHANGED <<server, session_next>>
  PROVE  Places' /\ Streams'
         /\ conn' \in [Conns -> Connections] /\ client' \in [Clients -> ClientStates]
<1> DEFINE i == Where(c)
<1>1. i \in Conns /\ conn[i].of = c /\ conn[i].client = "open"
  BY DEF Places, ClientPlace
<1>2. /\ conn' \in [Conns -> Connections]
      /\ conn'[i] = r
      /\ \A j \in Conns : j # i => conn'[j] = conn[j]
      /\ client' \in [Clients -> ClientStates]
      /\ client'[c] = d
      /\ \A b \in Clients : b # c => client'[b] = client[b]
  BY <1>1 DEF TypeOK, Put
<1>3. \A j \in Conns : j # i /\ conn[j].client = "open" => conn[j].of # c
  BY PlacesAt DEF Where
<1>4. \A b \in Clients : b # c => Where(b) # i \/ client[b].pc \in {"connect", "ended", "killed"}
  BY <1>1, PlacesAt DEF Places, ClientPlace, TypeOK, ClientStates, ClientPCs
<1>5. ASSUME NEW j \in Conns
      PROVE  Place(j, conn[j])'
  <2>1. CASE j = i
    BY <1>1, <1>2, <2>1, PlacesAt DEF Place, Serving
  <2>2. CASE j # i
    BY <1>2, <1>3, <2>2, PlacesAt DEF Place, Serving
  <2> QED BY <2>1, <2>2
<1>6. ASSUME NEW b \in Clients
      PROVE  ClientPlace(b)'
  <2>1. CASE b = c
    BY <1>1, <1>2, <2>1 DEF ClientPlace, Where
  <2>2. CASE b # c
    <3>1. ClientPlace(b)
      BY DEF Places
    <3> QED BY <1>2, <1>4, <2>2, <3>1 DEF ClientPlace, Where
  <2> QED BY <2>1, <2>2
<1>7. ServerPlace'
  BY <1>2 DEF ServerPlace, Serving, Places
<1>8. ASSUME NEW j \in Conns
      PROVE  /\ Script(conn'[j], server, session_next)
             /\ Live(conn'[j]) => Exchange(conn'[j], client'[conn'[j].of], server, session_next)
  <2>1. CASE j = i
    BY <1>2, <2>1
  <2>2. CASE j # i
    <3>1. /\ Script(conn[j], server, session_next)
          /\ Live(conn[j]) => Exchange(conn[j], client[conn[j].of], server, session_next)
      BY DEF Streams
    <3>2. Live(conn[j]) => client'[conn[j].of] = client[conn[j].of]
      BY <1>2, <1>3, <2>2, PlacesAt DEF Live
    <3> QED BY <1>2, <2>2, <3>1, <3>2
  <2> QED BY <2>1, <2>2
<1> QED BY <1>2, <1>5, <1>6, <1>7, <1>8 DEF Places, Streams

LEMMA ServedWritten ==
  ASSUME NEW k, Served(k), NEW r, ServerWrote(k, r)
  PROVE  Served(r)
BY DEF Served, ServerWrote

\* Nothing to read is always right.
LEMMA EmptyScript ==
  ASSUME NEW k, k.toServer = <<>>, NEW s, NEW n \in Nat
  PROVE  Script(k, s, n)
BY DEF Script

LEMMA ServerDiesTurn ==
  ASSUME TypeOK, Places, Streams, Serving, NEW k, Served(k),
         ServerDies(server.conn, k), UNCHANGED client
  PROVE  /\ Places' /\ Streams' /\ conn' \in [Conns -> Connections]
         /\ server' = [server EXCEPT !.pc = "dead"] /\ server' \in ServerStates
<1>1. server.conn \in Conns /\ k \in Connections /\ server \in ServerStates
  BY ServedNow DEF Served, TypeOK
<1>2. server' = [server EXCEPT !.pc = "dead"] /\ server' \in ServerStates
  BY <1>1 DEF ServerDies, ServerStates, ServerPCs
<1>3. server'.pc = "dead"
  BY <1>1, <1>2 DEF ServerStates
<1>4. ASSUME NEW i \in Conns
      PROVE  /\ conn'[i] \in Connections
             /\ \/ /\ conn[i].server # "open" /\ conn'[i] = conn[i]
                \/ /\ conn'[i].of = conn[i].of /\ conn'[i].client = conn[i].client
                   /\ conn'[i].server = "closed" /\ conn[i].server # "none"
                   /\ "server" \in conn'[i].reset => conn[i].client = "closed"
  <2>1. CASE i = server.conn
    <3>1. conn'[i] = Closed(k, "server")
      BY <2>1 DEF ServerDies
    <3>2. conn[i].server = "open"
      BY <2>1 DEF Places, ServerPlace
    <3> QED BY <1>1, <2>1, <3>1, <3>2, ServerClosed DEF Served
  <2>2. CASE i # server.conn /\ conn[i].server = "queued"
    <3>1. conn'[i] = Closed(conn[i], "server")
      BY <2>2 DEF ServerDies
    <3> QED BY <2>2, <3>1, PlacesAt, ServerClosed
  <2>3. CASE i # server.conn /\ conn[i].server # "queued"
    <3>1. conn'[i] = conn[i]
      BY <2>3 DEF ServerDies
    <3> QED BY <2>3, <3>1, PlacesAt
  <2> QED BY <2>1, <2>2, <2>3
<1>5. conn' \in [Conns -> Connections]
  BY <1>4 DEF ServerDies
<1> QED BY <1>2, <1>3, <1>4, <1>5, ServerEnds

\* A message of the server that arrives.
Arrived(k, r, m) ==
  /\ r \in Connections /\ r.of = k.of /\ r.client = k.client /\ r.server = k.server
  /\ r.toServer = k.toServer /\ r.toClient = Append(k.toClient, m)

\* What becomes of a send of the server: it arrives on a live connection, and
\* on any other the client no longer matters.
LEMMA ServerSendTurn ==
  ASSUME TypeOK, Places, Streams, Serving, NEW k, Served(k), NEW m \in ToClient,
         NEW s \in ServerStates, NEW n \in Nat, NEW o \in Sent(k, "server", m),
         s.conn = server.conn,
         s.pc \in {"line", "answer", "data", "leave"},
         s.pc \in {"answer", "data"} => s.command \in Uploads,
         Script(k, s, n),
         Live(k) => \A r : Arrived(k, r, m) => Exchange(r, client[r.of], s, n),
         Put(server.conn, o.conn), server' = s, session_next' = n, UNCHANGED client
  PROVE  /\ Places' /\ Streams' /\ conn' \in [Conns -> Connections]
         /\ conn'[server.conn].of = conn[server.conn].of
<1>1. ServerWrote(k, o.conn)
  BY ServerSent DEF Served
<1>2. Served(o.conn)
  BY <1>1, ServedWritten
<1>3. Script(o.conn, s, n)
  <2>1. CASE o.conn.toServer = k.toServer
    BY <1>1, <2>1 DEF Script, Stage, ServerWrote
  <2>2. CASE o.conn.toServer = <<>>
    BY <2>2, EmptyScript
  <2> QED BY <1>1, <2>1, <2>2 DEF ServerWrote
<1>4. ASSUME Live(o.conn) PROVE Exchange(o.conn, client[o.conn.of], s, n)
  <2>1. Live(k) /\ "server" \notin k.reset
    BY <1>1, <1>4 DEF Live, ServerWrote, Served
  <2>2. Arrived(k, o.conn, m)
    BY <1>1, <2>1, ServerSent DEF Live, Arrived, ServerWrote, Served
  <2> QED BY <2>1, <2>2
<1> QED BY <1>2, <1>3, <1>4, ServerTurn

LEMMA ServerSendsTurn ==
  ASSUME TypeOK, Places, Streams, Serving, NEW k, Served(k), NEW m \in ToClient,
         NEW s \in ServerStates, NEW n \in Nat,
         s.conn = server.conn,
         s.pc \in {"line", "answer", "data", "leave"},
         s.pc \in {"answer", "data"} => s.command \in Uploads,
         Script(k, s, n),
         Live(k) => \A r : Arrived(k, r, m) => Exchange(r, client[r.of], s, n),
         ServerSends(server.conn, k, m, s), session_next' = n, UNCHANGED client
  PROVE  /\ Places' /\ Streams' /\ conn' \in [Conns -> Connections]
         /\ server' \in ServerStates
         /\ \/ server' = s /\ conn'[server.conn].of = conn[server.conn].of
            \/ server'.pc = "dead"
<1>1. PICK o \in Sent(k, "server", m) :
        \/ ServerDies(server.conn, o.conn)
        \/ Put(server.conn, o.conn) /\ server' = s
  BY DEF ServerSends
<1>2. CASE ServerDies(server.conn, o.conn)
  <2>1. Served(o.conn)
    BY ServerSent, ServedWritten DEF Served
  <2>2. server' = [server EXCEPT !.pc = "dead"] => server'.pc = "dead"
    BY DEF TypeOK, ServerStates
  <2> QED BY <1>2, <2>1, <2>2, ServerDiesTurn
<1>3. CASE Put(server.conn, o.conn) /\ server' = s
  BY <1>3, ServerSendTurn
<1> QED BY <1>1, <1>2, <1>3

-----------------------------------------------------------------------------
(***************************************************************************)
(* The server accepts, reads and leaves.                                   *)
(***************************************************************************)
LEMMA FileTypes ==
  ASSUME NEW fs \in [Names -> FileStates], NEW command \in AllCommands, command.name \in Names
  PROVE  /\ Removed(fs, command) \in [Names -> FileStates]
         /\ ~Removed(fs, command)[command.name].exists
         /\ fs = files => Opened(command) \in [Names -> FileStates]
<1>1. NoFile \in FileStates /\ ~NoFile.exists
  BY DEF NoFile, FileStates
<1>2. TruncatedFile \in FileStates
  BY <1>1 DEF NoFile, TruncatedFile, FileStates
<1> QED BY <1>1, <1>2 DEF Removed, Opened

\* The line the server reads is the one command under way.
LEMMA LineRead ==
  ASSUME TypeOK, Places, Streams, server.pc = "line", conn[server.conn].toServer # <<>>
  PROVE  LET k == conn[server.conn]
             c == client[k.of]
             m == Head(k.toServer)
         IN /\ m \in AllCommands /\ Tail(k.toServer) = <<>>
            /\ Live(k) => /\ c.pc \in {"ready", "line"} /\ c.command = m
                          /\ k.toClient = <<>>
<1> DEFINE k == conn[server.conn]
<1>1. server.conn \in Conns /\ k.server = "open" /\ Serving
  BY DEF Places, ServerPlace, Serving
<1>2. Stage(k, server) = "line"
  BY <1>1 DEF Stage
<1>3. PICK m \in AllCommands : k.toServer = <<m>>
  BY <1>1, <1>2 DEF Streams, Script
<1>4. Head(k.toServer) = m /\ Tail(k.toServer) = <<>>
  BY <1>3
<1>5. Live(k) => LineExchange(k, client[k.of])
  BY <1>1, <1>2 DEF Streams, Exchange
<1>6. ASSUME Live(k)
      PROVE  /\ client[k.of].pc \in {"ready", "line"} /\ k.toServer = <<client[k.of].command>>
             /\ k.toClient = <<>>
  <2>1. k.toServer # <<>>
    OBVIOUS
  <2> QED BY <1>5, <1>6, <2>1 DEF LineExchange
<1>7. ASSUME Live(k) PROVE client[k.of].command = m
  BY <1>3, <1>6, <1>7
<1> QED BY <1>4, <1>6, <1>7

\* The second byte of the handshake likewise.
LEMMA AnswerRead ==
  ASSUME TypeOK, Places, Streams, server.pc = "answer", conn[server.conn].toServer # <<>>
  PROVE  LET k == conn[server.conn]
             c == client[k.of]
             m == Head(k.toServer)
         IN /\ m.type = "answer" /\ m.ok \in BOOLEAN /\ Tail(k.toServer) = <<>>
            /\ Live(k) => /\ c.command = server.command
                          /\ c.pc = "go" /\ c.agreed = m.ok /\ (m.ok => server.my_answer)
                          /\ k.toClient = <<>>
<1> DEFINE k == conn[server.conn]
<1>1. server.conn \in Conns /\ k.server = "open" /\ Serving
  BY DEF Places, ServerPlace, Serving
<1>2. Stage(k, server) = "answer"
  BY <1>1 DEF Stage
<1>3. PICK ok \in BOOLEAN : k.toServer = <<Answer(ok)>>
  BY <1>1, <1>2 DEF Streams, Script
<1>4. Head(k.toServer) = Answer(ok) /\ Tail(k.toServer) = <<>>
  BY <1>3
<1>5. Head(k.toServer).type = "answer" /\ Head(k.toServer).ok = ok
  BY <1>4 DEF Answer
<1>6. Live(k) => AnswerExchange(k, client[k.of], server) /\ client[k.of].command = server.command
  BY <1>1, <1>2 DEF Streams, Exchange
<1>7. ASSUME Live(k)
      PROVE  /\ client[k.of].pc = "go" /\ k.toServer = <<Answer(client[k.of].agreed)>>
             /\ k.toClient = <<>> /\ (client[k.of].agreed => server.my_answer)
  <2>1. k.toServer # <<>>
    OBVIOUS
  <2> QED BY <1>6, <1>7, <2>1 DEF AnswerExchange
<1>8. ASSUME Live(k) PROVE client[k.of].agreed = ok
  BY <1>3, <1>7, <1>8 DEF Answer
<1>9. ASSUME Live(k), Head(k.toServer).ok PROVE server.my_answer
  BY <1>5, <1>7, <1>8, <1>9
<1>10. Live(k) => client[k.of].agreed = Head(k.toServer).ok
  BY <1>5, <1>8
<1> HIDE DEF k
<1>11. /\ Head(k.toServer).type = "answer" /\ Head(k.toServer).ok \in BOOLEAN
       /\ Tail(k.toServer) = <<>>
  BY <1>4, <1>5
<1>12. Live(k) => /\ client[k.of].command = server.command
                  /\ client[k.of].pc = "go"
                  /\ k.toClient = <<>>
  BY <1>6, <1>7
<1> QED BY <1>9, <1>10, <1>11, <1>12 DEF k

LEMMA AppendToNone ==
  ASSUME NEW b, NEW q, q = <<>>
  PROVE  Append(q, b) = <<b>>
OBVIOUS

LEMMA HeadOfOne ==
  ASSUME NEW a, NEW q, q = <<a>>
  PROVE  Head(q) = a /\ Tail(q) = <<>>
OBVIOUS

LEMMA AppendToOne ==
  ASSUME NEW a, NEW b, NEW q, q = <<a>>
  PROVE  Append(q, b) = <<a, b>>
<1>1. <<a>> \in Seq({a, b}) /\ Len(<<a>>) = 1 /\ <<a>>[1] = a /\ b \in {a, b}
  OBVIOUS
<1>2. /\ Append(<<a>>, b) \in Seq({a, b}) /\ Len(Append(<<a>>, b)) = 2
      /\ Append(<<a>>, b)[1] = a /\ Append(<<a>>, b)[2] = b
  BY <1>1
<1>3. <<a, b>> \in Seq({a, b}) /\ Len(<<a, b>>) = 2 /\ <<a, b>>[1] = a /\ <<a, b>>[2] = b
  OBVIOUS
<1>4. \A i \in 1 .. 2 : Append(<<a>>, b)[i] = <<a, b>>[i]
  BY <1>2, <1>3
<1> QED BY <1>2, <1>3, <1>4, SeqEqual

\* An answer line to a client that waits for nothing else is an exchange.
LEMMA LineSent ==
  ASSUME NEW k, NEW c, NEW l \in Lines, NEW s, NEW n, k.toServer = <<>>, s.pc \in {"line", "leave"},
         k.server = "open",
         \/ c.pc = "line" /\ k.toClient = <<>>
         \/ c.pc = "line" /\ \E ok \in BOOLEAN : k.toClient = <<Ready(ok)>>
         \/ c.pc = "go" /\ ~c.agreed /\ \E i \in Nat : k.toClient = <<Go(i)>>,
         NEW r, Arrived(k, r, l)
  PROVE  Exchange(r, c, s, n)
<1>1. r.server = "open" /\ r.toServer = <<>> /\ r.toClient = Append(k.toClient, l)
  BY DEF Arrived
<1>2. CASE c.pc = "line" /\ k.toClient = <<>>
  <2>1. r.toClient = <<l>>
    BY <1>1, <1>2
  <2> QED BY <1>1, <1>2, <2>1 DEF LineExchange, Exchange, Stage
<1>3. CASE c.pc = "line" /\ \E ok \in BOOLEAN : k.toClient = <<Ready(ok)>>
  <2>1. PICK ok \in BOOLEAN : k.toClient = <<Ready(ok)>>
    BY <1>3
  <2>2. r.toClient = <<Ready(ok), l>>
    BY <1>1, <2>1, AppendToOne
  <2> QED BY <1>1, <1>3, <2>2 DEF LineExchange, Exchange, Stage
<1>4. CASE c.pc = "go" /\ ~c.agreed /\ \E i \in Nat : k.toClient = <<Go(i)>>
  <2>1. PICK i \in Nat : k.toClient = <<Go(i)>>
    BY <1>4
  <2>2. r.toClient = <<Go(i), l>>
    BY <1>1, <2>1, AppendToOne
  <2>3. r.toClient = <<Go(r.toClient[1].next), l>>
    BY <2>2 DEF Go
  <2> QED BY <1>1, <1>4, <2>3 DEF LineExchange, Exchange, Stage
<1> QED BY <1>2, <1>3, <1>4

\* Out of an upload nothing is asked of the file.
LEMMA NoUpload ==
  ASSUME server'.pc \in {"dead", "accept", "leave"} \/ (server'.pc = "line" /\ server'.res # "Completed")
  PROVE  Session'
BY DEF Session

LEMMA AcceptStep ==
  ASSUME SessionInv, ServerAccept
  PROVE  SessionInv'
<1> USE DEF SessionInv
<1>1. PICK i \in Conns :
        /\ conn[i].server = "queued"
        /\ Put(i, [conn[i] EXCEPT !.server = "open"])
        /\ server' = [server EXCEPT !.pc = "line", !.conn = i]
  BY DEF ServerAccept
<1>2. server.pc = "accept" /\ UNCHANGED <<client, session_next>> /\ server \in ServerStates
      /\ server.res # "Completed"
  BY DEF ServerAccept, TypeOK, Places, ServerPlace
<1>3. server' \in ServerStates /\ server'.pc = "line" /\ server'.conn = i
      /\ server'.res = server.res
  BY <1>1, <1>2 DEF ServerStates, ServerPCs
<1> DEFINE r == [conn[i] EXCEPT !.server = "open"]
<1>4. r \in Connections /\ r.of = conn[i].of /\ r.client = conn[i].client /\ r.server = "open"
      /\ r.cut = conn[i].cut /\ r.reset = conn[i].reset
      /\ r.toServer = conn[i].toServer /\ r.toClient = conn[i].toClient
  BY PlacesAt DEF Connections
<1> HIDE DEF r
<1>5. /\ conn' \in [Conns -> Connections]
      /\ conn'[i] = r
      /\ \A j \in Conns : j # i => conn'[j] = conn[j]
  BY <1>1, <1>4 DEF TypeOK, Put, r
<1>6. \A j \in Conns : conn[j].server # "open"
  BY <1>2, PlacesAt DEF Serving
<1>7. ASSUME NEW j \in Conns
      PROVE  Place(j, conn[j])'
  BY <1>1, <1>2, <1>3, <1>4, <1>5, <1>6, PlacesAt DEF Place, Serving
<1>8. ASSUME NEW c \in Clients
      PROVE  ClientPlace(c)'
  <2>1. ClientPlace(c)
    BY DEF Places
  <2> QED BY <1>2, <1>4, <1>5, <2>1 DEF ClientPlace, Where
<1>9. ServerPlace'
  BY <1>3, <1>4, <1>5 DEF ServerPlace
<1>10. ASSUME NEW j \in Conns
       PROVE  /\ Script(conn[j], server, session_next)'
              /\ (Live(conn[j]) => Exchange(conn[j], client[conn[j].of], server, session_next))'
  <2>1. /\ Script(conn[j], server, session_next)
        /\ Live(conn[j]) => Exchange(conn[j], client[conn[j].of], server, session_next)
    BY DEF Streams
  <2>2. /\ Stage(conn'[j], server') = Stage(conn[j], server)
        /\ Stage(conn[j], server) \in {"line", "none"}
    BY <1>1, <1>3, <1>4, <1>5, <1>6 DEF Stage
  <2>3. /\ conn'[j].toServer = conn[j].toServer /\ conn'[j].toClient = conn[j].toClient
        /\ conn'[j].client = conn[j].client /\ conn'[j].cut = conn[j].cut
        /\ conn'[j].of = conn[j].of
    BY <1>4, <1>5
  <2> QED BY <1>2, <2>1, <2>2, <2>3 DEF Script, Exchange, LineExchange, Live
<1>11. TypeOK'
  BY <1>3, <1>5 DEF TypeOK, ServerAccept
<1>12. Session' /\ ResumeCovered'
  BY <1>2, <1>3, NoUpload DEF ResumeCovered, ServerAccept
<1> QED BY <1>7, <1>8, <1>9, <1>10, <1>11, <1>12 DEF Places, Streams

LEMMA LeaveStep ==
  ASSUME SessionInv, ServerLeave
  PROVE  SessionInv'
<1> USE DEF SessionInv
<1>1. /\ server.pc = "leave" /\ Serving
      /\ server' = [server EXCEPT !.pc = "accept", !.conn = 0, !.command = NoCommand,
                                  !.res = "none"]
      /\ server' \in ServerStates
  BY CommandTypes DEF ServerLeave, Serving, TypeOK, ServerStates, ServerPCs, LineResults
<1>2. server'.pc = "accept" /\ server'.res = "none"
  BY <1>1 DEF TypeOK, ServerStates
<1> DEFINE i == server.conn
           r == Closed(conn[i], "server")
<1>3. i \in Conns /\ conn[i] \in Connections /\ conn[i].server = "open"
  BY <1>1, PlacesAt DEF Places, ServerPlace
<1>4. /\ conn' \in [Conns -> Connections]
      /\ conn'[i] = r
      /\ \A j \in Conns : j # i => conn'[j] = conn[j] /\ conn[j].server # "open"
  BY <1>3, ServerClosed, PlacesAt DEF TypeOK, Put, ServerLeave
<1>5. /\ r.of = conn[i].of /\ r.client = conn[i].client /\ r.server = "closed"
      /\ "server" \in r.reset => conn[i].client = "closed"
  BY <1>3, ServerClosed, PlacesAt
<1> HIDE DEF r
<1>6. Places' /\ Streams'
  BY <1>1, <1>2, <1>3, <1>4, <1>5, ServerEnds DEF ServerLeave
<1>7. TypeOK'
  BY <1>1, <1>4 DEF TypeOK, ServerLeave
<1>8. Session' /\ ResumeCovered'
  BY <1>2, NoUpload DEF ResumeCovered, ServerLeave
<1> QED BY <1>6, <1>7, <1>8

-----------------------------------------------------------------------------
(***************************************************************************)
(* The server answers a command.                                           *)
(***************************************************************************)
\* On a connection the server can write to its client, the answer line is
\* sent, whatever the step was: all that remains is the message.
LEMMA ReplyTurn ==
  ASSUME TypeOK, Places, Streams, Serving, NEW k, Served(k), k.toServer = <<>>,
         NEW s \in ServerStates, s.conn = server.conn, s.pc \in {"line", "leave"},
         NEW n \in Nat,
         Live(k) =>
           LET c == client[k.of]
           IN s.pc = "line" =>
                \/ c.pc = "line" /\ k.toClient = <<>>
                \/ c.pc = "line" /\ \E ok \in BOOLEAN : k.toClient = <<Ready(ok)>>
                \/ c.pc = "go" /\ ~c.agreed /\ \E i \in Nat : k.toClient = <<Go(i)>>,
         ServerReplies(server.conn, k, s), session_next' = n, UNCHANGED client
  PROVE  /\ Places' /\ Streams' /\ conn' \in [Conns -> Connections]
         /\ server' \in ServerStates
         /\ \/ server' = s /\ conn'[server.conn].of = conn[server.conn].of
            \/ server'.pc = "dead"
<1> DEFINE l == Line(s.res, s.command)
<1>1. l \in Lines /\ l \in ToClient
  BY MessageTypes DEF ServerStates
<1>2. Script(k, s, n)
  BY EmptyScript
<1> HIDE DEF l
<1>3. ASSUME Live(k), NEW r, Arrived(k, r, l)
      PROVE  Exchange(r, client[r.of], s, n)
  <2>1. r.of = k.of /\ k.server = "open" /\ r.server = "open"
    BY <1>3 DEF Arrived, Served
  <2>2. CASE s.pc = "leave"
    BY <2>1, <2>2 DEF Exchange, Stage
  <2>3. CASE s.pc = "line"
    BY <1>1, <1>3, <2>1, <2>3, LineSent
  <2> QED BY <2>2, <2>3
<1>4. ServerSends(server.conn, k, l, s)
  BY DEF ServerReplies, l
<1> QED BY <1>1, <1>2, <1>3, <1>4, ServerSendsTurn

\* The rest of the state after a step of the server.
Rest ==
  /\ session_next \in Nat
  /\ session_of \in AllUploads \cup {Nobody, Mixed}
  /\ files \in [Names -> FileStates]
  /\ ResumeCovered

ClientsRest == <<client, restore_string, is_restore_connection, given, faults>>

\* An answer line that does not tell of a completed upload ends the business
\* with the client.
LEMMA ReplyStep ==
  ASSUME SessionInv, Serving, NEW k, Served(k), k.toServer = <<>>,
         NEW s \in ServerStates, s.conn = server.conn, s.pc \in {"line", "leave"},
         s.res # "Completed",
         Live(k) =>
           LET c == client[k.of]
           IN s.pc = "line" =>
                \/ c.pc = "line" /\ k.toClient = <<>>
                \/ c.pc = "line" /\ \E ok \in BOOLEAN : k.toClient = <<Ready(ok)>>
                \/ c.pc = "go" /\ ~c.agreed /\ \E i \in Nat : k.toClient = <<Go(i)>>,
         ServerReplies(server.conn, k, s), Rest', UNCHANGED ClientsRest
  PROVE  SessionInv'
<1> USE DEF SessionInv
<1>1. UNCHANGED client /\ session_next' \in Nat
  BY DEF ClientsRest, Rest
<1>2. /\ Places' /\ Streams' /\ conn' \in [Conns -> Connections]
      /\ server' \in ServerStates /\ (server' = s \/ server'.pc = "dead")
  BY <1>1, ReplyTurn
<1>3. TypeOK'
  BY <1>2 DEF TypeOK, Rest, ClientsRest
<1>4. Session' /\ ResumeCovered'
  BY <1>2, NoUpload DEF Rest
<1> QED BY <1>2, <1>3, <1>4

LEMMA DiesStep ==
  ASSUME SessionInv, Serving, NEW k, Served(k), ServerDies(server.conn, k),
         Rest', UNCHANGED ClientsRest
  PROVE  SessionInv'
<1> USE DEF SessionInv
<1>1. /\ Places' /\ Streams' /\ conn' \in [Conns -> Connections]
      /\ server' = [server EXCEPT !.pc = "dead"] /\ server' \in ServerStates
  BY ServerDiesTurn DEF ClientsRest
<1>2. server'.pc = "dead"
  BY <1>1 DEF TypeOK, ServerStates
<1>3. TypeOK'
  BY <1>1 DEF TypeOK, Rest, ClientsRest
<1>4. Session' /\ ResumeCovered'
  BY <1>2, NoUpload DEF Rest
<1> QED BY <1>1, <1>3, <1>4

LEMMA RestKept ==
  ASSUME SessionInv, UNCHANGED <<session_next, session_of, files>>
  PROVE  Rest'
BY DEF SessionInv, TypeOK, ResumeCovered, Rest

LEMMA IdleStep ==
  ASSUME SessionInv, ServerIdle
  PROVE  SessionInv'
<1> DEFINE s == [server EXCEPT !.pc = "leave", !.command = NoCommand, !.res = "Unknown command"]
<1>1. Serving /\ Served(conn[server.conn]) /\ conn[server.conn].toServer = <<>>
  BY ServedNow DEF ServerIdle, Serving, ServerRecvFails, SessionInv
<1>2. s \in ServerStates /\ s.conn = server.conn /\ s.pc = "leave" /\ s.res = "Unknown command"
  BY CommandTypes DEF TypeOK, ServerStates, ServerPCs, LineResults, SessionInv
<1>3. ServerReplies(server.conn, conn[server.conn], s)
  BY DEF ServerIdle
<1>4. Rest' /\ UNCHANGED ClientsRest
  BY RestKept DEF ServerIdle, ClientsRest
<1> HIDE DEF s
<1> QED BY <1>1, <1>2, <1>3, <1>4, ReplyStep

\* The upload of which a handshake fails is the one that is counted, if one
\* is, and its file goes.
LEMMA RemovedCovers ==
  ASSUME TypeOK, server.command.name \in Names,
         session_of \in {Upload(conn[server.conn].of, server.command.name), Mixed},
         files' = Removed(files, server.command), session_of' = session_of
  PROVE  ResumeCovered'
<1>1. ~files'[server.command.name].exists
  BY FileTypes DEF TypeOK, ServerStates
<1>2. Upload(conn[server.conn].of, server.command.name).name = server.command.name
  BY DEF Upload
<1> QED BY <1>1, <1>2 DEF ResumeCovered

LEMMA RefusesStep ==
  ASSUME SessionInv, server.pc = "answer", NEW k, Served(k), k.toServer = <<>>,
         Live(k) =>
           LET c == client[k.of]
           IN \/ c.pc = "line" /\ \E ok \in BOOLEAN : k.toClient = <<Ready(ok)>>
              \/ c.pc = "go" /\ ~c.agreed /\ \E i \in Nat : k.toClient = <<Go(i)>>,
         ServerRefuses(server.conn, k),
         UNCHANGED ClientsRest, UNCHANGED <<session_next, session_of>>
  PROVE  SessionInv'
<1> DEFINE s == [server EXCEPT !.pc = "line", !.res = "Bad handshake"]
<1>1. s \in ServerStates /\ s.conn = server.conn /\ s.pc = "line" /\ s.res = "Bad handshake"
  BY DEF TypeOK, ServerStates, ServerPCs, LineResults, SessionInv
<1>2. ServerReplies(server.conn, k, s) /\ files' = Removed(files, server.command)
  BY DEF ServerRefuses
<1>3. server.command.name \in Names /\ server.command \in AllCommands
      /\ session_of \in {Upload(conn[server.conn].of, server.command.name), Mixed}
  BY CommandTypes DEF Places, ServerPlace, Session, SessionInv
<1>4. Rest'
  BY <1>2, <1>3, FileTypes, RemovedCovers DEF TypeOK, SessionInv, Rest
<1> HIDE DEF s
<1> QED BY <1>1, <1>2, <1>4, ReplyStep DEF Serving

LEMMA AnswerLostStep ==
  ASSUME SessionInv, ServerAnswerLost
  PROVE  SessionInv'
<1> USE DEF SessionInv
<1> DEFINE k == conn[server.conn]
           c == client[k.of]
<1>1. server.pc = "answer" /\ Serving /\ k.toServer = <<>> /\ ClientSilent(server.conn)
  BY DEF ServerAnswerLost, ServerRecvFails, Serving
<1>2. server.conn \in Conns /\ Served(k)
  BY <1>1, ServedNow
<1>3. ASSUME Live(k)
      PROVE  c.pc = "line" /\ \E ok \in BOOLEAN : k.toClient = <<Ready(ok)>>
  <2>1. AnswerExchange(k, c, server)
    BY <1>1, <1>2, <1>3 DEF Streams, Exchange, Stage, Served
  <2>2. c.pc \in {"ready", "line"} /\ k.toClient = <<Ready(server.my_answer)>>
    BY <1>1, <2>1 DEF AnswerExchange
  <2>3. server.my_answer \in BOOLEAN /\ k.toClient # <<>>
    BY <2>2 DEF TypeOK, ServerStates
  <2>4. c.pc # "ready"
    BY <1>1, <1>2, <1>3, <2>3 DEF ClientSilent, Live, Served
  <2> QED BY <2>2, <2>3, <2>4
<1>4. /\ ServerRefuses(server.conn, k)
      /\ UNCHANGED ClientsRest /\ UNCHANGED <<session_next, session_of>>
  BY DEF ServerAnswerLost, ClientsRest
<1> HIDE DEF k, c
<1> QED BY <1>1, <1>2, <1>3, <1>4, RefusesStep DEF c

-----------------------------------------------------------------------------
(***************************************************************************)
(* The server starts an upload.                                            *)
(***************************************************************************)
LEMMA AnswerStep ==
  ASSUME SessionInv, ServerAnswer
  PROVE  SessionInv'
<1> USE DEF SessionInv
<1> DEFINE k0 == conn[server.conn]
           k == [k0 EXCEPT !.toServer = Tail(@)]
           m == Head(k0.toServer)
           c == client[k.of]
           agreed == server.my_answer /\ m.ok
           n == session_next
           sData == [server EXCEPT !.pc = "data"]
<1>1. server.pc = "answer" /\ Serving /\ k0.toServer # <<>> /\ server \in ServerStates
      /\ n \in Nat
  BY DEF ServerAnswer, Serving, TypeOK
<1>2. server.conn \in Conns /\ Served(k0) /\ k0 \in Connections
  BY <1>1, ServedNow, PlacesAt
<1>3. /\ m.ok \in BOOLEAN /\ Tail(k0.toServer) = <<>>
      /\ Live(k0) => /\ client[k0.of].command = server.command
                     /\ client[k0.of].pc = "go" /\ client[k0.of].agreed = m.ok
                     /\ (m.ok => server.my_answer)
                     /\ k0.toClient = <<>>
  BY <1>1, AnswerRead
<1>4. k = [k0 EXCEPT !.toServer = <<>>] /\ Served(k)
  <2>1. <<>> \in Seq(ToServer)
    OBVIOUS
  <2> QED BY <1>1, <1>3, <2>1, ServedNow
<1>5. k.of = k0.of /\ k.toServer = <<>> /\ k.toClient = k0.toClient /\ k \in Connections
      /\ (Live(k) <=> Live(k0)) /\ k.server = "open"
  BY <1>2, <1>4 DEF Served, Connections, Live
<1>6. /\ server.command \in Uploads /\ server.command.name \in Names
      /\ session_of \in {Upload(k0.of, server.command.name), Mixed}
      /\ server.command.op = "UPLOAD" => n = 0
      /\ server.my_answer => files[server.command.name].exists
  BY <1>1, CommandTypes DEF Places, ServerPlace, Session
<1>7. UNCHANGED ClientsRest /\ UNCHANGED <<session_next, session_of>>
  BY DEF ServerAnswer, ClientsRest
<1>8. Go(n) \in ToClient
  BY <1>1, MessageTypes
<1>9. PICK o \in Sent(k, "server", Go(n)) :
        \/ /\ o.res = "sent" /\ agreed
           /\ Put(server.conn, o.conn) /\ server' = sData
           /\ UNCHANGED files
        \/ /\ o.res = "error" \/ (o.res = "sent" /\ ~agreed)
           /\ ServerRefuses(server.conn, o.conn)
        \/ /\ o.res = "error" /\ agreed /\ server.command.op = "UPLOAD_CONTINUE"
           /\ ServerReplies(server.conn, o.conn,
                [server EXCEPT !.pc = "line", !.res = "Bad handshake 2"])
           /\ UNCHANGED files
        \/ /\ o.res = "killed"
           /\ ServerDies(server.conn, o.conn)
           /\ UNCHANGED files
  BY DEF ServerAnswer
<1> HIDE DEF k0, k, m, c, n
<1>10. ServerWrote(k, o.conn) /\ Served(o.conn) /\ o.conn.toServer = <<>> /\ o.conn.of = k.of
       /\ (Live(o.conn) => Live(k) /\ o.res = "sent" /\ o.conn.toClient = Append(k.toClient, Go(n)))
  <2>1. ServerWrote(k, o.conn)
    BY <1>5, <1>8, ServerSent
  <2>2. Served(o.conn)
    BY <1>4, <2>1, ServedWritten
  <2>3. Live(o.conn) => Live(k) /\ "server" \notin k.reset
    BY <1>4, <2>1 DEF Live, ServerWrote, Served
  <2>4. Live(k) /\ "server" \notin k.reset => o.res = "sent" /\ o.conn.toClient = Append(k.toClient, Go(n))
    BY <1>5, <1>8, ServerSent DEF Live
  <2> QED BY <1>5, <2>1, <2>2, <2>3, <2>4 DEF ServerWrote
<1>11. CASE /\ o.res = "sent" /\ agreed
            /\ Put(server.conn, o.conn) /\ server' = sData
            /\ UNCHANGED files
  <2>1. sData \in ServerStates /\ sData.conn = server.conn /\ sData.pc = "data"
        /\ sData.command = server.command
    BY <1>1 DEF ServerStates, ServerPCs
  <2> HIDE DEF sData
  <2>2. Script(k, sData, n)
    BY <1>1, <1>5, EmptyScript
  <2>3. ASSUME Live(k), NEW r, Arrived(k, r, Go(n)) PROVE Exchange(r, client[r.of], sData, n)
    <3>1. r.of = k0.of /\ r.toServer = <<>> /\ r.server = "open" /\ r.toClient = <<Go(n)>>
      BY <1>3, <1>5, <2>3, AppendToNone DEF Arrived
    <3>2. /\ client[k0.of].command = server.command
          /\ client[k0.of].pc = "go" /\ client[k0.of].agreed = m.ok
      BY <1>3, <1>5, <2>3
    <3>3. client[k0.of].agreed
      BY <1>3, <1>11, <3>2
    <3> QED BY <1>6, <2>1, <3>1, <3>2, <3>3 DEF Exchange, DataExchange, Stage
  <2>4. /\ Places' /\ Streams' /\ conn' \in [Conns -> Connections]
    BY <1>1, <1>4, <1>6, <1>7, <1>8, <1>11, <2>1, <2>2, <2>3, ServerSendTurn
    DEF n, ClientsRest
  <2>5. TypeOK'
    BY <1>7, <1>11, <2>1, <2>4 DEF TypeOK, ClientsRest
  <2>6. conn'[server.conn].of = k0.of
    BY <1>2, <1>5, <1>10, <1>11 DEF Put, TypeOK
  <2>7. Session'
    BY <1>6, <1>7, <1>11, <2>1, <2>6 DEF Session
  <2>8. ResumeCovered'
    BY <1>7, <1>11 DEF ResumeCovered
  <2> QED BY <2>4, <2>5, <2>7, <2>8
<1>12. CASE /\ o.res = "error" \/ (o.res = "sent" /\ ~agreed)
            /\ ServerRefuses(server.conn, o.conn)
  <2>1. ASSUME Live(o.conn)
        PROVE  LET d == client[o.conn.of]
               IN d.pc = "go" /\ ~d.agreed /\ \E i \in Nat : o.conn.toClient = <<Go(i)>>
    <3>1. Live(k0) /\ ~agreed /\ o.conn.toClient = Append(k0.toClient, Go(n))
      BY <1>5, <1>10, <1>12, <2>1
    <3>2. o.conn.toClient = <<Go(n)>>
      BY <1>3, <3>1, AppendToNone
    <3>3. client[o.conn.of].pc = "go" /\ client[o.conn.of].agreed = m.ok /\ (m.ok => server.my_answer)
      BY <1>3, <1>5, <1>10, <3>1
    <3>4. ~client[o.conn.of].agreed
      BY <1>3, <3>1, <3>3
    <3> QED BY <1>1, <3>2, <3>3, <3>4
  <2> QED BY <1>1, <1>7, <1>10, <1>12, <2>1, RefusesStep
<1>13. CASE /\ o.res = "error" /\ agreed /\ server.command.op = "UPLOAD_CONTINUE"
            /\ ServerReplies(server.conn, o.conn,
                 [server EXCEPT !.pc = "line", !.res = "Bad handshake 2"])
            /\ UNCHANGED files
  <2> DEFINE s == [server EXCEPT !.pc = "line", !.res = "Bad handshake 2"]
  <2>1. s \in ServerStates /\ s.conn = server.conn /\ s.pc = "line" /\ s.res = "Bad handshake 2"
    BY <1>1 DEF ServerStates, ServerPCs, LineResults
  <2>2. ServerReplies(server.conn, o.conn, s) /\ ~Live(o.conn)
    BY <1>10, <1>13
  <2> HIDE DEF s
  <2> QED BY <1>1, <1>7, <1>10, <1>13, <2>1, <2>2, RestKept, ReplyStep
<1>14. CASE /\ o.res = "killed"
            /\ ServerDies(server.conn, o.conn)
            /\ UNCHANGED files
  BY <1>1, <1>7, <1>10, <1>14, RestKept, DiesStep
<1> QED BY <1>9, <1>11, <1>12, <1>13, <1>14

LEMMA SectorLostStep ==
  ASSUME SessionInv, ServerSectorLost
  PROVE  SessionInv'
<1> USE DEF SessionInv
<1> DEFINE k == conn[server.conn]
           c == client[k.of]
           s == [server EXCEPT !.pc = "line", !.res = "Error receiving size"]
<1>1. server.pc = "data" /\ Serving /\ k.toServer = <<>> /\ ClientSilent(server.conn)
      /\ session_next \in Nat
  BY DEF ServerSectorLost, ServerRecvFails, Serving, TypeOK
<1>2. server.conn \in Conns /\ Served(k)
  BY <1>1, ServedNow
<1>3. s \in ServerStates /\ s.conn = server.conn /\ s.pc = "line" /\ s.res = "Error receiving size"
  BY DEF TypeOK, ServerStates, ServerPCs, LineResults
<1>4. ~Live(k)
  <2> SUFFICES ASSUME Live(k) PROVE FALSE
    OBVIOUS
  <2>1. DataExchange(k, c, session_next)
    BY <1>1, <1>2 DEF Streams, Exchange, Stage, Served
  <2>2. c.pc \in {"go", "send"} /\ (c.pc = "go" => k.toClient # <<>>)
    BY <1>1, <2>1 DEF DataExchange
  <2> QED BY <1>1, <1>2, <2>2 DEF ClientSilent, Live, Served
<1>5. ServerReplies(server.conn, k, s) /\ Rest' /\ UNCHANGED ClientsRest
  BY RestKept DEF ServerSectorLost, ClientsRest
<1> HIDE DEF k, c, s, SessionInv
<1> QED BY <1>1, <1>2, <1>3, <1>4, <1>5, ReplyStep

\* The first byte of the handshake, to a client that waits for it.
LEMMA StartStep ==
  ASSUME SessionInv, server.pc = "line", NEW k, Served(k), k.toServer = <<>>,
         NEW command \in Uploads,
         Live(k) => /\ client[k.of].pc \in {"ready", "line"}
                    /\ client[k.of].command = command /\ k.toClient = <<>>,
         StartUpload(server.conn, k, command), UNCHANGED ClientsRest
  PROVE  SessionInv'
<1> USE DEF SessionInv
<1> DEFINE fs == Opened(command)
           s == [server EXCEPT !.pc = "answer", !.command = command, !.res = "none",
                               !.my_answer = fs[command.name].exists]
           up == Upload(k.of, command.name)
           n == ResumePoint(command)
<1>1. command.name \in Names /\ command \in AllCommands
      /\ command.op \in {"UPLOAD", "UPLOAD_CONTINUE"}
  BY CommandTypes
<1>2. fs \in [Names -> FileStates] /\ fs[command.name].exists \in BOOLEAN
  BY <1>1, FileTypes DEF TypeOK, FileStates
<1>3. /\ s \in ServerStates /\ s.conn = server.conn /\ s.pc = "answer" /\ s.command = command
      /\ s.res = "none" /\ s.my_answer = fs[command.name].exists
  BY <1>1, <1>2 DEF TypeOK, ServerStates, ServerPCs, LineResults
<1>4. Serving /\ server.conn \in Conns /\ k \in Connections /\ k.of = conn[server.conn].of
      /\ k.server = "open"
  BY ServedNow DEF Serving, Served
<1>5. k.of \in Clients /\ up \in AllUploads /\ up.name = command.name
  BY <1>1, <1>4, PlacesAt DEF Upload, AllUploads, Places, ServerPlace, Connections
<1>6. /\ n \in Nat /\ (command.op = "UPLOAD" => n = 0)
      /\ (command.op = "UPLOAD_CONTINUE" => n = session_next)
  BY <1>1 DEF ResumePoint, TypeOK
<1>7. session_next' = n /\ session_of' = Counted(command, up)
  BY DEF StartUpload
<1>8. session_of' \in {up, Mixed} /\ session_of' \in AllUploads \cup {Nobody, Mixed}
  BY <1>5, <1>7 DEF Counted
<1>9. Ready(s.my_answer) \in ToClient
  BY <1>2, <1>3, MessageTypes
<1>10. ASSUME files' = fs
       PROVE  Rest'
  <2>1. ASSUME session_of' = up, command.op = "UPLOAD_CONTINUE"
        PROVE  ResumeCovered'
    <3>1. session_of = up \/ up = Mixed
      BY <1>7, <2>1 DEF Counted
    <3>2. files' = files /\ session_next' = session_next
      BY <1>6, <1>7, <1>10, <2>1 DEF Opened
    <3> QED BY <2>1, <3>1, <3>2 DEF ResumeCovered
  <2>2. ASSUME session_of' = up, command.op = "UPLOAD"
        PROVE  ResumeCovered'
    BY <1>6, <1>7, <2>2 DEF ResumeCovered, Sectors
  <2>3. ASSUME session_of' = Mixed
        PROVE  ResumeCovered'
    BY <2>3 DEF ResumeCovered
  <2> QED BY <1>1, <1>2, <1>6, <1>7, <1>8, <1>10, <2>1, <2>2, <2>3 DEF Rest
<1>11. ASSUME files' = Removed(fs, command)
       PROVE  Rest'
  <2>1. ~files'[command.name].exists /\ files' \in [Names -> FileStates]
    BY <1>1, <1>2, <1>11, FileTypes
  <2>2. ResumeCovered'
    BY <1>5, <1>8, <2>1 DEF ResumeCovered
  <2> QED BY <1>6, <1>7, <1>8, <2>1, <2>2 DEF Rest
<1>12. PICK o \in Sent(k, "server", Ready(s.my_answer)) :
         \/ /\ o.res = "sent"
            /\ Put(server.conn, o.conn) /\ server' = s /\ files' = fs
         \/ /\ o.res = "error"
            /\ ServerReplies(server.conn, o.conn, [s EXCEPT !.pc = "line", !.res = "Bad handshake"])
            /\ files' = Removed(fs, command)
         \/ /\ o.res = "killed"
            /\ ServerDies(server.conn, o.conn) /\ files' = fs
  BY DEF StartUpload
<1> HIDE DEF fs, s, up, n
<1>13. Served(o.conn) /\ o.conn.toServer = <<>> /\ o.conn.of = k.of
       /\ (Live(o.conn) => o.res = "sent")
  <2>1. ServerWrote(k, o.conn)
    BY <1>4, <1>9, ServerSent
  <2>2. Served(o.conn)
    BY <2>1, ServedWritten
  <2>3. Live(o.conn) => Live(k) /\ "server" \notin k.reset
    BY <2>1 DEF Live, ServerWrote, Served
  <2> QED BY <1>4, <1>9, <2>1, <2>2, <2>3, ServerSent DEF ServerWrote, Live
<1>14. CASE /\ o.res = "sent"
            /\ Put(server.conn, o.conn) /\ server' = s /\ files' = fs
  <2>1. Script(k, s, n)
    BY <1>6, EmptyScript
  <2>2. ASSUME Live(k), NEW r, Arrived(k, r, Ready(s.my_answer))
        PROVE  Exchange(r, client[r.of], s, n)
    <3>1. r.of = k.of /\ r.toServer = <<>> /\ r.server = "open"
          /\ r.toClient = <<Ready(s.my_answer)>>
      BY <1>4, <2>2, AppendToNone DEF Arrived
    <3> QED BY <1>3, <2>2, <3>1 DEF Exchange, AnswerExchange, Stage
  <2>3. Places' /\ Streams' /\ conn' \in [Conns -> Connections]
    BY <1>3, <1>4, <1>6, <1>7, <1>9, <1>14, <2>1, <2>2, ServerSendTurn DEF ClientsRest
  <2>4. TypeOK' /\ ResumeCovered'
    BY <1>3, <1>10, <1>14, <2>3 DEF TypeOK, Rest, ClientsRest
  <2>5. conn'[server.conn].of = k.of
    BY <1>4, <1>13, <1>14 DEF Put, TypeOK
  <2>6. Session'
    BY <1>3, <1>6, <1>7, <1>8, <1>14, <2>5 DEF Session, up
  <2> QED BY <2>3, <2>4, <2>6
<1>15. CASE /\ o.res = "error"
            /\ ServerReplies(server.conn, o.conn, [s EXCEPT !.pc = "line", !.res = "Bad handshake"])
            /\ files' = Removed(fs, command)
  <2> DEFINE t == [s EXCEPT !.pc = "line", !.res = "Bad handshake"]
  <2>1. t \in ServerStates /\ t.conn = server.conn /\ t.pc = "line" /\ t.res = "Bad handshake"
    BY <1>3 DEF ServerStates, ServerPCs, LineResults
  <2>2. ServerReplies(server.conn, o.conn, t)
    BY <1>15
  <2> HIDE DEF t
  <2> QED BY <1>4, <1>11, <1>13, <1>15, <2>1, <2>2, ReplyStep
<1>16. CASE /\ o.res = "killed"
            /\ ServerDies(server.conn, o.conn) /\ files' = fs
  BY <1>4, <1>10, <1>13, <1>16, DiesStep
<1> QED BY <1>12, <1>14, <1>15, <1>16

LEMMA CommandStep ==
  ASSUME SessionInv, ServerCommand
  PROVE  SessionInv'
<1> DEFINE k0 == conn[server.conn]
           k == [k0 EXCEPT !.toServer = Tail(@)]
           command == Head(k0.toServer)
           s == [server EXCEPT !.pc = IF command.op = "DISCONNECT" THEN "leave" ELSE "line",
                               !.command = command, !.res = LineResult(command)]
<1>1. server.pc = "line" /\ Serving /\ k0.toServer # <<>>
  BY DEF ServerCommand, Serving
<1>2. server.conn \in Conns /\ Served(k0) /\ k0 \in Connections
  BY <1>1, ServedNow, PlacesAt DEF SessionInv
<1>3. /\ command \in AllCommands /\ Tail(k0.toServer) = <<>>
      /\ Live(k0) => /\ client[k0.of].pc \in {"ready", "line"} /\ client[k0.of].command = command
                     /\ k0.toClient = <<>>
  BY <1>1, LineRead DEF SessionInv
<1>4. k = [k0 EXCEPT !.toServer = <<>>] /\ Served(k)
  <2>1. <<>> \in Seq(ToServer)
    OBVIOUS
  <2> QED BY <1>1, <1>3, <2>1, ServedNow DEF SessionInv
<1>5. k.of = k0.of /\ k.toServer = <<>> /\ k.toClient = k0.toClient
      /\ (Live(k) <=> Live(k0)) /\ (Live(k) => k.of \in Clients)
  BY <1>2, <1>4, PlacesAt DEF Served, Connections, Live, SessionInv
<1>6. UNCHANGED ClientsRest
  BY DEF ServerCommand, ClientsRest
<1>7. \/ command \in Uploads /\ StartUpload(server.conn, k, command)
      \/ /\ command \notin Uploads
         /\ ServerReplies(server.conn, k, s)
         /\ UNCHANGED <<session_next, session_of, files>>
  BY DEF ServerCommand
<1> HIDE DEF k0, command
<1>8. CASE command \in Uploads /\ StartUpload(server.conn, k, command)
  <2> HIDE DEF k
  <2> QED BY <1>1, <1>3, <1>4, <1>5, <1>6, <1>8, StartStep
<1>9. CASE /\ command \notin Uploads
           /\ ServerReplies(server.conn, k, s)
           /\ UNCHANGED <<session_next, session_of, files>>
  <2>1. LineResult(command) \in LineResults \ {"Completed"}
    BY DEF LineResult, LineResults
  <2>2. s \in ServerStates /\ s.conn = server.conn /\ s.pc \in {"line", "leave"}
        /\ s.res # "Completed"
    BY <1>3, <2>1 DEF TypeOK, ServerStates, ServerPCs, SessionInv
  <2> HIDE DEF k, s
  <2>3. ASSUME Live(k)
        PROVE  client[k.of].pc = "line" /\ k.toClient = <<>>
    <3>1. client[k.of].pc # "ready"
      BY <1>3, <1>5, <1>9, <2>3 DEF SessionInv, Places, ClientPlace
    <3> QED BY <1>3, <1>5, <2>3, <3>1
  <2>4. Rest'
    BY <1>9, RestKept
  <2> QED BY <1>1, <1>4, <1>5, <1>6, <1>9, <2>2, <2>3, <2>4, ReplyStep
<1> QED BY <1>7, <1>8, <1>9

-----------------------------------------------------------------------------
(***************************************************************************)
(* The server receives a sector.                                           *)
(***************************************************************************)
\* The sectors under way after one has been read.
LEMMA SectorRead ==
  ASSUME TypeOK, Places, Streams, server.pc = "data", conn[server.conn].toServer # <<>>
  PROVE  LET k == conn[server.conn]
             c == client[k.of]
             q == k.toServer
             n == session_next
         IN /\ Head(q) = Sector(k.of, server.command.name, n)
            /\ Tail(q) \in Seq(ToServer)
            /\ IsLast(n) => Tail(q) = <<>>
            /\ \A j \in 1 .. Len(Tail(q)) :
                 /\ Tail(q)[j] = Sector(k.of, server.command.name, n + 1 + j - 1)
                 /\ IsLast(n + 1 + j - 1) => j = Len(Tail(q))
            /\ Live(k) => /\ c.command = server.command
                          /\ k.toClient = <<>>
                          /\ IsLast(n) => c.pc = "line"
                          /\ ~IsLast(n) =>
                               \/ /\ c.pc = "send" /\ c.next = n + 1 + Len(Tail(q))
                                  /\ \A j \in 1 .. Len(Tail(q)) : ~IsLast(n + 1 + j - 1)
                               \/ /\ c.pc = "line" /\ Tail(q) # <<>>
                                  /\ IsLast(n + 1 + Len(Tail(q)) - 1)
<1> DEFINE k == conn[server.conn]
           c == client[k.of]
           q == k.toServer
           n == session_next
<1>1. server.conn \in Conns /\ k.server = "open" /\ q \in Seq(ToServer) /\ n \in Nat /\ q # <<>>
  BY PlacesAt, ConnectionType DEF Places, ServerPlace, Serving, TypeOK
<1>2. Script(k, server, n) /\ Stage(k, server) = "data"
      /\ (Live(k) => Exchange(k, c, server, n))
  BY <1>1 DEF Streams, Stage
<1>3. /\ Len(q) \in Nat /\ Len(q) >= 1 /\ Head(q) = q[1] /\ Tail(q) \in Seq(ToServer)
      /\ Len(Tail(q)) = Len(q) - 1
      /\ \A j \in 1 .. Len(q) - 1 : Tail(q)[j] = q[j + 1]
  BY <1>1
<1>4. \A j \in 1 .. Len(q) :
         /\ q[j] = Sector(k.of, server.command.name, n + j - 1)
         /\ IsLast(n + j - 1) => j = Len(q)
  BY <1>2 DEF Script
<1> HIDE DEF q, n
<1>5. n + 1 - 1 = n /\ \A j \in Nat : n + (j + 1) - 1 = n + 1 + j - 1
  BY <1>1 DEF n
<1>6. Head(q) = Sector(k.of, server.command.name, n)
  <2>1. 1 \in 1 .. Len(q)
    BY <1>3
  <2>2. q[1] = Sector(k.of, server.command.name, n + 1 - 1)
    BY <1>4, <2>1
  <2> QED BY <1>3, <1>5, <2>2
<1>7. IsLast(n) => Tail(q) = <<>>
  <2>1. 1 \in 1 .. Len(q)
    BY <1>3
  <2>2. IsLast(n + 1 - 1) => 1 = Len(q)
    BY <1>4, <2>1
  <2>3. IsLast(n) => Len(Tail(q)) = 0
    BY <1>3, <1>5, <2>2
  <2> QED BY <1>3, <2>3, EmptySeq
<1>8. ASSUME NEW j \in 1 .. Len(Tail(q))
      PROVE  /\ Tail(q)[j] = Sector(k.of, server.command.name, n + 1 + j - 1)
             /\ IsLast(n + 1 + j - 1) => j = Len(Tail(q))
  <2>1. j \in Nat /\ j + 1 \in 1 .. Len(q) /\ j \in 1 .. Len(q) - 1
    BY <1>3
  <2>2. n + (j + 1) - 1 = n + 1 + j - 1
    BY <1>5, <2>1
  <2>3. /\ q[j + 1] = Sector(k.of, server.command.name, n + 1 + j - 1)
        /\ IsLast(n + 1 + j - 1) => j + 1 = Len(q)
    BY <1>4, <2>1, <2>2
  <2>4. Tail(q)[j] = q[j + 1]
    BY ONLY <1>3, <2>1
  <2>5. ASSUME j + 1 = Len(q) PROVE j = Len(Tail(q))
    <3>1. \A l \in Nat : j + 1 = l => j = l - 1
      BY <2>1
    <3> QED BY <1>3, <2>5, <3>1
  <2> QED BY <2>3, <2>4, <2>5
<1>9. ASSUME Live(k)
      PROVE  /\ c.command = server.command /\ k.toClient = <<>>
             /\ \/ /\ c.pc = "send" /\ c.next = n + Len(q)
                   /\ \A j \in 1 .. Len(q) : ~IsLast(n + j - 1)
                \/ c.pc = "line" /\ IsLast(n + Len(q) - 1)
  BY <1>1, <1>2, <1>9 DEF Exchange, DataExchange, q, n
<1>10. ASSUME Live(k), IsLast(n) PROVE c.pc = "line"
  BY <1>3, <1>5, <1>9, <1>10
<1>11. ASSUME Live(k), ~IsLast(n)
       PROVE  \/ /\ c.pc = "send" /\ c.next = n + 1 + Len(Tail(q))
                 /\ \A j \in 1 .. Len(Tail(q)) : ~IsLast(n + 1 + j - 1)
              \/ /\ c.pc = "line" /\ Tail(q) # <<>>
                 /\ IsLast(n + 1 + Len(Tail(q)) - 1)
  <2>1. n + 1 + Len(Tail(q)) = n + Len(q) /\ n + 1 + Len(Tail(q)) - 1 = n + Len(q) - 1
    BY <1>1, <1>3 DEF n
  <2>2. CASE /\ c.pc = "send" /\ c.next = n + Len(q)
             /\ \A j \in 1 .. Len(q) : ~IsLast(n + j - 1)
    <3>1. ASSUME NEW j \in 1 .. Len(Tail(q)) PROVE ~IsLast(n + 1 + j - 1)
      <4>1. j \in Nat /\ j + 1 \in 1 .. Len(q)
        BY <1>3
      <4> QED BY <1>5, <2>2, <4>1
    <3> QED BY <2>1, <2>2, <3>1
  <2>3. CASE c.pc = "line" /\ IsLast(n + Len(q) - 1)
    <3>1. Len(q) # 1
      BY <1>5, <1>11, <2>3
    <3>2. Len(Tail(q)) # 0 /\ Len(<<>>) = 0
      BY <1>3, <3>1
    <3> QED BY <2>1, <2>3, <3>2
  <2> QED BY <1>9, <1>11, <2>2, <2>3
<1> HIDE DEF k, c
<1>12. /\ Head(q) = Sector(k.of, server.command.name, n)
       /\ Tail(q) \in Seq(ToServer)
       /\ IsLast(n) => Tail(q) = <<>>
  BY <1>3, <1>6, <1>7
<1>13. ASSUME Live(k)
       PROVE  /\ c.command = server.command
              /\ k.toClient = <<>>
              /\ IsLast(n) => c.pc = "line"
              /\ ~IsLast(n) =>
                   \/ /\ c.pc = "send" /\ c.next = n + 1 + Len(Tail(q))
                      /\ \A j \in 1 .. Len(Tail(q)) : ~IsLast(n + 1 + j - 1)
                   \/ /\ c.pc = "line" /\ Tail(q) # <<>>
                      /\ IsLast(n + 1 + Len(Tail(q)) - 1)
  BY <1>9, <1>10, <1>11, <1>13
<1> QED BY <1>8, <1>12, <1>13 DEF k, c, q, n

\* The upload counted is the one that goes on, or several, and what is
\* written is the next of its sectors.
LEMMA SectorCovers ==
  ASSUME TypeOK, ResumeCovered, NEW f \in Names, NEW up \in AllUploads, up.name = f,
         session_of \in {up, Mixed}, session_of' = session_of,
         files' = IF session_next \in Sectors
                  THEN [files EXCEPT ![f].sector[session_next] = up] ELSE files,
         session_next' = session_next + 1
  PROVE  /\ Rest'
         /\ files'[f].exists = files[f].exists
<1>1. files \in [Names -> FileStates] /\ session_next \in Nat
  BY DEF TypeOK
<1>2. /\ files[f] \in FileStates /\ files[f].sector \in [Sectors -> AllUploads \cup {Nobody}]
      /\ files[f].exists \in BOOLEAN
  BY <1>1 DEF FileStates
<1>3. /\ files' \in [Names -> FileStates]
      /\ files'[f].exists = files[f].exists
      /\ \A i \in Sectors : i # session_next => files'[f].sector[i] = files[f].sector[i]
      /\ session_next \in Sectors => files'[f].sector[session_next] = up
  <2>1. CASE session_next \in Sectors
    <3> DEFINE g == [files[f].sector EXCEPT ![session_next] = up]
               h == [files[f] EXCEPT !.sector = g]
    <3>1. g \in [Sectors -> AllUploads \cup {Nobody}] /\ g[session_next] = up
          /\ \A i \in Sectors : i # session_next => g[i] = files[f].sector[i]
      BY <1>2, <2>1
    <3>2. files' = [files EXCEPT ![f] = h]
      BY <1>1, <2>1
    <3> HIDE DEF g
    <3>3. h \in FileStates /\ h.exists = files[f].exists /\ h.sector = g
      BY <1>2, <3>1 DEF FileStates
    <3> HIDE DEF h
    <3>4. files' \in [Names -> FileStates] /\ files'[f] = h
      BY <1>1, <3>2, <3>3
    <3> QED BY <3>1, <3>3, <3>4
  <2>2. CASE session_next \notin Sectors
    BY <1>1, <2>2
  <2> QED BY <2>1, <2>2
<1>4. ASSUME session_of = up, session_of \notin {Nobody, Mixed}, files'[f].exists,
             NEW i \in Sectors, i < session_next + 1
      PROVE  files'[f].sector[i] = up
  <2>1. CASE i = session_next
    BY <1>3, <2>1
  <2>2. CASE i # session_next
    <3>1. i < session_next
      BY <1>1, <1>4, <2>2 DEF Sectors
    <3> QED BY <1>3, <1>4, <2>2, <3>1 DEF ResumeCovered
  <2> QED BY <2>1, <2>2
<1>5. ResumeCovered'
  BY <1>4 DEF ResumeCovered
<1> QED BY <1>1, <1>3, <1>5 DEF Rest, TypeOK

LEMMA SectorStep ==
  ASSUME SessionInv, ServerSector
  PROVE  SessionInv'
<1> USE DEF SessionInv
<1> DEFINE k0 == conn[server.conn]
           q == Tail(k0.toServer)
           k == [k0 EXCEPT !.toServer = Tail(@)]
           m == Head(k0.toServer)
           n == session_next
           s == [server EXCEPT !.pc = "line", !.res = "Completed"]
           up == Upload(k0.of, server.command.name)
<1>1. server.pc = "data" /\ Serving /\ k0.toServer # <<>> /\ n \in Nat /\ server \in ServerStates
  BY DEF ServerSector, Serving, TypeOK
<1>2. server.conn \in Conns /\ Served(k0) /\ k0 \in Connections /\ k0.of \in Clients
  BY <1>1, ServedNow, PlacesAt DEF Places, ServerPlace, Connections
<1>3. /\ m = Sector(k0.of, server.command.name, n) /\ q \in Seq(ToServer)
      /\ IsLast(n) => q = <<>>
      /\ \A j \in 1 .. Len(q) :
            /\ q[j] = Sector(k0.of, server.command.name, n + 1 + j - 1)
            /\ IsLast(n + 1 + j - 1) => j = Len(q)
      /\ Live(k0) => /\ client[k0.of].command = server.command
                     /\ k0.toClient = <<>>
                     /\ IsLast(n) => client[k0.of].pc = "line"
                     /\ ~IsLast(n) =>
                          \/ /\ client[k0.of].pc = "send" /\ client[k0.of].next = n + 1 + Len(q)
                             /\ \A j \in 1 .. Len(q) : ~IsLast(n + 1 + j - 1)
                          \/ /\ client[k0.of].pc = "line" /\ q # <<>>
                             /\ IsLast(n + 1 + Len(q) - 1)
  BY <1>1, SectorRead
<1>4. Served(k) /\ k.of = k0.of /\ k.toServer = q /\ k.toClient = k0.toClient
      /\ k.server = "open" /\ (Live(k) <=> Live(k0))
  BY <1>1, <1>2, <1>3, ServedNow DEF Served, Connections, Live
<1>5. m.num = n /\ m.of = up
  BY <1>3 DEF Sector, Upload
<1>6. /\ server.command \in Uploads /\ server.command.name \in Names
      /\ session_of \in {up, Mixed} /\ files[server.command.name].exists
  BY <1>1, CommandTypes DEF Places, ServerPlace, Session
<1>7. up \in AllUploads /\ up.name = server.command.name
  BY <1>2, <1>6 DEF Upload, AllUploads
<1>8. /\ session_next' = n + 1 /\ UNCHANGED ClientsRest /\ session_of' = session_of
      /\ files' = IF n \in Sectors
                  THEN [files EXCEPT ![server.command.name].sector[n] = up] ELSE files
      /\ \/ IsLast(n) /\ ServerReplies(server.conn, k, s)
         \/ ~IsLast(n) /\ Put(server.conn, k) /\ UNCHANGED server
  BY <1>5 DEF ServerSector, ClientsRest
<1> HIDE DEF k0, q, k, m, n, up
<1>9. Rest' /\ files'[server.command.name].exists
  BY <1>6, <1>7, <1>8, SectorCovers DEF n
<1>10. n + 1 \in Nat
  BY <1>1
<1>11. CASE IsLast(n) /\ ServerReplies(server.conn, k, s)
  <2>1. s \in ServerStates /\ s.conn = server.conn /\ s.pc = "line"
        /\ s.command = server.command /\ s.res = "Completed"
    BY <1>1 DEF ServerStates, ServerPCs, LineResults
  <2> HIDE DEF s
  <2>2. Live(k) => client[k.of].pc = "line" /\ k.toClient = <<>>
    BY <1>3, <1>4, <1>11
  <2>3. /\ Places' /\ Streams' /\ conn' \in [Conns -> Connections]
        /\ server' \in ServerStates
        /\ \/ server' = s /\ conn'[server.conn].of = k0.of
           \/ server'.pc = "dead"
    BY <1>1, <1>3, <1>4, <1>8, <1>10, <1>11, <2>1, <2>2, ReplyTurn DEF ClientsRest, k0
  <2>4. TypeOK' /\ ResumeCovered'
    BY <1>8, <1>9, <2>3 DEF TypeOK, Rest, ClientsRest
  <2>5. CASE server' = s /\ conn'[server.conn].of = k0.of
    <3>1. n + 1 >= NumSectors
      BY <1>11 DEF IsLast
    <3> QED BY <1>6, <1>8, <1>9, <2>1, <2>3, <2>4, <2>5, <3>1 DEF Session, up
  <2>6. CASE server'.pc = "dead"
    BY <2>3, <2>4, <2>6, NoUpload
  <2> QED BY <2>3, <2>5, <2>6
<1>12. CASE ~IsLast(n) /\ Put(server.conn, k) /\ UNCHANGED server
  <2>1. Script(k, server, n + 1)
    BY <1>1, <1>3, <1>4, <1>10 DEF Script, Stage
  <2>2. ASSUME Live(k) PROVE Exchange(k, client[k.of], server, n + 1)
    BY <1>1, <1>3, <1>4, <1>12, <2>2 DEF Exchange, DataExchange, Stage
  <2>3. Places' /\ Streams' /\ conn' \in [Conns -> Connections]
    BY <1>1, <1>4, <1>6, <1>8, <1>10, <1>12, <2>1, <2>2, ServerTurn DEF ClientsRest
  <2>4. TypeOK' /\ ResumeCovered'
    BY <1>8, <1>9, <1>12, <2>3 DEF TypeOK, Rest, ClientsRest
  <2>5. conn'[server.conn].of = k0.of
    BY <1>2, <1>4, <1>12 DEF Put, TypeOK
  <2>6. Session'
    BY <1>1, <1>6, <1>8, <1>9, <1>12, <2>5 DEF Session, up
  <2> QED BY <2>3, <2>4, <2>6
<1> QED BY <1>8, <1>11, <1>12

-----------------------------------------------------------------------------
(***************************************************************************)
(* The client on its connection.                                           *)
(***************************************************************************)
\* The connection of client c, whatever was read from it or sent on it.
Mine(c, k) ==
  /\ k \in Connections
  /\ k.of = c /\ k.client = "open"
  /\ k.server = conn[Where(c)].server /\ k.cut = conn[Where(c)].cut
  /\ "client" \in k.reset => k.server = "closed"
  /\ "server" \notin k.reset

InSession == {"input", "ready", "go", "send", "line"}

LEMMA MineNow ==
  ASSUME TypeOK, Places, NEW c \in Clients, client[c].pc \in InSession
  PROVE  /\ Where(c) \in Conns
         /\ Mine(c, conn[Where(c)])
         /\ \A q \in Seq(ToClient) :
              /\ Mine(c, [conn[Where(c)] EXCEPT !.toClient = q])
              /\ [conn[Where(c)] EXCEPT !.toClient = q].toClient = q
              /\ [conn[Where(c)] EXCEPT !.toClient = q].toServer = conn[Where(c)].toServer
<1>1. Where(c) \in Conns /\ conn[Where(c)].of = c /\ conn[Where(c)].client = "open"
  BY DEF Places, ClientPlace, InSession
<1>2. Mine(c, conn[Where(c)])
  BY <1>1, PlacesAt DEF Mine
<1>3. ASSUME NEW q \in Seq(ToClient)
      PROVE  /\ Mine(c, [conn[Where(c)] EXCEPT !.toClient = q])
             /\ [conn[Where(c)] EXCEPT !.toClient = q].toClient = q
             /\ [conn[Where(c)] EXCEPT !.toClient = q].toServer = conn[Where(c)].toServer
  BY <1>2 DEF Mine, Connections
<1> QED BY <1>1, <1>2, <1>3

\* Nothing more will be read from what the client sends, or the network takes
\* it: where the client is no longer matters.
Frozen(k) == k.cut \/ k.server = "closed"

LEMMA FrozenExchange ==
  ASSUME NEW k, Frozen(k), Live(k), NEW d, NEW s, NEW n
  PROVE  Exchange(k, d, s, n)
BY DEF Frozen, Live, Exchange, Stage

\* A send arrives on a connection that is not frozen; on the others it leaves
\* the server what it had to read.
LEMMA ClientSendTurn ==
  ASSUME TypeOK, Places, Streams, NEW c \in Clients, NEW k, Mine(c, k),
         NEW m \in ToServer, NEW o \in SentInTwo(k, "client", m)
  PROVE  /\ Mine(c, o.conn) /\ (Frozen(o.conn) <=> Frozen(k))
         /\ o.res \in {"sent", "error", "killed"}
         /\ Frozen(k) /\ Script(k, server, session_next)
              => Script(o.conn, server, session_next)
         /\ ~Frozen(k) => /\ o.res = "sent"
                          /\ o.conn.toServer = Append(k.toServer, m)
                          /\ o.conn.toClient = k.toClient
<1>1. /\ ClientWrote(k, o.conn)
      /\ o.res \in {"sent", "error", "killed"}
      /\ k.cut => o.conn = k
      /\ (k.server # "closed" /\ ~k.cut /\ "client" \notin k.reset) =>
           /\ o.res = "sent"
           /\ o.conn.toServer = Append(k.toServer, m)
           /\ o.conn.toClient = k.toClient
  BY ClientSent DEF Mine
<1>2. Mine(c, o.conn) /\ (Frozen(o.conn) <=> Frozen(k))
  BY <1>1 DEF Mine, Frozen, ClientWrote
<1>3. ASSUME Frozen(k), Script(k, server, session_next)
      PROVE  Script(o.conn, server, session_next)
  BY <1>1, <1>3 DEF Frozen, Script, Stage, ClientWrote
<1> QED BY <1>1, <1>2, <1>3 DEF Frozen, Mine

LEMMA SentOnce ==
  ASSUME NEW k, NEW m, NEW o \in Sent(k, "client", m)
  PROVE  o \in SentInTwo(k, "client", m)
BY DEF SentInTwo

\* The rest of the state after a step of a client.
Commanded ==
  /\ restore_string \in [Clients -> AllCommands]
  /\ is_restore_connection \in [Clients -> BOOLEAN]
  /\ given \in 0 .. MaxCommands

ServersRest == <<server, session_next, session_of, files, faults>>

LEMMA SessionKept ==
  ASSUME SessionInv, UNCHANGED ServersRest, \A i \in Conns : conn'[i].of = conn[i].of
  PROVE  Session' /\ ResumeCovered'
<1>1. ResumeCovered'
  BY DEF SessionInv, ResumeCovered, ServersRest
<1>2. Serving => conn'[server.conn].of = conn[server.conn].of
  BY DEF SessionInv, Places, ServerPlace
<1>3. Session'
  BY <1>2 DEF SessionInv, Session, ServersRest, Serving
<1> QED BY <1>1, <1>3

\* The client goes on on its connection.
LEMMA StaysStep ==
  ASSUME SessionInv, NEW c \in Clients, client[c].pc \in InSession,
         NEW r, Mine(c, r), NEW d \in ClientStates,
         d.conn = Where(c), d.pc \in InSession,
         d.pc \in {"ready", "go", "send"} => d.command \in Uploads,
         Script(r, server, session_next),
         ~Frozen(r) => Exchange(r, d, server, session_next),
         Put(Where(c), r), client' = [client EXCEPT ![c] = d],
         Commanded', UNCHANGED ServersRest
  PROVE  SessionInv'
<1> USE DEF SessionInv
<1>1. Live(r) => Exchange(r, d, server, session_next)
  BY FrozenExchange
<1>2. /\ Places' /\ Streams'
      /\ conn' \in [Conns -> Connections] /\ client' \in [Clients -> ClientStates]
  BY <1>1, ClientTurn DEF Mine, InSession, ServersRest
<1>3. TypeOK'
  BY <1>2 DEF TypeOK, Commanded, ServersRest
<1>4. Where(c) \in Conns /\ \A i \in Conns : conn'[i].of = conn[i].of
  BY MineNow DEF Mine, Put, TypeOK
<1> HIDE DEF SessionInv
<1>5. Session' /\ ResumeCovered'
  BY <1>4, SessionKept
<1> QED BY <1>2, <1>3, <1>5 DEF SessionInv

\* The client closes its end.
LEMMA EndsStep ==
  ASSUME SessionInv, NEW c \in Clients, client[c].pc \in InSession,
         NEW k, Mine(c, k), Script(k, server, session_next),
         NEW pc \in {"connect", "ended", "killed"},
         Put(Where(c), Closed(k, "client")),
         client' = [client EXCEPT ![c].pc = pc, ![c].conn = 0],
         Commanded', UNCHANGED ServersRest
  PROVE  SessionInv'
<1> USE DEF SessionInv
<1> DEFINE r == Closed(k, "client")
           d == [client[c] EXCEPT !.pc = pc, !.conn = 0]
<1>1. client[c] \in ClientStates
  BY DEF TypeOK
<1>2. d \in ClientStates /\ d.pc = pc /\ d.conn = 0
  BY <1>1 DEF ClientStates, ClientPCs
<1>3. client' = [client EXCEPT ![c] = d]
  BY <1>1 DEF TypeOK
<1> HIDE DEF d
<1>4. /\ r \in Connections /\ r.of = c /\ r.client = "closed" /\ r.server = k.server
      /\ r.toServer \in {k.toServer, <<>>}
      /\ "client" \in r.reset => "client" \in k.reset
  BY ClientClosed DEF Mine
<1> HIDE DEF r
<1>5. Script(r, server, session_next)
  <2>1. CASE r.toServer = <<>>
    BY <2>1, EmptyScript DEF TypeOK
  <2>2. CASE r.toServer = k.toServer
    BY <1>4, <2>2 DEF Script, Stage, Mine
  <2> QED BY <1>4, <2>1, <2>2
<1>6. ~Live(r) /\ Put(Where(c), r)
  BY <1>4 DEF Live, r
<1>7. /\ Places' /\ Streams'
      /\ conn' \in [Conns -> Connections] /\ client' \in [Clients -> ClientStates]
  BY <1>2, <1>3, <1>4, <1>5, <1>6, ClientTurn DEF Mine, InSession, ServersRest
<1>8. TypeOK'
  BY <1>7 DEF TypeOK, Commanded, ServersRest
<1>9. Where(c) \in Conns /\ \A i \in Conns : conn'[i].of = conn[i].of
  BY <1>4, <1>6, MineNow DEF Mine, Put, TypeOK
<1> HIDE DEF SessionInv
<1>10. Session' /\ ResumeCovered'
  BY <1>9, SessionKept
<1> QED BY <1>7, <1>8, <1>10 DEF SessionInv

LEMMA CommandedKept ==
  ASSUME TypeOK, UNCHANGED <<restore_string, is_restore_connection, given>>
  PROVE  Commanded'
BY DEF TypeOK, Commanded

\* SIGPIPE, the return at :226 and the end of the loop all close it.
LEMMA DeathStep ==
  ASSUME SessionInv, NEW c \in Clients, client[c].pc \in InSession,
         NEW k, Mine(c, k), Script(k, server, session_next),
         \/ ClientDies(c, k)
         \/ EarlyReturn(c, k)
         \/ \E restore \in AllCommands : LoopEnds(c, k, restore),
         given' \in 0 .. MaxCommands, UNCHANGED ServersRest
  PROVE  SessionInv'
<1>1. Commanded'
  BY DEF SessionInv, TypeOK, Commanded, ClientDies, EarlyReturn, LoopEnds
<1>2. Put(Where(c), Closed(k, "client"))
  BY DEF ClientDies, EarlyReturn, LoopEnds, SessionEnds
<1>3. PICK pc \in {"connect", "ended", "killed"} :
        client' = [client EXCEPT ![c].pc = pc, ![c].conn = 0]
  BY DEF ClientDies, EarlyReturn, LoopEnds, SessionEnds
<1> QED BY <1>1, <1>2, <1>3, EndsStep

-----------------------------------------------------------------------------
(***************************************************************************)
(* The client connects and sends a command.                                *)
(***************************************************************************)
\* On a connection that is not frozen the client and the server are where
\* Exchange says.
LEMMA ExchangeNow ==
  ASSUME TypeOK, Places, Streams, NEW c \in Clients, client[c].pc \in InSession
  PROVE  LET k == conn[Where(c)]
         IN /\ Script(k, server, session_next)
            /\ ~Frozen(k) =>
                 /\ Exchange(k, client[c], server, session_next)
                 /\ "client" \notin k.reset
<1>1. Where(c) \in Conns /\ Mine(c, conn[Where(c)])
  BY MineNow
<1> DEFINE k == conn[Where(c)]
<1>2. Script(k, server, session_next) /\ (Live(k) => Exchange(k, client[k.of], server, session_next))
  BY <1>1 DEF Streams
<1> QED BY <1>1, <1>2 DEF Frozen, Live, Mine

LEMMA ScriptSame ==
  ASSUME TypeOK, NEW c, NEW k, NEW r, Mine(c, k), Mine(c, r), r.toServer = k.toServer,
         Script(k, server, session_next)
  PROVE  Script(r, server, session_next)
BY DEF Script, Stage, Mine

\* A command is sent by a client that has had the answer to the last one.
LEMMA SendsStep ==
  ASSUME SessionInv, NEW c \in Clients, client[c].pc = "input", NEW command \in AllCommands,
         ClientSends(c, command), given' \in 0 .. MaxCommands
  PROVE  SessionInv'
<1> USE DEF SessionInv
<1> DEFINE k == conn[Where(c)]
           pc == IF command \in Uploads THEN "ready" ELSE "line"
           d == [client[c] EXCEPT !.pc = pc, !.command = command, !.next = 0,
                                  !.answer = Line("none", NoCommand)]
<1>1. client[c].pc \in InSession /\ Mine(c, k) /\ command \in ToServer
  BY MineNow, MessageTypes DEF InSession
<1>2. UNCHANGED ServersRest
  BY DEF ClientSends, ServersRest
<1>3. PICK o \in Sent(k, "client", command) :
        \/ /\ o.res = "sent"
           /\ Put(Where(c), o.conn)
           /\ restore_string' = [restore_string EXCEPT ![c] = NoCommand]
           /\ client' = [client EXCEPT ![c].pc = pc, ![c].command = command, ![c].next = 0,
                                       ![c].answer = Line("none", NoCommand)]
           /\ UNCHANGED is_restore_connection
        \/ o.res = "error" /\ EarlyReturn(c, o.conn)
        \/ o.res = "killed" /\ ClientDies(c, o.conn)
  BY DEF ClientSends
<1>4. /\ Mine(c, o.conn) /\ (Frozen(o.conn) <=> Frozen(k))
      /\ Frozen(k) /\ Script(k, server, session_next)
           => Script(o.conn, server, session_next)
      /\ ~Frozen(k) => /\ o.res = "sent"
                       /\ o.conn.toServer = Append(k.toServer, command)
                       /\ o.conn.toClient = k.toClient
  BY <1>1, SentOnce, ClientSendTurn
<1>5. Script(k, server, session_next)
      /\ (~Frozen(k) => Exchange(k, client[c], server, session_next))
  BY <1>1, ExchangeNow
<1> HIDE DEF k
<1>6. CASE o.res # "sent"
  BY <1>1, <1>2, <1>3, <1>4, <1>5, <1>6, DeathStep
<1>7. CASE o.res = "sent"
  <2>1. client[c] \in ClientStates /\ client \in [Clients -> ClientStates]
    BY DEF TypeOK
  <2>2. Line("none", NoCommand) \in Lines
    BY CommandTypes, MessageTypes DEF LineResults
  <2>3. /\ d \in ClientStates /\ d.pc = pc /\ d.conn = Where(c) /\ d.command = command
        /\ pc \in {"ready", "line"} /\ (pc = "ready" => command \in Uploads)
    BY <2>1, <2>2 DEF ClientStates, ClientPCs, Where
  <2>4. client' = [client EXCEPT ![c] = d]
    BY <1>3, <1>7, <2>1
  <2> HIDE DEF d, pc
  <2>5. Commanded'
    BY <1>3, <1>7, CommandTypes DEF Commanded, TypeOK
  <2>6. ASSUME ~Frozen(k)
        PROVE  /\ Script(o.conn, server, session_next)
               /\ Exchange(o.conn, d, server, session_next)
    <3>1. Stage(o.conn, server) = Stage(k, server)
      BY <1>1, <1>4 DEF Mine, Stage
    <3>2. Stage(k, server) \notin {"answer", "data"}
      BY <1>5, <2>6 DEF Exchange, AnswerExchange, DataExchange
    <3>3. Stage(k, server) = "line" => k.toServer = <<>> /\ k.toClient = <<>>
      BY <1>5, <2>6 DEF Exchange, LineExchange
    <3>4. Stage(k, server) = "line" => o.conn.toServer = <<command>> /\ o.conn.toClient = <<>>
      BY <1>4, <2>6, <3>3, AppendToNone
    <3> QED BY <2>3, <3>1, <3>2, <3>4 DEF Script, Exchange, LineExchange
  <2> QED BY <1>1, <1>2, <1>3, <1>4, <1>5, <1>7, <2>3, <2>4, <2>5, <2>6, StaysStep DEF InSession
<1> QED BY <1>6, <1>7

LEMMA ConnectStep ==
  ASSUME SessionInv, NEW c \in Clients, ClientConnect(c)
  PROVE  SessionInv'
<1> USE DEF SessionInv
<1> DEFINE d == [client[c] EXCEPT !.pc = "input", !.conn = client'[c].conn,
                                  !.answer = Line("none", NoCommand)]
<1>1. PICK i \in Conns :
        /\ conn[i].of = "none" /\ Put(i, Connected(c))
        /\ client' = [client EXCEPT ![c].pc = "input", ![c].conn = i,
                                    ![c].answer = Line("none", NoCommand)]
  BY DEF ClientConnect
<1>2. client[c].pc = "connect" /\ Where(c) = 0
      /\ UNCHANGED <<restore_string, is_restore_connection, given>> /\ UNCHANGED ServersRest
  BY DEF ClientConnect, ServersRest, Places, ClientPlace
<1>3. conn[i].client = "none" /\ conn[i].server = "none"
  BY <1>1, PlacesAt
<1> DEFINE r == Connected(c)
<1>4. /\ r \in Connections /\ r.of = c /\ r.client = "open" /\ r.server = "queued"
      /\ r.cut = FALSE /\ r.reset = {} /\ r.toServer = <<>> /\ r.toClient = <<>>
  BY NoConnType DEF Connected, NoConn
<1> HIDE DEF r
<1>5. /\ conn' \in [Conns -> Connections]
      /\ conn'[i] = r
      /\ \A j \in Conns : j # i => conn'[j] = conn[j]
  BY <1>1, <1>4 DEF TypeOK, Put, r
<1>6. /\ client' \in [Clients -> ClientStates]
      /\ client'[c].pc = "input" /\ client'[c].conn = i
      /\ \A b \in Clients : b # c => client'[b] = client[b]
  <2>1. Line("none", NoCommand) \in Lines
    BY CommandTypes, MessageTypes DEF LineResults
  <2>2. client[c] \in ClientStates
    BY DEF TypeOK
  <2> QED BY <1>1, <2>1, <2>2 DEF TypeOK, ClientStates, ClientPCs
<1>7. \A j \in Conns : conn[j].client = "open" => conn[j].of # c /\ j # i
  BY <1>2, <1>3, PlacesAt DEF Where, Conns
<1>8. ASSUME NEW j \in Conns
      PROVE  Place(j, conn[j])'
  <2>1. CASE j = i
    BY <1>2, <1>4, <1>5, <1>6, <2>1, ServiceAssumption DEF Place
  <2>2. CASE j # i
    BY <1>2, <1>5, <1>6, <1>7, <2>2, PlacesAt DEF Place, Serving, ServersRest
  <2> QED BY <2>1, <2>2
<1>9. ASSUME NEW b \in Clients
      PROVE  ClientPlace(b)'
  <2>1. CASE b = c
    BY <1>4, <1>5, <1>6, <2>1 DEF ClientPlace, Where
  <2>2. CASE b # c
    <3>1. ClientPlace(b)
      BY DEF Places
    <3> QED BY <1>3, <1>5, <1>6, <2>2, <3>1 DEF ClientPlace, Where
  <2> QED BY <2>1, <2>2
<1>10. Serving => server.conn # i
  BY <1>3 DEF Places, ServerPlace
<1>11. ServerPlace'
  BY <1>2, <1>5, <1>10 DEF ServerPlace, Serving, Places, ServersRest
<1>12. ASSUME NEW j \in Conns
       PROVE  /\ Script(conn[j], server, session_next)'
              /\ (Live(conn[j]) => Exchange(conn[j], client[conn[j].of], server, session_next))'
  <2>1. CASE j = i
    <3>1. session_next' \in Nat
      BY <1>2 DEF TypeOK, ServersRest
    <3>2. Script(conn[j], server, session_next)'
      BY <1>4, <1>5, <2>1, <3>1, EmptyScript
    <3> QED BY <1>4, <1>5, <1>6, <2>1, <3>2 DEF Exchange, LineExchange, Stage
  <2>2. CASE j # i
    <3>1. /\ Script(conn[j], server, session_next)
          /\ Live(conn[j]) => Exchange(conn[j], client[conn[j].of], server, session_next)
      BY DEF Streams
    <3>2. Live(conn[j]) => client'[conn[j].of] = client[conn[j].of]
      BY <1>6, <1>7, PlacesAt DEF Live
    <3> QED BY <1>2, <1>5, <2>2, <3>1, <3>2 DEF ServersRest
  <2> QED BY <2>1, <2>2
<1>13. TypeOK'
  BY <1>2, <1>5, <1>6 DEF TypeOK, ServersRest
<1>14. ResumeCovered'
  BY <1>2 DEF ResumeCovered, ServersRest
<1>15. Session'
  <2>1. Serving => conn'[server.conn] = conn[server.conn]
    BY <1>5, <1>10 DEF Places, ServerPlace
  <2> QED BY <1>2, <2>1 DEF Session, Serving, ServersRest
<1> QED BY <1>8, <1>9, <1>11, <1>12, <1>13, <1>14, <1>15 DEF Places, Streams

LEMMA FaultCounted ==
  ASSUME TypeOK, Fault
  PROVE  faults' \in 0 .. MaxFaults
BY ServiceAssumption DEF TypeOK, Fault

LEMMA ConnectFailsStep ==
  ASSUME SessionInv, NEW c \in Clients, ClientConnectFails(c)
  PROVE  SessionInv'
<1> USE DEF SessionInv
<1> DEFINE pc == IF is_restore_connection[c] THEN "connect" ELSE "ended"
<1>1. /\ client[c].pc = "connect" /\ Where(c) = 0
      /\ client' = [client EXCEPT ![c].pc = pc]
      /\ UNCHANGED <<restore_string, is_restore_connection, conn, server,
                     session_next, session_of, files, given>>
  BY DEF ClientConnectFails, Places, ClientPlace
<1>0. faults' \in 0 .. MaxFaults
  BY FaultCounted DEF ClientConnectFails, TypeOK
<1>2. client[c] \in ClientStates
  BY DEF TypeOK
<1>3. /\ client' \in [Clients -> ClientStates]
      /\ client'[c].pc \in {"connect", "ended"} /\ client'[c].conn = 0
      /\ \A b \in Clients : b # c => client'[b] = client[b]
  BY <1>1, <1>2 DEF TypeOK, ClientStates, ClientPCs, Where
<1>4. \A j \in Conns : conn[j].client = "open" => conn[j].of # c
  BY <1>1, PlacesAt DEF Where, Conns
<1>5. ASSUME NEW j \in Conns
      PROVE  Place(j, conn[j])'
  BY <1>1, <1>3, <1>4, PlacesAt DEF Place, Serving
<1>6. ASSUME NEW b \in Clients
      PROVE  ClientPlace(b)'
  <2>1. ClientPlace(b)
    BY DEF Places
  <2> QED BY <1>1, <1>3, <2>1 DEF ClientPlace, Where
<1>7. ServerPlace'
  BY <1>1 DEF ServerPlace, Serving, Places
<1>8. ASSUME NEW j \in Conns
      PROVE  /\ Script(conn[j], server, session_next)'
             /\ (Live(conn[j]) => Exchange(conn[j], client[conn[j].of], server, session_next))'
  <2>1. /\ Script(conn[j], server, session_next)
        /\ Live(conn[j]) => Exchange(conn[j], client[conn[j].of], server, session_next)
    BY DEF Streams
  <2>2. Live(conn[j]) => client'[conn[j].of] = client[conn[j].of]
    BY <1>3, <1>4, PlacesAt DEF Live
  <2> QED BY <1>1, <2>1, <2>2
<1>9. TypeOK'
  BY <1>0, <1>1, <1>3 DEF TypeOK
<1>10. Session' /\ ResumeCovered'
  BY <1>1 DEF ResumeCovered, Session
<1> QED BY <1>5, <1>6, <1>7, <1>8, <1>9, <1>10 DEF Places, Streams

-----------------------------------------------------------------------------
(***************************************************************************)
(* The client in the handshake.                                            *)
(***************************************************************************)
\* A byte read for one of the handshake.
LEMMA TakenMine ==
  ASSUME NEW c, NEW k, Mine(c, k), k.toClient # <<>>
  PROVE  /\ Mine(c, Taken(k)) /\ Taken(k).toServer = k.toServer
         /\ Head(k.toClient) \in ToClient
         /\ Head(k.toClient).type # "line" => Taken(k).toClient = Tail(k.toClient)
<1>1. k \in Connections /\ k.toClient \in Seq(ToClient)
  BY ConnectionType DEF Mine
<1>2. Head(k.toClient) \in ToClient /\ Tail(k.toClient) \in Seq(ToClient)
      /\ Head(k.toClient) = k.toClient[1] /\ 1 \in 1 .. Len(k.toClient)
  BY <1>1
<1>3. CASE Head(k.toClient).type # "line"
  <2>1. Taken(k) = [k EXCEPT !.toClient = Tail(k.toClient)]
    BY <1>3 DEF Taken
  <2> QED BY <1>1, <1>2, <2>1 DEF Mine, Connections
<1>4. CASE Head(k.toClient).type = "line"
  <2> DEFINE l == [k.toClient[1] EXCEPT !.res = "garbled"]
             q == [k.toClient EXCEPT ![1] = l]
  <2>1. l \in ToClient
    BY <1>2, <1>4, ToClientHead DEF ToClient
  <2>2. Taken(k) = [k EXCEPT !.toClient = q]
    BY <1>1, <1>2, <1>4 DEF Taken
  <2> HIDE DEF l
  <2>3. q \in Seq(ToClient)
    BY <1>1, <1>2, <2>1, ExceptSeq
  <2> HIDE DEF q
  <2> QED BY <1>1, <1>2, <1>4, <2>2, <2>3 DEF Mine, Connections
<1> QED BY <1>3, <1>4

\* The client goes on to wait for the line.
LEMMA AwaitStep ==
  ASSUME SessionInv, NEW c \in Clients, client[c].pc \in InSession,
         NEW r, Mine(c, r), Script(r, server, session_next),
         ~Frozen(r) => Exchange(r, [client[c] EXCEPT !.pc = "line"], server, session_next),
         AwaitLine(c, r), given' = given, UNCHANGED ServersRest
  PROVE  SessionInv'
<1> DEFINE d == [client[c] EXCEPT !.pc = "line"]
<1>1. client \in [Clients -> ClientStates] /\ client[c] \in ClientStates
  BY DEF SessionInv, TypeOK
<1>2. d \in ClientStates /\ d.pc = "line" /\ d.conn = Where(c)
  BY <1>1 DEF ClientStates, ClientPCs, Where
<1>3. client' = [client EXCEPT ![c] = d] /\ Put(Where(c), r)
  BY <1>1 DEF AwaitLine
<1>4. Commanded'
  BY CommandedKept DEF AwaitLine, SessionInv
<1> HIDE DEF d
<1>5. ~Frozen(r) => Exchange(r, d, server, session_next)
  BY DEF d
<1> QED BY <1>2, <1>3, <1>4, <1>5, StaysStep DEF InSession

\* The two other fields of a waiting client.
LEMMA AwaitFields ==
  ASSUME TypeOK, NEW c \in Clients
  PROVE  LET d == [client[c] EXCEPT !.pc = "line"]
         IN d.pc = "line" /\ d.command = client[c].command /\ d.agreed = client[c].agreed
BY DEF TypeOK, ClientStates

LEMMA ReadyStep ==
  ASSUME SessionInv, NEW c \in Clients, ClientReady(c)
  PROVE  SessionInv'
<1> USE DEF SessionInv
<1> DEFINE k == conn[Where(c)]
           m == Head(k.toClient)
<1>1. client[c].pc = "ready" /\ client[c].pc \in InSession /\ k.toClient # <<>> /\ Mine(c, k)
  BY MineNow DEF InSession, ClientReady
<1>2. UNCHANGED ServersRest /\ given' = given
  BY DEF ClientReady, ServersRest
<1>3. PICK other \in (IF m.type = "ready" THEN {m.ok} ELSE BOOLEAN), opened \in BOOLEAN :
        \E o \in Sent(Taken(k), "client", Answer(opened /\ other)) :
          \/ /\ o.res = "sent"
             /\ Put(Where(c), o.conn)
             /\ client' = [client EXCEPT ![c].pc = "go", ![c].agreed = opened /\ other]
             /\ UNCHANGED <<restore_string, is_restore_connection>>
          \/ o.res = "error" /\ AwaitLine(c, o.conn)
          \/ o.res = "killed" /\ ClientDies(c, o.conn)
  BY DEF ClientReady
<1> DEFINE ok == opened /\ other
<1>4. PICK o \in Sent(Taken(k), "client", Answer(ok)) :
        \/ /\ o.res = "sent"
           /\ Put(Where(c), o.conn)
           /\ client' = [client EXCEPT ![c].pc = "go", ![c].agreed = ok]
           /\ UNCHANGED <<restore_string, is_restore_connection>>
        \/ o.res = "error" /\ AwaitLine(c, o.conn)
        \/ o.res = "killed" /\ ClientDies(c, o.conn)
  BY <1>3
<1>5. ok \in BOOLEAN /\ (ok => other)
  BY <1>3
<1>6. Script(k, server, session_next)
      /\ (~Frozen(k) => Exchange(k, client[c], server, session_next))
  BY <1>1, ExchangeNow
<1>7. Mine(c, Taken(k)) /\ Taken(k).toServer = k.toServer
      /\ (m.type # "line" => Taken(k).toClient = Tail(k.toClient))
      /\ (Frozen(Taken(k)) <=> Frozen(k))
  BY <1>1, TakenMine DEF Mine, Frozen
<1>8. Script(Taken(k), server, session_next)
  BY <1>1, <1>6, <1>7, ScriptSame
<1> HIDE DEF k, m, ok
<1>9. Answer(ok) \in ToServer
  BY <1>5, MessageTypes
<1>10. /\ Mine(c, o.conn) /\ (Frozen(o.conn) <=> Frozen(k))
       /\ o.res \in {"sent", "error", "killed"}
       /\ Frozen(k) => Script(o.conn, server, session_next)
       /\ ~Frozen(k) => /\ o.res = "sent"
                        /\ o.conn.toServer = Append(k.toServer, Answer(ok))
                        /\ o.conn.toClient = Taken(k).toClient
  <2>1. o \in SentInTwo(Taken(k), "client", Answer(ok))
    BY SentOnce
  <2> QED BY <1>7, <1>8, <1>9, <2>1, ClientSendTurn
<1>11. CASE o.res = "sent"
  <2> DEFINE d == [client[c] EXCEPT !.pc = "go", !.agreed = ok]
  <2>1. client[c] \in ClientStates /\ client \in [Clients -> ClientStates]
    BY DEF TypeOK
  <2>2. d \in ClientStates /\ d.pc = "go" /\ d.conn = Where(c) /\ d.agreed = ok
        /\ d.command = client[c].command
    BY <1>5, <2>1 DEF ClientStates, ClientPCs, Where
  <2>3. client' = [client EXCEPT ![c] = d] /\ Put(Where(c), o.conn)
        /\ UNCHANGED <<restore_string, is_restore_connection>>
    BY <1>4, <1>11, <2>1
  <2>4. client[c].command \in Uploads
    BY <1>1 DEF Places, ClientPlace
  <2> HIDE DEF d
  <2>5. ASSUME ~Frozen(k)
        PROVE  /\ Script(o.conn, server, session_next)
               /\ Exchange(o.conn, d, server, session_next)
    <3>1. Stage(o.conn, server) = Stage(k, server)
      BY <1>1, <1>10 DEF Mine, Stage
    <3>2. Stage(k, server) \notin {"line", "data"}
      BY <1>1, <1>6, <2>5 DEF Exchange, LineExchange, DataExchange
    <3>3. ASSUME Stage(k, server) = "answer"
          PROVE  /\ client[c].command = server.command
                 /\ k.toServer = <<>> /\ k.toClient = <<Ready(server.my_answer)>>
      BY <1>1, <1>6, <2>5, <3>3 DEF Exchange, AnswerExchange
    <3>4. ASSUME Stage(k, server) = "answer"
          PROVE  /\ o.conn.toServer = <<Answer(ok)>> /\ o.conn.toClient = <<>>
                 /\ ok => server.my_answer
      <4>1. m = Ready(server.my_answer) /\ Tail(k.toClient) = <<>>
        BY <3>3, <3>4, HeadOfOne DEF m
      <4>2. m.type = "ready" /\ m.ok = server.my_answer
        BY <4>1 DEF Ready
      <4>3. o.conn.toServer = <<Answer(ok)>>
        BY <1>10, <2>5, <3>3, <3>4, AppendToNone
      <4>4. other = server.my_answer
        BY <1>3, <4>2
      <4> QED BY <1>5, <1>7, <1>10, <2>5, <4>1, <4>2, <4>3, <4>4
    <3> QED BY <1>5, <2>2, <3>1, <3>2, <3>3, <3>4 DEF Script, Exchange, AnswerExchange
  <2>6. Commanded'
    BY <1>2, <2>3, CommandedKept
  <2> QED BY <1>1, <1>2, <1>10, <2>2, <2>3, <2>4, <2>5, <2>6, StaysStep DEF InSession
<1>12. CASE o.res = "error"
  BY <1>1, <1>2, <1>4, <1>10, <1>12, AwaitStep
<1>13. CASE o.res = "killed"
  BY <1>1, <1>2, <1>4, <1>10, <1>13, DeathStep DEF TypeOK
<1> QED BY <1>10, <1>11, <1>12, <1>13

LEMMA GoStep ==
  ASSUME SessionInv, NEW c \in Clients, ClientGo(c)
  PROVE  SessionInv'
<1> USE DEF SessionInv
<1> DEFINE k == conn[Where(c)]
           m == Head(k.toClient)
           first == IF client[c].command.op = "UPLOAD" THEN 0 ELSE Asked(m)
           r == Taken(k)
           n == session_next
<1>1. client[c].pc = "go" /\ client[c].pc \in InSession /\ k.toClient # <<>> /\ Mine(c, k)
  BY MineNow DEF InSession, ClientGo
<1>2. UNCHANGED ServersRest /\ given' = given
  BY DEF ClientGo, ServersRest
<1>3. \/ /\ client[c].agreed
         /\ Put(Where(c), r)
         /\ client' = [client EXCEPT ![c].pc = "send", ![c].next = first]
         /\ UNCHANGED <<restore_string, is_restore_connection>>
      \/ ~client[c].agreed /\ AwaitLine(c, r)
  BY DEF ClientGo
<1>4. Script(k, server, n) /\ (~Frozen(k) => Exchange(k, client[c], server, n))
  BY <1>1, ExchangeNow
<1>5. Mine(c, r) /\ r.toServer = k.toServer /\ m \in ToClient
      /\ (m.type # "line" => r.toClient = Tail(k.toClient))
      /\ (Frozen(r) <=> Frozen(k))
  BY <1>1, TakenMine DEF Mine, Frozen
<1>6. Script(r, server, n) /\ Stage(r, server) = Stage(k, server)
  BY <1>1, <1>4, <1>5, ScriptSame DEF Mine, Stage
<1>7. first \in Nat
  BY <1>5, ToClientHead, ServiceAssumption DEF Asked
<1>8. ASSUME ~Frozen(k), Stage(k, server) = "line"
      PROVE  /\ ~client[c].agreed /\ r.toServer = <<>>
             /\ \E l \in Lines : r.toClient = <<l>>
  <2>1. LineExchange(k, client[c])
    BY <1>4, <1>8 DEF Exchange
  <2>2. /\ ~client[c].agreed /\ k.toServer = <<>>
        /\ \E l \in Lines : k.toClient = <<Go(k.toClient[1].next), l>>
    BY <1>1, <2>1 DEF LineExchange
  <2>3. PICK l \in Lines : k.toClient = <<Go(k.toClient[1].next), l>>
    BY <2>2
  <2> DEFINE g == Go(k.toClient[1].next)
  <2>4. g.type = "go"
    BY DEF Go
  <2> HIDE DEF g
  <2>5. k.toClient = <<g, l>>
    BY <2>3 DEF g
  <2>6. m = g /\ Tail(k.toClient) = <<l>>
    BY <2>5
  <2> QED BY <1>5, <2>2, <2>4, <2>6
<1>9. ASSUME ~Frozen(k), Stage(k, server) = "data"
      PROVE  /\ client[c].command = server.command /\ client[c].agreed
             /\ r.toServer = <<>> /\ r.toClient = <<>> /\ first = n
  <2>1. DataExchange(k, client[c], n) /\ client[c].command = server.command
    BY <1>4, <1>9 DEF Exchange
  <2>2. /\ client[c].agreed /\ k.toServer = <<>> /\ k.toClient = <<Go(n)>>
        /\ client[c].command.op = "UPLOAD" => n = 0
    BY <1>1, <2>1 DEF DataExchange
  <2>3. m = Go(n) /\ Tail(k.toClient) = <<>>
    BY <2>2
  <2>4. m.type = "go" /\ m.next = n
    BY <2>3 DEF Go
  <2> QED BY <1>5, <2>1, <2>2, <2>3, <2>4 DEF Asked
<1>10. ~Frozen(k) => Stage(k, server) # "answer"
  BY <1>1, <1>4 DEF Exchange, AnswerExchange
<1> HIDE DEF k, m, first, r, n
<1>11. CASE client[c].agreed
  <2> DEFINE d == [client[c] EXCEPT !.pc = "send", !.next = first]
  <2>1. client[c] \in ClientStates /\ client \in [Clients -> ClientStates]
    BY DEF TypeOK
  <2>2. d \in ClientStates /\ d.pc = "send" /\ d.conn = Where(c) /\ d.next = first
        /\ d.command = client[c].command
    BY <1>7, <2>1 DEF ClientStates, ClientPCs, Where
  <2>3. client' = [client EXCEPT ![c] = d] /\ Put(Where(c), r)
        /\ UNCHANGED <<restore_string, is_restore_connection>>
    BY <1>3, <1>11, <2>1
  <2>4. client[c].command \in Uploads
    BY <1>1 DEF Places, ClientPlace
  <2> HIDE DEF d
  <2>5. Commanded'
    BY <1>2, <2>3, CommandedKept
  <2>6. ASSUME ~Frozen(k) PROVE Exchange(r, d, server, n)
    <3>1. Stage(k, server) # "line"
      BY <1>8, <1>11, <2>6
    <3>2. ASSUME Stage(k, server) = "data" PROVE DataExchange(r, d, n)
      <4>1. n \in Nat
        BY DEF TypeOK, n
      <4> QED BY <1>9, <2>2, <2>6, <3>2, <4>1 DEF DataExchange
    <3> QED BY <1>6, <1>9, <1>10, <2>2, <2>6, <3>1, <3>2 DEF Exchange
  <2> QED BY <1>1, <1>2, <1>5, <1>6, <2>2, <2>3, <2>4, <2>5, <2>6, StaysStep DEF InSession, n
<1>12. CASE ~client[c].agreed /\ AwaitLine(c, r)
  <2>1. ASSUME ~Frozen(k) PROVE Exchange(r, [client[c] EXCEPT !.pc = "line"], server, n)
    <3>1. Stage(k, server) \notin {"answer", "data"}
      BY <1>9, <1>10, <1>12, <2>1
    <3> QED BY <1>6, <1>8, <2>1, <3>1, AwaitFields DEF Exchange, LineExchange
  <2> QED BY <1>1, <1>2, <1>5, <1>6, <1>12, <2>1, AwaitStep DEF n
<1> QED BY <1>3, <1>11, <1>12

-----------------------------------------------------------------------------
(***************************************************************************)
(* The client sends a sector.                                              *)
(***************************************************************************)
LEMMA HandshakeLostStep ==
  ASSUME SessionInv, NEW c \in Clients, ClientHandshakeLost(c)
  PROVE  SessionInv'
<1> USE DEF SessionInv
<1> DEFINE k == conn[Where(c)]
           n == session_next
<1>1. client[c].pc \in {"ready", "go"} /\ client[c].pc \in InSession /\ k.toClient = <<>>
      /\ Mine(c, k) /\ (ClientRecvError(Where(c)) \/ ClientAtEnd(Where(c)))
  BY MineNow DEF InSession, ClientHandshakeLost
<1>2. UNCHANGED ServersRest /\ given' = given /\ AwaitLine(c, k)
  BY DEF ClientHandshakeLost, ServersRest
<1>3. Script(k, server, n)
      /\ (~Frozen(k) => Exchange(k, client[c], server, n) /\ "client" \notin k.reset)
  BY <1>1, ExchangeNow
<1>4. ASSUME ~Frozen(k) PROVE Exchange(k, [client[c] EXCEPT !.pc = "line"], server, n)
  <2>1. Stage(k, server) # "data"
    <3>1. DataExchange(k, client[c], n) => k.toClient # <<>>
      BY <1>1 DEF DataExchange
    <3> QED BY <1>1, <1>3, <1>4, <3>1 DEF Exchange
  <2>2. Stage(k, server) # "answer"
    <3> SUFFICES ASSUME Stage(k, server) = "answer" PROVE FALSE
      OBVIOUS
    <3>1. AnswerExchange(k, client[c], server)
      BY <1>3, <1>4 DEF Exchange
    <3>2. k.toServer = <<Answer(client[c].agreed)>>
      BY <1>1, <3>1 DEF AnswerExchange
    <3>3. k.toServer # <<>> /\ k.server # "queued" /\ k.server # "closed"
      BY <1>4, <3>2 DEF Stage, Frozen
    <3>4. ~ClientAtEnd(Where(c)) /\ ~ClientRecvError(Where(c))
      BY <1>3, <1>4, <3>3 DEF ClientAtEnd, ClientRecvError, ServerSilent, Frozen
    <3> QED BY <1>1, <3>4
  <2>3. ASSUME Stage(k, server) = "line"
        PROVE  LineExchange(k, [client[c] EXCEPT !.pc = "line"])
    <3>1. LineExchange(k, client[c])
      BY <1>3, <1>4, <2>3 DEF Exchange
    <3>2. k.toServer = <<client[c].command>>
      BY <1>1, <3>1 DEF LineExchange
    <3> QED BY <1>1, <3>2, AwaitFields DEF LineExchange
  <2> QED BY <2>1, <2>2, <2>3 DEF Exchange
<1> HIDE DEF k
<1> QED BY <1>1, <1>2, <1>3, <1>4, AwaitStep

\* A sector more under way.
LEMMA SectorScript ==
  ASSUME TypeOK, Places, Streams, NEW c \in Clients, client[c].pc = "send",
         NEW r, Mine(c, r), ~Frozen(conn[Where(c)]),
         r.toServer = Append(conn[Where(c)].toServer,
                             Sector(c, client[c].command.name, client[c].next)),
         r.toClient = conn[Where(c)].toClient,
         Stage(conn[Where(c)], server) = "data"
  PROVE  LET n == session_next
             i == client[c].next
             q == r.toServer
         IN /\ Script(r, server, n)
            /\ client[c].command = server.command
            /\ r.toClient = <<>> /\ q # <<>>
            /\ i = n + Len(q) - 1 /\ i + 1 = n + Len(q)
            /\ \A j \in 1 .. Len(q) - 1 : ~IsLast(n + j - 1)
<1> DEFINE k == conn[Where(c)]
           p == k.toServer
           n == session_next
           i == client[c].next
           m == Sector(c, client[c].command.name, i)
           q == r.toServer
<1>1. Mine(c, k) /\ Script(k, server, n) /\ Exchange(k, client[c], server, n)
  BY MineNow, ExchangeNow DEF InSession
<1>2. /\ client[c].command = server.command /\ k.toClient = <<>>
      /\ i = n + Len(p)
      /\ \A j \in 1 .. Len(p) : ~IsLast(n + j - 1)
  BY <1>1 DEF Exchange, DataExchange
<1>3. /\ \A j \in 1 .. Len(p) : p[j] = Sector(c, server.command.name, n + j - 1)
      /\ n \in Nat /\ p \in Seq(ToServer) /\ i \in Nat
  BY <1>1, ConnectionType DEF Script, Mine, TypeOK, ClientStates
<1>4. client[c].command \in Uploads
  BY DEF Places, ClientPlace
<1>5. m \in ToServer
  BY <1>3, <1>4, CommandTypes, MessageTypes
<1> HIDE DEF k, p, n, i, m
<1>6. q = Append(p, m)
  BY DEF q, p, m, k, i
<1>7. /\ Len(q) = Len(p) + 1 /\ Len(p) \in Nat
      /\ q[Len(p) + 1] = m
      /\ \A j \in 1 .. Len(p) : q[j] = p[j]
  BY <1>3, <1>5, <1>6, AppendProperties
<1>8. n + (Len(p) + 1) - 1 = i
  BY <1>2, <1>3, <1>7
<1>9. ASSUME NEW j \in 1 .. Len(q)
      PROVE  /\ q[j] = Sector(r.of, server.command.name, n + j - 1)
             /\ IsLast(n + j - 1) => j = Len(q)
  <2>0. r.of = c
    BY DEF Mine
  <2>1. CASE j \in 1 .. Len(p)
    BY <1>2, <1>3, <1>7, <2>0, <2>1
  <2>2. CASE j = Len(p) + 1
    BY <1>2, <1>7, <1>8, <2>0, <2>2 DEF m
  <2>3. j \in 1 .. Len(p) \/ j = Len(p) + 1
    BY <1>7
  <2> QED BY <2>1, <2>2, <2>3
<1>10. Stage(r, server) = "data"
  BY <1>1 DEF Mine, Stage, k
<1>11. Script(r, server, n)
  BY <1>9, <1>10 DEF Script, q
<1>12. r.toClient = <<>> /\ q # <<>>
  <2>1. Len(q) # 0 /\ Len(<<>>) = 0
    BY <1>7
  <2> QED BY <1>2, <2>1 DEF k
<1>13. i = n + Len(q) - 1 /\ i + 1 = n + Len(q)
  <2>1. \A l \in Nat : n + l = n + (l + 1) - 1 /\ n + l + 1 = n + (l + 1)
    BY <1>3
  <2> QED BY <1>2, <1>7, <2>1
<1>14. \A j \in 1 .. Len(q) - 1 : ~IsLast(n + j - 1)
  <2>1. 1 .. Len(q) - 1 = 1 .. Len(p)
    BY <1>7
  <2> QED BY <1>2, <2>1
<1> QED BY <1>2, <1>11, <1>12, <1>13, <1>14 DEF n, i, q

LEMMA SectorSentStep ==
  ASSUME SessionInv, NEW c \in Clients, ClientSector(c)
  PROVE  SessionInv'
<1> USE DEF SessionInv
<1> DEFINE k == conn[Where(c)]
           command == client[c].command
           i == client[c].next
           n == session_next
           m == Sector(c, command.name, i)
<1>1. client[c].pc = "send" /\ client[c].pc \in InSession /\ Mine(c, k)
  BY MineNow DEF InSession, ClientSector
<1>2. UNCHANGED ServersRest /\ given' = given
  BY DEF ClientSector, ServersRest
<1>3. PICK o \in SentInTwo(k, "client", m) :
        \/ /\ o.res = "sent" /\ ~IsLast(i)
           /\ Put(Where(c), o.conn)
           /\ client' = [client EXCEPT ![c].next = i + 1]
           /\ UNCHANGED <<restore_string, is_restore_connection>>
        \/ /\ o.res = "sent" /\ IsLast(i)
           /\ AwaitLine(c, o.conn)
        \/ /\ o.res = "error" /\ command.op = "UPLOAD"
           /\ LoopEnds(c, o.conn, Continued(command))
        \/ /\ o.res = "error"
           /\ AwaitLine(c, o.conn)
        \/ o.res = "killed" /\ ClientDies(c, o.conn)
  BY DEF ClientSector
<1>4. command \in Uploads /\ command.name \in Names /\ Continued(command) \in AllCommands
      /\ client[c] \in ClientStates /\ i \in Nat /\ n \in Nat
  BY <1>1, CommandTypes DEF Places, ClientPlace, TypeOK, ClientStates
<1>5. m \in ToServer
  BY <1>4, MessageTypes
<1>6. Script(k, server, n) /\ (~Frozen(k) => Exchange(k, client[c], server, n))
  BY <1>1, ExchangeNow
<1>7. /\ Mine(c, o.conn) /\ (Frozen(o.conn) <=> Frozen(k))
      /\ Frozen(k) => Script(o.conn, server, n)
      /\ ~Frozen(k) => /\ o.res = "sent"
                       /\ o.conn.toServer = Append(k.toServer, m)
                       /\ o.conn.toClient = k.toClient
  BY <1>1, <1>5, <1>6, ClientSendTurn
<1>8. Stage(o.conn, server) = Stage(k, server)
  BY <1>1, <1>7 DEF Mine, Stage
<1>9. ~Frozen(k) => Stage(k, server) \notin {"line", "answer"}
  BY <1>1, <1>6 DEF Exchange, LineExchange, AnswerExchange
<1>10. ASSUME ~Frozen(k), Stage(k, server) = "data"
       PROVE  LET q == o.conn.toServer
              IN /\ Script(o.conn, server, n)
                 /\ command = server.command
                 /\ o.conn.toClient = <<>> /\ q # <<>>
                 /\ i = n + Len(q) - 1 /\ i + 1 = n + Len(q)
                 /\ \A j \in 1 .. Len(q) - 1 : ~IsLast(n + j - 1)
  BY <1>1, <1>7, <1>10, SectorScript
<1> HIDE DEF k, m, n, command, i
<1>11. Script(o.conn, server, n)
  BY <1>7, <1>8, <1>9, <1>10 DEF Script
<1>12. CASE o.res = "sent" /\ ~IsLast(i) /\ Put(Where(c), o.conn)
            /\ client' = [client EXCEPT ![c].next = i + 1]
            /\ UNCHANGED <<restore_string, is_restore_connection>>
  <2> DEFINE d == [client[c] EXCEPT !.next = i + 1]
  <2>1. d \in ClientStates /\ d.pc = "send" /\ d.conn = Where(c) /\ d.next = i + 1
        /\ d.command = command
    BY <1>1, <1>4 DEF ClientStates, Where, command
  <2>2. client' = [client EXCEPT ![c] = d]
    BY <1>4, <1>12 DEF TypeOK
  <2> HIDE DEF d
  <2>3. Commanded'
    BY <1>2, <1>12, CommandedKept
  <2>4. ASSUME ~Frozen(k) PROVE Exchange(o.conn, d, server, n)
    <3>1. ASSUME Stage(k, server) = "data" PROVE DataExchange(o.conn, d, n)
      <4>1. ASSUME NEW j \in 1 .. Len(o.conn.toServer) PROVE ~IsLast(n + j - 1)
        <5>1. Len(o.conn.toServer) \in Nat
          BY <1>7, ConnectionType DEF Mine
        <5>2. j \in 1 .. Len(o.conn.toServer) - 1 \/ j = Len(o.conn.toServer)
          BY <5>1
        <5> QED BY <1>10, <1>12, <2>4, <3>1, <5>2
      <4> QED BY <1>10, <2>1, <2>4, <3>1, <4>1 DEF DataExchange
    <3> QED BY <1>8, <1>9, <1>10, <2>1, <2>4, <3>1 DEF Exchange
  <2> QED BY <1>1, <1>2, <1>4, <1>7, <1>11, <1>12, <2>1, <2>2, <2>3, <2>4, StaysStep
          DEF InSession, n
<1>13. CASE AwaitLine(c, o.conn) /\ (o.res = "sent" => IsLast(i))
  <2>1. ASSUME ~Frozen(k) PROVE Exchange(o.conn, [client[c] EXCEPT !.pc = "line"], server, n)
    <3>1. ASSUME Stage(k, server) = "data"
          PROVE  DataExchange(o.conn, [client[c] EXCEPT !.pc = "line"], n)
      BY <1>7, <1>10, <1>13, <2>1, <3>1, AwaitFields DEF DataExchange
    <3> QED BY <1>8, <1>9, <1>10, <2>1, <3>1, AwaitFields DEF Exchange, command
  <2> QED BY <1>1, <1>2, <1>7, <1>11, <1>13, <2>1, AwaitStep DEF n
<1>14. CASE LoopEnds(c, o.conn, Continued(command)) \/ ClientDies(c, o.conn)
  <2>1. given' \in 0 .. MaxCommands
    BY <1>2 DEF TypeOK
  <2> QED BY <1>1, <1>2, <1>4, <1>7, <1>11, <1>14, <2>1, DeathStep DEF n
<1> QED BY <1>3, <1>12, <1>13, <1>14

-----------------------------------------------------------------------------
(***************************************************************************)
(* The client reads the answer; the network cuts a connection.             *)
(***************************************************************************)
LEMMA LineStep ==
  ASSUME SessionInv, NEW c \in Clients, ClientLine(c)
  PROVE  SessionInv'
<1> USE DEF SessionInv
<1> DEFINE k == conn[Where(c)]
           q == k.toClient
           n == session_next
<1>1. client[c].pc = "line" /\ client[c].pc \in InSession /\ Mine(c, k)
      /\ q \in Seq(ToClient)
  BY MineNow, ConnectionType DEF InSession, ClientLine, Mine
<1>2. UNCHANGED ServersRest /\ given' = given
  BY DEF ClientLine, ServersRest
<1>3. PICK l \in DOMAIN q :
        /\ q[l].type = "line"
        /\ \A j \in 1 .. l - 1 : q[j].type # "line"
        /\ \/ LoopEnds(c, [k EXCEPT !.toClient = SubSeq(q, l + 1, Len(q))], NoCommand)
           \/ /\ Put(Where(c), [k EXCEPT !.toClient = SubSeq(q, l + 1, Len(q))])
              /\ client' = [client EXCEPT ![c].pc = "input",
                   ![c].answer = IF l = 1 THEN q[l] ELSE [q[l] EXCEPT !.res = "garbled"]]
              /\ UNCHANGED <<restore_string, is_restore_connection>>
  BY DEF ClientLine
<1> DEFINE rest == SubSeq(q, l + 1, Len(q))
           r == [k EXCEPT !.toClient = rest]
           a == IF l = 1 THEN q[l] ELSE [q[l] EXCEPT !.res = "garbled"]
<1>4. l \in 1 .. Len(q) /\ q[l] \in ToClient
  BY <1>1
<1>5. a \in Lines
  BY <1>3, <1>4, ToClientHead
<1>6. rest \in Seq(ToClient)
  BY <1>1, <1>4
<1>7. Mine(c, r) /\ r.toServer = k.toServer /\ r.toClient = rest
  BY <1>1, <1>6, MineNow
<1>8. Script(k, server, n) /\ (~Frozen(k) => Exchange(k, client[c], server, n))
  BY <1>1, ExchangeNow
<1>9. Script(r, server, n) /\ Stage(r, server) = Stage(k, server) /\ (Frozen(r) <=> Frozen(k))
  BY <1>1, <1>7, <1>8, ScriptSame DEF Mine, Stage, Frozen
<1>10. ~Frozen(k) => Stage(k, server) \notin {"answer", "data"}
  <2> SUFFICES ASSUME ~Frozen(k), Stage(k, server) \in {"answer", "data"} PROVE FALSE
    OBVIOUS
  <2>1. CASE Stage(k, server) = "data"
    <3>1. q = <<>>
      BY <1>1, <1>8, <2>1 DEF Exchange, DataExchange
    <3> QED BY <1>4, <3>1
  <2>2. CASE Stage(k, server) = "answer"
    <3>1. q = <<Ready(server.my_answer)>>
      BY <1>1, <1>8, <2>2 DEF Exchange, AnswerExchange
    <3>2. l = 1 /\ q[1] = Ready(server.my_answer)
      BY <1>4, <3>1
    <3> QED BY <1>3, <3>2 DEF Ready
  <2> QED BY <2>1, <2>2
<1>11. ASSUME ~Frozen(k), Stage(k, server) = "line"
       PROVE  k.toServer = <<>> /\ rest = <<>>
  <2>1. LineExchange(k, client[c])
    BY <1>8, <1>11 DEF Exchange
  <2>2. q # <<>>
    BY <1>4
  <2>3. PICK e \in Lines :
          /\ k.toServer = <<>>
          /\ q = <<e>> \/ \E ok \in BOOLEAN : q = <<Ready(ok), e>>
    BY <1>1, <2>1, <2>2 DEF LineExchange
  <2>4. CASE q = <<e>>
    <3>1. l = 1 /\ Len(q) = 1
      BY <1>4, <2>4
    <3>2. rest = <<>>
      BY <3>1, SubSeqEmpty
    <3> QED BY <2>3, <3>2
  <2>5. CASE \E ok \in BOOLEAN : q = <<Ready(ok), e>>
    <3>1. PICK ok \in BOOLEAN : q = <<Ready(ok), e>>
      BY <2>5
    <3>2. Len(q) = 2 /\ q[1].type = "ready"
      BY <3>1 DEF Ready
    <3>3. l = 2
      BY <1>3, <1>4, <3>2
    <3>4. rest = <<>>
      BY <3>2, <3>3, SubSeqEmpty
    <3> QED BY <2>3, <3>4
  <2> QED BY <2>3, <2>4, <2>5
<1> HIDE DEF rest, a
<1>12. CASE LoopEnds(c, r, NoCommand)
  <2>1. given' \in 0 .. MaxCommands /\ NoCommand \in AllCommands
    BY <1>2, CommandTypes DEF TypeOK
  <2> HIDE DEF r
  <2> QED BY <1>1, <1>2, <1>7, <1>9, <1>12, <2>1, DeathStep
<1>13. CASE /\ Put(Where(c), r)
            /\ client' = [client EXCEPT ![c].pc = "input", ![c].answer = a]
            /\ UNCHANGED <<restore_string, is_restore_connection>>
  <2> DEFINE d == [client[c] EXCEPT !.pc = "input", !.answer = a]
  <2>1. client[c] \in ClientStates /\ client \in [Clients -> ClientStates]
    BY DEF TypeOK
  <2>2. d \in ClientStates /\ d.pc = "input" /\ d.conn = Where(c)
    BY <1>5, <2>1 DEF ClientStates, ClientPCs, Where
  <2>3. client' = [client EXCEPT ![c] = d]
    BY <1>13, <2>1
  <2>4. Commanded'
    BY <1>2, <1>13, CommandedKept
  <2> HIDE DEF d, r, k, n
  <2>5. ASSUME ~Frozen(k) PROVE Exchange(r, d, server, n)
    BY <1>7, <1>9, <1>10, <1>11, <2>2, <2>5 DEF Exchange, LineExchange
  <2> QED BY <1>1, <1>2, <1>7, <1>9, <1>13, <2>2, <2>3, <2>4, <2>5, StaysStep DEF InSession, n
<1> QED BY <1>3, <1>12, <1>13 DEF rest, a

LEMMA LineLostStep ==
  ASSUME SessionInv, NEW c \in Clients, ClientLineLost(c)
  PROVE  SessionInv'
<1> USE DEF SessionInv
<1> DEFINE k == conn[Where(c)]
           r == [k EXCEPT !.toClient = <<>>]
           n == session_next
<1>1. client[c].pc = "line" /\ client[c].pc \in InSession /\ Mine(c, k)
  BY MineNow DEF InSession, ClientLineLost
<1>2. UNCHANGED ServersRest /\ given' = given
  BY DEF ClientLineLost, ServersRest
<1>3. <<>> \in Seq(ToClient)
  OBVIOUS
<1>4. Mine(c, r) /\ r.toServer = k.toServer /\ r.toClient = <<>>
  BY <1>1, <1>3, MineNow
<1>5. Script(k, server, n)
  BY <1>1, ExchangeNow
<1>6. Script(r, server, n) /\ (Frozen(r) <=> Frozen(k))
  BY <1>1, <1>4, <1>5, ScriptSame DEF Mine, Frozen
<1>7. \/ LoopEnds(c, r, NoCommand)
      \/ /\ ClientAtEnd(Where(c))
         /\ Put(Where(c), r)
         /\ client' = [client EXCEPT ![c].pc = "input"]
         /\ UNCHANGED <<restore_string, is_restore_connection>>
  BY DEF ClientLineLost
<1> HIDE DEF r
<1>8. CASE LoopEnds(c, r, NoCommand)
  <2>1. given' \in 0 .. MaxCommands /\ NoCommand \in AllCommands
    BY <1>2, CommandTypes DEF TypeOK
  <2> QED BY <1>1, <1>2, <1>4, <1>6, <1>8, <2>1, DeathStep
<1>9. CASE /\ ClientAtEnd(Where(c))
           /\ Put(Where(c), r)
           /\ client' = [client EXCEPT ![c].pc = "input"]
           /\ UNCHANGED <<restore_string, is_restore_connection>>
  <2> DEFINE d == [client[c] EXCEPT !.pc = "input"]
  <2>1. client[c] \in ClientStates /\ client \in [Clients -> ClientStates]
    BY DEF TypeOK
  <2>2. d \in ClientStates /\ d.pc = "input" /\ d.conn = Where(c)
    BY <2>1 DEF ClientStates, ClientPCs, Where
  <2>3. client' = [client EXCEPT ![c] = d]
    BY <1>9, <2>1
  <2>4. Commanded'
    BY <1>2, <1>9, CommandedKept
  <2>5. Frozen(k)
    BY <1>9 DEF ClientAtEnd, Frozen
  <2> HIDE DEF d, k
  <2> QED BY <1>1, <1>2, <1>4, <1>6, <1>9, <2>2, <2>3, <2>4, <2>5, StaysStep DEF InSession
<1> QED BY <1>7, <1>8, <1>9

\* Of what the server had to read a prefix is left, its command torn.
LEMMA CutScript ==
  ASSUME TypeOK, NEW i \in Conns, Script(conn[i], server, session_next),
         NEW up \in Prefixes(conn[i].toServer), NEW torn \in Torn(up),
         NEW r \in Connections, r.of = conn[i].of, r.server = conn[i].server,
         r.toServer = torn
  PROVE  Script(r, server, session_next)
<1> DEFINE q == conn[i].toServer
           n == session_next
<1>1. q \in Seq(ToServer) /\ n \in Nat
  BY ConnectionType DEF TypeOK
<1>2. PICK l \in 0 .. Len(q) : up = SubSeq(q, 1, l)
  BY DEF Prefixes
<1>3. /\ up \in Seq(ToServer) /\ Len(up) = l
      /\ \A j \in 1 .. l : up[j] = q[j]
  BY <1>1, <1>2
<1>4. Stage(r, server) = Stage(conn[i], server)
  BY DEF Stage
<1>5. \/ torn = up
      \/ /\ up # <<>> /\ up[Len(up)] \in Uploads
         /\ \E m \in AllCommands : torn = [up EXCEPT ![Len(up)] = m]
  <2>1. ASSUME up # <<>>, up[Len(up)] \in Uploads, NEW f \in Names
        PROVE  Command(up[Len(up)].op, f) \in AllCommands
    BY <2>1, CommandTypes DEF AllCommands, Commands, Uploads
  <2> QED BY <2>1, CommandTypes DEF Torn
<1> HIDE DEF q, n
<1>6. ASSUME Stage(r, server) = "line"
      PROVE  torn = <<>> \/ \E m \in AllCommands : torn = <<m>>
  <2>1. q = <<>> \/ \E m \in AllCommands : q = <<m>>
    BY <1>4, <1>6 DEF Script, q
  <2>2. up = <<>> \/ \E m \in AllCommands : up = <<m>>
    <3>1. CASE q = <<>>
      BY <1>3, <3>1, EmptySeq
    <3>2. ASSUME NEW m \in AllCommands, q = <<m>> PROVE up = <<>> \/ up = <<m>>
      <4>1. l = 0 \/ l = 1
        BY <3>2
      <4>2. CASE l = 0
        BY <1>3, <4>2, EmptySeq
      <4>3. CASE l = 1
        BY <1>1, <1>2, <3>2, <4>3, SubSeqFull
      <4> QED BY <4>1, <4>2, <4>3
    <3> QED BY <2>1, <3>1, <3>2
  <2>3. ASSUME NEW m \in AllCommands, NEW x \in AllCommands, up = <<m>>,
               torn = [up EXCEPT ![Len(up)] = x]
        PROVE  torn = <<x>>
    BY <2>3
  <2> QED BY <1>5, <2>2, <2>3
<1>7. ASSUME Stage(r, server) = "answer"
      PROVE  torn = <<>> \/ \E ok \in BOOLEAN : torn = <<Answer(ok)>>
  <2>1. q = <<>> \/ \E ok \in BOOLEAN : q = <<Answer(ok)>>
    BY <1>4, <1>7 DEF Script, q
  <2>2. up = <<>> \/ \E ok \in BOOLEAN : up = <<Answer(ok)>>
    <3>1. CASE q = <<>>
      BY <1>3, <3>1, EmptySeq
    <3>2. ASSUME NEW ok \in BOOLEAN, q = <<Answer(ok)>> PROVE up = <<>> \/ up = <<Answer(ok)>>
      <4>1. l = 0 \/ l = 1
        BY <3>2
      <4>2. CASE l = 0
        BY <1>3, <4>2, EmptySeq
      <4>3. CASE l = 1
        BY <1>1, <1>2, <3>2, <4>3, SubSeqFull
      <4> QED BY <4>1, <4>2, <4>3
    <3> QED BY <2>1, <3>1, <3>2
  <2>3. ASSUME NEW ok \in BOOLEAN, up = <<Answer(ok)>> PROVE up[Len(up)] \notin Uploads
    <3>1. up[Len(up)] = Answer(ok)
      BY <2>3
    <3>2. up[Len(up)].type = "answer"
      BY <3>1 DEF Answer
    <3> QED BY <3>2, CommandTypes
  <2> QED BY <1>5, <2>2, <2>3
<1>8. ASSUME Stage(r, server) = "data"
      PROVE  \A j \in 1 .. Len(torn) :
               /\ torn[j] = Sector(r.of, server.command.name, n + j - 1)
               /\ IsLast(n + j - 1) => j = Len(torn)
  <2>1. \A j \in 1 .. Len(q) :
          /\ q[j] = Sector(r.of, server.command.name, n + j - 1)
          /\ IsLast(n + j - 1) => j = Len(q)
    BY <1>4, <1>8 DEF Script, q, n
  <2>2. torn = up
    <3> SUFFICES ASSUME up # <<>>, up[Len(up)] \in Uploads PROVE FALSE
      BY <1>5
    <3>1. l \in 1 .. Len(q) /\ l \in 1 .. l
      BY <1>3, EmptySeq
    <3>2. up[Len(up)] = Sector(r.of, server.command.name, n + l - 1)
      BY <1>3, <2>1, <3>1
    <3>3. up[Len(up)].type = "sector"
      BY <3>2 DEF Sector
    <3> QED BY <3>3, CommandTypes
  <2>3. ASSUME NEW j \in 1 .. l
        PROVE  /\ up[j] = Sector(r.of, server.command.name, n + j - 1)
               /\ IsLast(n + j - 1) => j = l
    <3>1. j \in 1 .. Len(q) /\ (j = Len(q) => j = l)
      BY <1>1
    <3> QED BY <1>3, <2>1, <3>1
  <2> QED BY <1>3, <2>2, <2>3
<1> QED BY <1>6, <1>7, <1>8 DEF Script, n

LEMMA CutStep ==
  ASSUME SessionInv, Cut
  PROVE  SessionInv'
<1> USE DEF SessionInv
<1>a. PICK i \in Conns :
        \E up \in Prefixes(conn[i].toServer), down \in Prefixes(conn[i].toClient) :
          \E torn \in Torn(up) :
            Put(i, [conn[i] EXCEPT !.cut = TRUE, !.toServer = torn, !.toClient = down])
  BY DEF Cut
<1>b. PICK up \in Prefixes(conn[i].toServer), down \in Prefixes(conn[i].toClient) :
        \E torn \in Torn(up) :
          Put(i, [conn[i] EXCEPT !.cut = TRUE, !.toServer = torn, !.toClient = down])
  BY <1>a
<1>1. PICK torn \in Torn(up) :
        Put(i, [conn[i] EXCEPT !.cut = TRUE, !.toServer = torn, !.toClient = down])
  BY <1>b
<1>2. UNCHANGED <<client, restore_string, is_restore_connection, server,
                  session_next, session_of, files, given>>
  BY DEF Cut
<1>3. faults' \in 0 .. MaxFaults
  BY FaultCounted DEF Cut
<1> DEFINE r == [conn[i] EXCEPT !.cut = TRUE, !.toServer = torn, !.toClient = down]
<1>4. torn \in Seq(ToServer) /\ down \in Seq(ToClient)
  <2>1. conn[i].toServer \in Seq(ToServer) /\ conn[i].toClient \in Seq(ToClient)
    BY PlacesAt, ConnectionType
  <2>2. up \in Seq(ToServer) /\ down \in Seq(ToClient)
    <3>1. ASSUME NEW S, NEW q \in Seq(S), NEW p \in Prefixes(q) PROVE p \in Seq(S)
      <4>1. PICK l \in 0 .. Len(q) : p = SubSeq(q, 1, l)
        BY DEF Prefixes
      <4> QED BY <4>1
    <3> QED BY <2>1, <3>1
  <2>3. CASE torn = up
    BY <2>2, <2>3
  <2>4. CASE torn # up
    <3>1. PICK m \in {NoCommand} \cup {Command(up[Len(up)].op, f) : f \in Names} :
            /\ up # <<>> /\ up[Len(up)] \in Uploads
            /\ torn = [up EXCEPT ![Len(up)] = m]
      BY <2>4 DEF Torn
    <3>2. m \in AllCommands
      BY <3>1, CommandTypes DEF AllCommands, Commands, Uploads
    <3>3. m \in ToServer /\ Len(up) \in 1 .. Len(up)
      BY <2>2, <3>1, <3>2, MessageTypes, EmptySeq
    <3> QED BY <2>2, <3>1, <3>3, ExceptSeq
  <2> QED BY <2>2, <2>3, <2>4
<1>5. /\ r \in Connections /\ r.of = conn[i].of /\ r.client = conn[i].client
      /\ r.server = conn[i].server /\ r.cut = TRUE /\ r.reset = conn[i].reset
      /\ r.toServer = torn
  <2>1. conn[i] \in Connections
    BY PlacesAt
  <2> QED BY <1>4, <2>1 DEF Connections
<1>6. Script(r, server, session_next)
  BY <1>5, CutScript DEF Streams
<1> HIDE DEF r
<1>7. /\ conn' \in [Conns -> Connections]
      /\ conn'[i] = r
      /\ \A j \in Conns : j # i => conn'[j] = conn[j]
  BY <1>1, <1>5 DEF TypeOK, Put, r
<1>8. ASSUME NEW j \in Conns
      PROVE  Place(j, conn[j])'
  BY <1>2, <1>5, <1>7, PlacesAt DEF Place, Serving
<1>9. ASSUME NEW c \in Clients
      PROVE  ClientPlace(c)'
  <2>1. ClientPlace(c)
    BY DEF Places
  <2> QED BY <1>2, <1>5, <1>7, <2>1 DEF ClientPlace, Where
<1>10. ServerPlace'
  BY <1>2, <1>5, <1>7 DEF ServerPlace, Serving, Places
<1>11. ASSUME NEW j \in Conns
       PROVE  /\ Script(conn[j], server, session_next)'
              /\ (Live(conn[j]) => Exchange(conn[j], client[conn[j].of], server, session_next))'
  <2>1. CASE j = i
    BY <1>2, <1>5, <1>6, <1>7, <2>1 DEF Live
  <2>2. CASE j # i
    BY <1>2, <1>7, <2>2 DEF Streams
  <2> QED BY <2>1, <2>2
<1>12. TypeOK'
  BY <1>2, <1>3, <1>7 DEF TypeOK
<1>13. ResumeCovered'
  BY <1>2 DEF ResumeCovered
<1>14. Session'
  <2>1. Serving => conn'[server.conn].of = conn[server.conn].of
    BY <1>5, <1>7 DEF Places, ServerPlace
  <2> QED BY <1>2, <2>1 DEF Session, Serving
<1> QED BY <1>8, <1>9, <1>10, <1>11, <1>12, <1>13, <1>14 DEF Places, Streams

-----------------------------------------------------------------------------
(***************************************************************************)
(* SessionInv, and what follows from it.                                   *)
(***************************************************************************)
LEMMA SessionInitial == Init => SessionInv
<1> SUFFICES ASSUME Init PROVE SessionInv
  OBVIOUS
<1>1. TypeOK
  <2>1. Line("none", NoCommand) \in Lines /\ NoCommand \in AllCommands
    BY CommandTypes, MessageTypes DEF LineResults
  <2>2. client \in [Clients -> ClientStates]
    BY <2>1 DEF Init, ClientStates, ClientPCs
  <2>3. server \in ServerStates
    BY <2>1 DEF Init, ServerStates, ServerPCs, LineResults
  <2>4. conn \in [Conns -> Connections]
    BY NoConnType DEF Init
  <2>5. files \in [Names -> FileStates]
    BY DEF Init, FileStates, NoFile
  <2>6. given \in 0 .. MaxCommands /\ faults \in 0 .. MaxFaults
    BY ServiceAssumption DEF Init
  <2> QED BY <2>1, <2>2, <2>3, <2>4, <2>5, <2>6 DEF TypeOK, Init
<1>2. \A i \in Conns : /\ conn[i].of = "none" /\ conn[i].client = "none" /\ conn[i].server = "none"
                       /\ conn[i].reset = {} /\ conn[i].toServer = <<>>
  BY DEF Init, NoConn
<1>3. \A c \in Clients : client[c].pc = "connect" /\ client[c].conn = 0
  BY DEF Init
<1>4. server.pc = "accept" /\ server.res = "none" /\ session_next = 0 /\ session_of = Nobody
  BY DEF Init
<1>5. Places
  BY <1>2, <1>3, <1>4 DEF Places, Place, ClientPlace, ServerPlace, Serving, Where
<1>6. Streams
  BY <1>2, <1>4, EmptyScript DEF Streams, Live
<1>7. Session /\ ResumeCovered
  BY <1>4 DEF Session, ResumeCovered
<1> QED BY <1>1, <1>5, <1>6, <1>7 DEF SessionInv

LEMMA SessionStep == SessionInv /\ [Next]_vars => SessionInv'
<1> SUFFICES ASSUME SessionInv, [Next]_vars
             PROVE  SessionInv'
  OBVIOUS
<1>1. CASE ServerStep
  BY <1>1, AcceptStep, CommandStep, IdleStep, LeaveStep, AnswerStep, AnswerLostStep,
     SectorStep, SectorLostStep DEF ServerStep
<1>2. CASE Cut
  BY <1>2, CutStep
<1>3. given \in 0 .. MaxCommands /\ (given < MaxCommands => given + 1 \in 0 .. MaxCommands)
      /\ NoCommand \in AllCommands /\ Commands \subseteq AllCommands
      /\ \A c \in Clients : restore_string[c] \in AllCommands
  BY CommandTypes, ServiceAssumption DEF SessionInv, TypeOK
<1>4. ASSUME NEW c \in Clients, ClientStep(c)
      PROVE  SessionInv'
  <2>1. CASE ClientRestores(c)
    BY <1>3, <2>1, SendsStep DEF ClientRestores
  <2> QED BY <1>4, <2>1, ConnectStep, ReadyStep, GoStep, HandshakeLostStep, SectorSentStep,
             LineStep, LineLostStep DEF ClientStep
<1>5. ASSUME NEW c \in Clients, ClientCommand(c)
      PROVE  SessionInv'
  BY <1>3, <1>5, SendsStep DEF ClientCommand
<1>6. ASSUME NEW c \in Clients, ClientConnectFails(c)
      PROVE  SessionInv'
  BY <1>6, ConnectFailsStep
<1>7. CASE UNCHANGED vars
  BY <1>7 DEF vars, SessionInv, TypeOK, Places, Place, ClientPlace, ServerPlace, Serving, Where,
     Streams, Session, ResumeCovered
<1> QED BY <1>1, <1>2, <1>4, <1>5, <1>6, <1>7 DEF Next

LEMMA SessionAlways == Spec => []SessionInv
BY SessionInitial, SessionStep, PTL DEF Spec

\* The variables keep their types.
THEOREM ServiceTypeCorrect == Spec => []TypeOK
<1>1. SessionInv => TypeOK
  BY DEF SessionInv
<1> QED BY SessionAlways, <1>1, PTL

\* What the server finds in the unframed stream is what it is about to read, a
\* command line, the second byte of the handshake or the very next sector of its
\* upload, after any refusals, timeouts, cuts and backlogs
\* (sock_thread_handler.cpp:31-45, file_manage.cpp:53-92, handshake.cpp:13-20).
THEOREM StaysInStep == Spec => []InStep
<1>1. SessionInv => InStep
  <2> SUFFICES ASSUME SessionInv, Serving, conn[server.conn].toServer # <<>>
               PROVE  LET m == Head(conn[server.conn].toServer)
                      IN /\ server.pc = "line" => m.type = "command"
                         /\ server.pc = "answer" => m.type = "answer"
                         /\ server.pc = "data" =>
                              /\ m.type = "sector"
                              /\ m.of = Upload(conn[server.conn].of, server.command.name)
                              /\ m.num = session_next
    BY DEF InStep
  <2>1. CASE server.pc = "line"
    BY <2>1, LineRead, CommandTypes DEF SessionInv
  <2>2. CASE server.pc = "answer"
    BY <2>2, AnswerRead DEF SessionInv
  <2>3. CASE server.pc = "data"
    <3>1. Head(conn[server.conn].toServer)
            = Sector(conn[server.conn].of, server.command.name, session_next)
      BY <2>3, SectorRead DEF SessionInv
    <3> QED BY <2>3, <3>1 DEF Sector, Upload
  <2> QED BY <2>1, <2>2, <2>3
<1> QED BY SessionAlways, <1>1, PTL

\* The static resume point counts sectors that are there: those before it are in
\* the file of the upload it counts and are that upload's own, as long as nobody
\* has continued another one (file_manage.cpp:22-28, 35, 231).
THEOREM ResumeIsCovered == Spec => []ResumeCovered
<1>1. SessionInv => ResumeCovered
  BY DEF SessionInv
<1> QED BY SessionAlways, <1>1, PTL

\* An upload that the server completes, in however many attempts, has left exactly
\* its client's file, under the same condition (file_manage.cpp:10-99).
THEOREM CompletedUploadIsOwn == Spec => []CompletedIsOwn
<1>1. SessionInv => CompletedIsOwn
  <2> SUFFICES ASSUME SessionInv, server.pc = "line", server.res = "Completed",
                      session_of # Mixed
               PROVE  /\ session_of = Upload(conn[server.conn].of, server.command.name)
                      /\ files[session_of.name].exists
                      /\ \A i \in Sectors : files[session_of.name].sector[i] = session_of
    BY DEF CompletedIsOwn
  <2>1. /\ session_of = Upload(conn[server.conn].of, server.command.name)
        /\ files[server.command.name].exists /\ session_next >= NumSectors
    BY DEF SessionInv, Session
  <2>2. session_of.name = server.command.name
    BY <2>1 DEF Upload
  <2>3. conn[server.conn].of # "none"
    BY DEF SessionInv, Places, Place, ServerPlace, Serving
  <2>4. session_of # Nobody
    BY <2>1, <2>3 DEF Upload, Nobody
  <2>5. \A i \in Sectors : i < session_next
    BY <2>1, ServiceAssumption DEF Sectors, SessionInv, TypeOK
  <2> QED BY <2>1, <2>2, <2>4, <2>5 DEF SessionInv, ResumeCovered
<1> QED BY SessionAlways, <1>1, PTL

-----------------------------------------------------------------------------
(***************************************************************************)
(* The lines under way to a client.                                        *)
(***************************************************************************)
\* The lines under way.
LEMMA TellsNothing ==
  ASSUME NEW c, NEW gone
  PROVE  Tells(<<>>, c, gone)
BY DEF Tells

LEMMA TellsLater ==
  ASSUME NEW q, NEW c, NEW g, NEW h, Tells(q, c, g), g => h
  PROVE  Tells(q, c, h)
BY DEF Tells

\* A part of the stream tells no more than the whole.
LEMMA TellsPart ==
  ASSUME NEW q, NEW p, NEW c, NEW g, NEW from \in Nat, NEW n \in Nat, Tells(q, c, g),
         DOMAIN p = 1 .. n,
         \A j \in 1 .. n : /\ j + from \in DOMAIN q
                           /\ p[j].type = q[j + from].type /\ p[j].to = q[j + from].to
  PROVE  Tells(p, c, g)
<1>1. ASSUME NEW j \in 1 .. n, p[j].type = "line"
      PROVE  (p[j].to = NoCommand /\ g) \/ (c.pc # "input" /\ p[j].to = c.command)
  BY <1>1 DEF Tells
<1>2. ASSUME NEW j \in 1 .. n, NEW l \in 1 .. n, j < l, p[j].type = "line", p[l].type = "line"
      PROVE  p[l].to = NoCommand /\ g
  <2>1. j + from < l + from
    BY <1>2
  <2> QED BY <1>2, <2>1 DEF Tells
<1> QED BY <1>1, <1>2 DEF Tells

\* What the server may add.
LEMMA TellsMore ==
  ASSUME NEW q \in Seq(ToClient), NEW m \in ToClient, NEW c, NEW g, Tells(q, c, g),
         \/ m.type # "line"
         \/ m.to = NoCommand /\ g
         \/ /\ \A j \in DOMAIN q : q[j].type # "line"
            /\ c.pc # "input" /\ m.to = c.command
  PROVE  Tells(Append(q, m), c, g)
<1> DEFINE p == Append(q, m)
<1>1. /\ Len(q) \in Nat /\ DOMAIN q = 1 .. Len(q) /\ DOMAIN p = 1 .. Len(q) + 1
      /\ p[Len(q) + 1] = m
      /\ \A j \in 1 .. Len(q) : p[j] = q[j]
  BY AppendProperties, LenProperties
<1> HIDE DEF p
<1>2. ASSUME NEW j \in DOMAIN p
      PROVE  (j \in DOMAIN q /\ p[j] = q[j]) \/ (j = Len(q) + 1 /\ p[j] = m)
  <2>1. j \in 1 .. Len(q) + 1
    BY <1>1
  <2>2. j \in 1 .. Len(q) \/ j = Len(q) + 1
    BY <1>1, <2>1
  <2> QED BY <1>1, <2>2
<1>3. ASSUME NEW j \in DOMAIN p, p[j].type = "line"
      PROVE  (p[j].to = NoCommand /\ g) \/ (c.pc # "input" /\ p[j].to = c.command)
  BY <1>2, <1>3 DEF Tells
<1>4. ASSUME NEW j \in DOMAIN p, NEW l \in DOMAIN p, j < l, p[j].type = "line", p[l].type = "line"
      PROVE  p[l].to = NoCommand /\ g
  <2>1. j \in DOMAIN q /\ p[j] = q[j]
    BY <1>1, <1>4
  <2> QED BY <1>2, <1>4, <2>1 DEF Tells
<1> QED BY <1>3, <1>4 DEF Tells, p

Told == AnswersMatch /\ Lined

\* A step that leaves the clients alone.
LEMMA ServerTells ==
  ASSUME SessionInv, Told, UNCHANGED client,
         \A i \in Conns :
           /\ Gone(i) => Gone(i)'
           /\ conn'[i].client = "open" =>
                /\ conn[i].client = "open" /\ conn'[i].of = conn[i].of
                /\ Tells(conn'[i].toClient, client[conn[i].of], Gone(i)')
  PROVE  Told'
<1>1. Lined'
  BY DEF Told, Lined
<1>2. \A c \in Clients : client[c].pc = "input" => Where(c) \in Conns
  BY DEF SessionInv, Places, ClientPlace
<1>3. ASSUME NEW c \in Clients, client[c].pc = "input", client[c].answer.res # "none"
      PROVE  client[c].answer.to = client[c].command
               \/ (client[c].answer.to = NoCommand /\ Gone(Where(c))')
  <2>1. client[c].answer.to = client[c].command
          \/ (client[c].answer.to = NoCommand /\ Gone(Where(c)))
    BY <1>3 DEF Told, AnswersMatch
  <2> QED BY <1>2, <1>3, <2>1 DEF Where, Gone
<1>4. AnswersMatch'
  BY <1>3 DEF AnswersMatch, Where
<1> QED BY <1>1, <1>4 DEF Told


\* A step of one client, now d, seen from the connections.
LEMMA ClientTells ==
  ASSUME SessionInv, Told, NEW c \in Clients, NEW d, client' = [client EXCEPT ![c] = d],
         \A i \in Conns : Gone(i) => Gone(i)',
         \A i \in Conns : conn'[i].client = "open" =>
           \/ conn[i].of \in Clients \ {c} /\ conn'[i] = conn[i]
           \/ conn'[i].of = c /\ Tells(conn'[i].toClient, d, Gone(i)),
         d.pc \in {"ready", "go", "send", "line"} => d.answer.res = "none",
         NEW gone, gone => d.conn \in Conns /\ Gone(d.conn),
         d.pc = "input" /\ d.answer.res # "none" =>
           d.answer.to = d.command \/ (d.answer.to = NoCommand /\ gone)
  PROVE  Told'
<1>1. client'[c] = d /\ \A b \in Clients : b # c => client'[b] = client[b]
  BY DEF SessionInv, TypeOK
<1>2. ASSUME NEW i \in Conns, conn'[i].client = "open"
      PROVE  Tells(conn'[i].toClient, client'[conn'[i].of], Gone(i)')
  <2>1. CASE conn'[i].of = c /\ Tells(conn'[i].toClient, d, Gone(i))
    BY <1>1, <2>1, TellsLater
  <2>2. CASE conn[i].of \in Clients \ {c} /\ conn'[i] = conn[i]
    <3>1. Tells(conn[i].toClient, client[conn[i].of], Gone(i))
      BY <1>2, <2>2 DEF Told, Lined
    <3>2. client'[conn'[i].of] = client[conn[i].of]
      BY <1>1, <2>2
    <3> QED BY <2>2, <3>1, <3>2, TellsLater
  <2> QED BY <1>2, <2>1, <2>2
<1>3. ASSUME NEW b \in Clients, client'[b].pc \in {"ready", "go", "send", "line"}
      PROVE  client'[b].answer.res = "none"
  BY <1>1, <1>3 DEF Told, Lined
<1>4. Lined'
  BY <1>2, <1>3 DEF Lined
<1>5. ASSUME NEW b \in Clients, client'[b].pc = "input", client'[b].answer.res # "none"
      PROVE  \/ client'[b].answer.to = client'[b].command
             \/ /\ client'[b].answer.to = NoCommand
                /\ \E i \in Conns : i = client'[b].conn /\ Gone(i)'
  <2>1. CASE b = c
    BY <1>1, <1>5, <2>1
  <2>2. CASE b # c
    <3>1. client'[b] = client[b]
      BY <1>1, <2>2
    <3>2. Where(b) \in Conns
      BY <1>5, <3>1 DEF SessionInv, Places, ClientPlace
    <3>3. client[b].answer.to = client[b].command
            \/ (client[b].answer.to = NoCommand /\ Gone(Where(b)))
      BY <1>5, <3>1 DEF Told, AnswersMatch
    <3>4. Where(b) = client'[b].conn
      BY <3>1 DEF Where
    <3> QED BY <3>1, <3>2, <3>3, <3>4
  <2> QED BY <2>1, <2>2
<1>6. AnswersMatch'
  BY <1>5 DEF AnswersMatch, Where, Gone
<1> QED BY <1>4, <1>6 DEF Told

-----------------------------------------------------------------------------
(***************************************************************************)
(* A step of the server, seen from the lines.                              *)
(***************************************************************************)
LEMMA TellsNow ==
  ASSUME SessionInv, Told, NEW i \in Conns, conn[i].client = "open"
  PROVE  /\ conn[i].of \in Clients /\ conn[i].toClient \in Seq(ToClient)
         /\ Tells(conn[i].toClient, client[conn[i].of], Gone(i))
<1>1. conn[i] \in Connections /\ conn[i].of \in Clients
  BY PlacesAt DEF SessionInv
<1> QED BY <1>1, ConnectionType DEF Told, Lined

\* What becomes of the lines when the server's end closes.
LEMMA ClosedTells ==
  ASSUME NEW k \in Connections, k.client = "open"
  PROVE  Closed(k, "server").toClient \in {k.toClient, <<>>}
<1> DEFINE c == [k EXCEPT !.server = "closed", !.toServer = <<>>]
<1>1. <<>> \in Seq(ToServer)
  OBVIOUS
<1>2. c \in Connections /\ c.toClient = k.toClient
  BY <1>1 DEF Connections
<1>3. Closed(k, "server") \in {c, Reset(c, "client")}
  BY DEF Closed, HungUp
<1> HIDE DEF c
<1>4. Reset(c, "client").toClient \in {c.toClient, <<>>}
  BY <1>2 DEF Reset, Connections
<1> QED BY <1>2, <1>3, <1>4

\* The server sends m on its connection and goes on as s, or dies.
LEMMA SendsTells ==
  ASSUME SessionInv, Told, server.pc \in {"line", "answer", "data"},
         NEW k, Served(k), NEW m \in ToClient, NEW s, s.conn = server.conn,
         k.client = "open" => Tells(k.toClient, client[k.of], FALSE),
         Live(k) =>
           \/ m.type # "line"
           \/ m.to = NoCommand /\ s.pc = "leave"
           \/ /\ \A j \in DOMAIN k.toClient : k.toClient[j].type # "line"
              /\ client[k.of].pc # "input" /\ m.to = client[k.of].command,
         ServerSends(server.conn, k, m, s), UNCHANGED client
  PROVE  Told'
<1> DEFINE i == server.conn
<1>1. Serving /\ i \in Conns /\ conn[i].server = "open" /\ k \in Connections
      /\ \A j \in Conns : conn[j] \in Connections
  BY ServedNow, PlacesAt DEF Serving, Served, SessionInv, Places, ServerPlace
<1>2. PICK o \in Sent(k, "server", m) :
        \/ o.res = "killed" /\ ServerDies(i, o.conn)
        \/ Put(i, o.conn) /\ server' = s
  BY DEF ServerSends
<1>3. /\ ServerWrote(k, o.conn) /\ o.conn.client = k.client /\ o.conn.of = k.of
      /\ Live(k) => /\ o.res = "sent"
                    /\ o.conn.toClient = Append(k.toClient, m)
      /\ k.cut => o.conn = k
      /\ k.client = "open" => o.res # "killed"
  <2>1. k.client = "open" => "server" \notin k.reset
    BY DEF Served
  <2>2. k.cut => o.conn = k /\ o.res # "killed"
    BY DEF Sent
  <2> QED BY <1>1, <2>1, <2>2, ServerSent DEF Live, ServerWrote
<1>4. k.client = conn[i].client /\ k.of = conn[i].of
  BY DEF Served
<1>5. \A j \in Conns : Gone(j) => conn[j].server = "closed" /\ j # i
  BY <1>1 DEF Gone
<1>6. CASE o.res = "killed" /\ ServerDies(i, o.conn)
  <2>1. ASSUME NEW j \in Conns
        PROVE  conn'[j] = IF j = i THEN Closed(o.conn, "server")
                          ELSE IF conn[j].server = "queued" THEN Closed(conn[j], "server")
                          ELSE conn[j]
    BY <1>6 DEF ServerDies
  <2>2. ASSUME NEW j \in Conns, Gone(j) PROVE Gone(j)'
    BY <1>5, <2>1, <2>2 DEF Gone
  <2>3. ASSUME NEW j \in Conns, conn'[j].client = "open"
        PROVE  /\ conn[j].client = "open" /\ conn'[j].of = conn[j].of
               /\ Tells(conn'[j].toClient, client[conn[j].of], Gone(j)')
    <3>1. j # i
      <4>1. Closed(o.conn, "server").client = k.client
        BY <1>3, ServerClosed DEF ServerWrote
      <4> QED BY <1>3, <1>6, <2>1, <2>3, <4>1
    <3>2. /\ conn[j].client = "open" /\ conn'[j].of = conn[j].of
          /\ conn'[j].toClient \in {conn[j].toClient, <<>>}
      BY <1>1, <2>1, <2>3, <3>1, ServerClosed, ClosedTells
    <3> QED BY <2>2, <3>2, TellsNow, TellsNothing, TellsLater
  <2> QED BY <2>2, <2>3, ServerTells
<1>7. CASE Put(i, o.conn) /\ server' = s
  <2>1. conn'[i] = o.conn /\ \A j \in Conns : j # i => conn'[j] = conn[j]
    BY <1>1, <1>7 DEF Put, SessionInv, TypeOK
  <2>2. ASSUME NEW j \in Conns, Gone(j) PROVE Gone(j)'
    BY <1>5, <2>1, <2>2 DEF Gone
  <2>3. ASSUME NEW j \in Conns, conn'[j].client = "open"
        PROVE  /\ conn[j].client = "open" /\ conn'[j].of = conn[j].of
               /\ Tells(conn'[j].toClient, client[conn[j].of], Gone(j)')
    <3>1. CASE j # i
      BY <2>1, <2>2, <2>3, <3>1, TellsNow, TellsLater
    <3>2. CASE j = i
      <4>1. k.client = "open" /\ conn[j].client = "open" /\ conn'[j].of = k.of
        BY <1>3, <1>4, <2>1, <2>3, <3>2
      <4>2. Tells(k.toClient, client[k.of], Gone(j)')
        BY <4>1, TellsLater
      <4>3. CASE k.cut
        BY <1>3, <1>4, <2>1, <3>2, <4>1, <4>2, <4>3
      <4>4. CASE ~k.cut
        <5>1. Live(k) /\ conn'[j].toClient = Append(k.toClient, m)
          BY <1>3, <2>1, <3>2, <4>1, <4>4 DEF Live
        <5>2. s.pc = "leave" => Gone(j)'
          BY <1>7, <3>2 DEF Gone
        <5>3. k.toClient \in Seq(ToClient)
          BY <1>1, ConnectionType
        <5>4. Tells(Append(k.toClient, m), client[k.of], Gone(j)')
          BY <4>2, <5>1, <5>2, <5>3, TellsMore
        <5> QED BY <1>4, <3>2, <4>1, <5>1, <5>4
      <4> QED BY <4>3, <4>4
    <3> QED BY <3>1, <3>2
  <2> QED BY <1>7, <2>2, <2>3, ServerTells
<1> QED BY <1>2, <1>6, <1>7

\* While the server is in an upload its client waits, and has no line yet.
LEMMA NoLineYet ==
  ASSUME SessionInv, server.pc \in {"answer", "data"}, Live(conn[server.conn])
  PROVE  LET k == conn[server.conn]
             c == client[k.of]
         IN /\ c.command = server.command /\ c.pc # "input"
            /\ \A j \in DOMAIN k.toClient : k.toClient[j].type # "line"
<1> DEFINE k == conn[server.conn]
           c == client[k.of]
<1>1. server.conn \in Conns /\ k.server = "open"
  BY DEF SessionInv, Places, ServerPlace, Serving
<1>2. Exchange(k, c, server, session_next) /\ Stage(k, server) = server.pc
  BY <1>1 DEF SessionInv, Streams, Stage
<1>3. /\ c.command = server.command /\ c.pc # "input"
      /\ \/ k.toClient = <<>>
         \/ k.toClient = <<Ready(server.my_answer)>>
         \/ k.toClient = <<Go(session_next)>>
  BY <1>2 DEF Exchange, AnswerExchange, DataExchange
<1> QED BY <1>3 DEF Ready, Go

\* What was read from the connection leaves its lines.
LEMMA ReadTells ==
  ASSUME SessionInv, Told, server.pc \in {"line", "answer", "data"}, NEW q \in Seq(ToServer)
  PROVE  LET k == [conn[server.conn] EXCEPT !.toServer = q]
             r == conn[server.conn]
         IN /\ Served(k) /\ (Live(k) <=> Live(r))
            /\ k.of = r.of /\ k.toClient = r.toClient
            /\ k.client = "open" => Tells(k.toClient, client[k.of], FALSE)
            /\ r.client = "open" => Tells(r.toClient, client[r.of], FALSE)
<1> DEFINE r == conn[server.conn]
           k == [r EXCEPT !.toServer = q]
<1>0. Serving /\ TypeOK /\ Places
  BY DEF Serving, SessionInv
<1>1. server.conn \in Conns /\ r.server = "open" /\ r \in Connections /\ Served(k)
  BY <1>0, ServedNow, PlacesAt DEF Places, ServerPlace
<1> USE DEF Connections
<1>2. k.of = r.of /\ k.toClient = r.toClient /\ k.client = r.client /\ k.cut = r.cut
  BY <1>1
<1> HIDE DEF Connections
<1>3. r.client = "open" => Tells(r.toClient, client[r.of], Gone(server.conn))
  BY <1>1, TellsNow
<1>4. ~Gone(server.conn)
  BY <1>1 DEF Gone
<1>5. r.client = "open" => Tells(r.toClient, client[r.of], FALSE)
  BY <1>3, <1>4 DEF Tells
<1> HIDE DEF k
<1>6. /\ Live(k) <=> Live(r)
      /\ k.client = "open" => Tells(k.toClient, client[k.of], FALSE)
  BY <1>2, <1>5 DEF Live
<1> QED BY <1>1, <1>2, <1>5, <1>6 DEF k

\* The answer line to the command of the client.
LEMMA RepliesTell ==
  ASSUME SessionInv, Told, server.pc \in {"line", "answer", "data"},
         NEW k, Served(k), NEW s \in ServerStates, s.conn = server.conn,
         k.client = "open" => Tells(k.toClient, client[k.of], FALSE),
         Live(k) =>
           \/ s.command = NoCommand /\ s.pc = "leave"
           \/ /\ \A j \in DOMAIN k.toClient : k.toClient[j].type # "line"
              /\ client[k.of].pc # "input" /\ s.command = client[k.of].command,
         ServerReplies(server.conn, k, s), UNCHANGED client
  PROVE  Told'
<1>1. Line(s.res, s.command) \in ToClient
  BY MessageTypes DEF ServerStates
<1>2. Line(s.res, s.command).to = s.command
  BY DEF Line
<1>3. ServerSends(server.conn, k, Line(s.res, s.command), s)
  BY DEF ServerReplies
<1> HIDE DEF Line
<1> QED BY <1>1, <1>2, <1>3, SendsTells

LEMMA AcceptTells ==
  ASSUME SessionInv, Told, ServerAccept
  PROVE  Told'
<1>1. PICK i \in Conns :
        /\ conn[i].server = "queued"
        /\ Put(i, [conn[i] EXCEPT !.server = "open"])
        /\ server' = [server EXCEPT !.pc = "line", !.conn = i]
  BY DEF ServerAccept
<1>2. \A j \in Conns : conn[j] \in Connections
  BY DEF SessionInv, TypeOK
<1>3. ASSUME NEW j \in Conns
      PROVE  /\ conn'[j].of = conn[j].of /\ conn'[j].client = conn[j].client
             /\ conn'[j].toClient = conn[j].toClient
             /\ conn[j].server = "closed" => conn'[j].server = "closed"
  BY <1>1, <1>2 DEF Put, Connections, SessionInv, TypeOK
<1>4. ASSUME NEW j \in Conns, Gone(j) PROVE Gone(j)'
  BY <1>3, <1>4 DEF Gone, ServerAccept
<1>5. UNCHANGED client
  BY DEF ServerAccept
<1>6. ASSUME NEW j \in Conns, conn'[j].client = "open"
      PROVE  /\ conn[j].client = "open" /\ conn'[j].of = conn[j].of
             /\ Tells(conn'[j].toClient, client[conn[j].of], Gone(j)')
  BY <1>3, <1>4, <1>6, TellsNow, TellsLater
<1> QED BY <1>4, <1>5, <1>6, ServerTells

LEMMA LeaveTells ==
  ASSUME SessionInv, Told, ServerLeave
  PROVE  Told'
<1> DEFINE i == server.conn
<1>1. i \in Conns /\ conn[i].server = "open" /\ UNCHANGED client
  BY DEF ServerLeave, SessionInv, Places, ServerPlace, Serving
<1>2. \A j \in Conns : conn[j] \in Connections
  BY DEF SessionInv, TypeOK
<1>3. conn'[i] = Closed(conn[i], "server") /\ \A j \in Conns : j # i => conn'[j] = conn[j]
  BY <1>1 DEF ServerLeave, Put, SessionInv, TypeOK
<1>4. conn'[i].server = "closed"
  BY <1>1, <1>2, <1>3, ServerClosed
<1>5. ASSUME NEW j \in Conns, Gone(j) PROVE Gone(j)'
  BY <1>3, <1>4, <1>5 DEF Gone
<1>6. ASSUME NEW j \in Conns, conn'[j].client = "open"
      PROVE  /\ conn[j].client = "open" /\ conn'[j].of = conn[j].of
             /\ Tells(conn'[j].toClient, client[conn[j].of], Gone(j)')
  <2>1. /\ conn[j].client = "open" /\ conn'[j].of = conn[j].of
        /\ conn'[j].toClient \in {conn[j].toClient, <<>>}
    BY <1>2, <1>3, <1>6, ServerClosed, ClosedTells
  <2> QED BY <1>5, <2>1, TellsNow, TellsNothing, TellsLater
<1> QED BY <1>1, <1>5, <1>6, ServerTells

LEMMA IdleTells ==
  ASSUME SessionInv, Told, ServerIdle
  PROVE  Told'
<1> DEFINE s == [server EXCEPT !.pc = "leave", !.command = NoCommand, !.res = "Unknown command"]
<1>1. s \in ServerStates /\ s.conn = server.conn /\ s.pc = "leave" /\ s.command = NoCommand
  BY CommandTypes DEF TypeOK, ServerStates, ServerPCs, LineResults, SessionInv
<1>2. /\ server.pc = "line" /\ UNCHANGED client
      /\ ServerReplies(server.conn, conn[server.conn], s)
  BY DEF ServerIdle
<1>3. Served(conn[server.conn]) /\ <<>> \in Seq(ToServer)
  BY <1>2, ServedNow DEF Serving, SessionInv
<1> HIDE DEF s
<1> QED BY <1>1, <1>2, <1>3, ReadTells, RepliesTell

LEMMA AnswerLostTells ==
  ASSUME SessionInv, Told, ServerAnswerLost
  PROVE  Told'
<1> DEFINE s == [server EXCEPT !.pc = "line", !.res = "Bad handshake"]
           k == conn[server.conn]
<1>1. s \in ServerStates /\ s.conn = server.conn /\ s.command = server.command
  BY DEF TypeOK, ServerStates, ServerPCs, LineResults, SessionInv
<1>2. server.pc = "answer" /\ UNCHANGED client /\ ServerReplies(server.conn, k, s)
  BY DEF ServerAnswerLost, ServerRefuses
<1>3. Served(k) /\ <<>> \in Seq(ToServer)
  BY <1>2, ServedNow DEF Serving, SessionInv
<1> HIDE DEF s, k
<1>4. k.client = "open" => Tells(k.toClient, client[k.of], FALSE)
  BY <1>2, <1>3, ReadTells DEF k
<1>5. Live(k) => /\ client[k.of].command = server.command /\ client[k.of].pc # "input"
                 /\ \A j \in DOMAIN k.toClient : k.toClient[j].type # "line"
  BY <1>2, NoLineYet DEF k
<1> QED BY <1>1, <1>2, <1>3, <1>4, <1>5, RepliesTell

LEMMA SectorLostTells ==
  ASSUME SessionInv, Told, ServerSectorLost
  PROVE  Told'
<1> DEFINE s == [server EXCEPT !.pc = "line", !.res = "Error receiving size"]
           k == conn[server.conn]
<1>1. s \in ServerStates /\ s.conn = server.conn /\ s.command = server.command
  BY DEF TypeOK, ServerStates, ServerPCs, LineResults, SessionInv
<1>2. server.pc = "data" /\ UNCHANGED client /\ ServerReplies(server.conn, k, s)
  BY DEF ServerSectorLost
<1>3. Served(k) /\ <<>> \in Seq(ToServer)
  BY <1>2, ServedNow DEF Serving, SessionInv
<1> HIDE DEF s, k
<1>4. k.client = "open" => Tells(k.toClient, client[k.of], FALSE)
  BY <1>2, <1>3, ReadTells DEF k
<1>5. Live(k) => /\ client[k.of].command = server.command /\ client[k.of].pc # "input"
                 /\ \A j \in DOMAIN k.toClient : k.toClient[j].type # "line"
  BY <1>2, NoLineYet DEF k
<1> QED BY <1>1, <1>2, <1>3, <1>4, <1>5, RepliesTell

\* The head of what was to be read has been read.
LEMMA TailTells ==
  ASSUME SessionInv, Told, server.pc \in {"line", "answer", "data"},
         conn[server.conn].toServer # <<>>
  PROVE  LET r == conn[server.conn]
             k == [r EXCEPT !.toServer = Tail(@)]
         IN /\ Served(k) /\ (Live(k) <=> Live(r))
            /\ k.of = r.of /\ k.toClient = r.toClient
            /\ k.client = "open" => Tells(k.toClient, client[k.of], FALSE)
            /\ server.conn \in Conns /\ r.server = "open"
<1> DEFINE r == conn[server.conn]
           q == Tail(r.toServer)
<1>1. server.conn \in Conns /\ r.server = "open" /\ r \in Connections
  BY PlacesAt DEF SessionInv, Places, ServerPlace, Serving
<1>2. q \in Seq(ToServer)
  BY <1>1, ConnectionType
<1>3. [r EXCEPT !.toServer = Tail(@)] = [r EXCEPT !.toServer = q]
  OBVIOUS
<1> QED BY <1>1, <1>2, <1>3, ReadTells

LEMMA SectorTells ==
  ASSUME SessionInv, Told, ServerSector
  PROVE  Told'
<1> DEFINE s == [server EXCEPT !.pc = "line", !.res = "Completed"]
           r == conn[server.conn]
           k == [r EXCEPT !.toServer = Tail(@)]
<1>1. s \in ServerStates /\ s.conn = server.conn /\ s.command = server.command
  BY DEF TypeOK, ServerStates, ServerPCs, LineResults, SessionInv
<1>2. /\ server.pc = "data" /\ UNCHANGED client /\ r.toServer # <<>>
      /\ \/ ServerReplies(server.conn, k, s)
         \/ Put(server.conn, k) /\ UNCHANGED server
  BY DEF ServerSector
<1>3. /\ Served(k) /\ (Live(k) <=> Live(r)) /\ k.of = r.of /\ k.toClient = r.toClient
      /\ k.client = "open" => Tells(k.toClient, client[k.of], FALSE)
      /\ server.conn \in Conns /\ r.server = "open"
  BY <1>2, TailTells
<1>4. Live(r) => /\ client[r.of].command = server.command /\ client[r.of].pc # "input"
                 /\ \A j \in DOMAIN r.toClient : r.toClient[j].type # "line"
  BY <1>2, NoLineYet
<1>5. k.client = r.client /\ k.server = "open" /\ conn[server.conn] = r
  BY <1>3 DEF Served
<1> HIDE DEF s, k, r
<1>6. CASE ServerReplies(server.conn, k, s)
  BY <1>1, <1>2, <1>3, <1>4, <1>6, RepliesTell
<1>7. CASE Put(server.conn, k) /\ UNCHANGED server
  <2>1. conn'[server.conn] = k /\ \A j \in Conns : j # server.conn => conn'[j] = conn[j]
    BY <1>3, <1>7 DEF Put, SessionInv, TypeOK
  <2>2. ASSUME NEW j \in Conns, Gone(j) PROVE Gone(j)'
    BY <1>2, <1>3, <1>5, <1>7, <2>1, <2>2 DEF Gone
  <2>3. ASSUME NEW j \in Conns, conn'[j].client = "open"
        PROVE  /\ conn[j].client = "open" /\ conn'[j].of = conn[j].of
               /\ Tells(conn'[j].toClient, client[conn[j].of], Gone(j)')
    <3>1. conn[j].client = "open" /\ conn'[j].of = conn[j].of
          /\ conn'[j].toClient = conn[j].toClient
      BY <1>3, <1>5, <2>1, <2>3
    <3> QED BY <2>2, <3>1, TellsNow, TellsLater
  <2> QED BY <1>2, <2>2, <2>3, ServerTells
<1> QED BY <1>2, <1>6, <1>7

LEMMA AnswerTells ==
  ASSUME SessionInv, Told, ServerAnswer
  PROVE  Told'
<1> DEFINE r == conn[server.conn]
           k == [r EXCEPT !.toServer = Tail(@)]
           m == Go(session_next)
           sData == [server EXCEPT !.pc = "data"]
           sBad(res) == [server EXCEPT !.pc = "line", !.res = res]
<1>1. /\ sData.conn = server.conn
      /\ \A res \in LineResults :
           /\ sBad(res) \in ServerStates /\ sBad(res).conn = server.conn
           /\ sBad(res).command = server.command
  BY DEF TypeOK, ServerStates, ServerPCs, SessionInv
<1>2. server.pc = "answer" /\ UNCHANGED client /\ r.toServer # <<>>
  BY DEF ServerAnswer
<1>3. PICK o \in Sent(k, "server", m) :
        \/ /\ o.res = "sent" /\ Put(server.conn, o.conn) /\ server' = sData
        \/ ServerReplies(server.conn, o.conn, sBad("Bad handshake"))
        \/ ServerReplies(server.conn, o.conn, sBad("Bad handshake 2"))
        \/ o.res = "killed" /\ ServerDies(server.conn, o.conn)
  BY DEF ServerAnswer, ServerRefuses
<1>4. /\ Served(k) /\ (Live(k) <=> Live(r)) /\ k.of = r.of /\ k.toClient = r.toClient
      /\ k.client = "open" => Tells(k.toClient, client[k.of], FALSE)
  BY <1>2, TailTells
<1>5. Live(k) => /\ client[k.of].command = server.command /\ client[k.of].pc # "input"
                 /\ \A j \in DOMAIN k.toClient : k.toClient[j].type # "line"
  BY <1>2, <1>4, NoLineYet
<1>6. m \in ToClient /\ m.type = "go"
  <2>1. m \in ToClient
    BY MessageTypes DEF SessionInv, TypeOK
  <2> QED BY <2>1 DEF Go
<1> HIDE DEF k, r, m, sData, sBad
<1>7. CASE /\ o.res = "sent" /\ Put(server.conn, o.conn) /\ server' = sData
  <2>1. ServerSends(server.conn, k, m, sData)
    BY <1>7 DEF ServerSends
  <2> QED BY <1>1, <1>2, <1>4, <1>6, <2>1, SendsTells
<1>8. CASE o.res = "killed" /\ ServerDies(server.conn, o.conn)
  <2>1. ServerSends(server.conn, k, m, sData)
    BY <1>8 DEF ServerSends
  <2> QED BY <1>1, <1>2, <1>4, <1>6, <2>1, SendsTells
<1>9. CASE \E res \in LineResults : ServerReplies(server.conn, o.conn, sBad(res))
  <2>1. PICK res \in LineResults : ServerReplies(server.conn, o.conn, sBad(res))
    BY <1>9
  <2>2. k \in Connections /\ (k.client = "open" => "server" \notin k.reset)
    BY <1>4 DEF Served
  <2>3. ServerWrote(k, o.conn) /\ Served(o.conn)
    BY <1>4, <1>6, <2>2, ServerSent, ServedWritten
  <2>4. o.conn.of = k.of /\ (Live(o.conn) <=> Live(k)) /\ o.conn.client = k.client
    BY <2>3 DEF Live, ServerWrote
  <2>5. CASE ~Live(k)
    <3>1. k.client = "open" => o.conn = k
      BY <2>5 DEF Live, Sent
    <3> QED BY <1>1, <1>2, <1>4, <2>1, <2>3, <2>4, <2>5, <3>1, RepliesTell
  <2>6. CASE Live(k)
    <3>1. o.conn.toClient = Append(k.toClient, m) /\ k.toClient \in Seq(ToClient)
      BY <1>6, <2>2, <2>6, ServerSent, ConnectionType DEF Live
    <3>2. Tells(o.conn.toClient, client[k.of], FALSE)
      BY <1>4, <1>6, <2>6, <3>1, TellsMore DEF Live
    <3>3. \A j \in DOMAIN o.conn.toClient : o.conn.toClient[j].type # "line"
      BY <1>5, <1>6, <2>6, <3>1, AppendProperties
    <3> QED BY <1>1, <1>2, <1>5, <2>1, <2>3, <2>4, <2>6, <3>2, <3>3, RepliesTell
  <2> QED BY <2>5, <2>6
<1>10. "Bad handshake" \in LineResults /\ "Bad handshake 2" \in LineResults
  BY DEF LineResults
<1> QED BY <1>3, <1>7, <1>8, <1>9, <1>10

-----------------------------------------------------------------------------
(***************************************************************************)
(* The server starts an upload; the network cuts a connection.             *)
(***************************************************************************)
LEMMA StartTells ==
  ASSUME SessionInv, Told, server.pc = "line", UNCHANGED client,
         NEW k, Served(k), NEW command \in Uploads,
         k.client = "open" => Tells(k.toClient, client[k.of], FALSE),
         Live(k) => /\ client[k.of].pc \in {"ready", "line"}
                    /\ client[k.of].command = command /\ k.toClient = <<>>,
         StartUpload(server.conn, k, command)
  PROVE  Told'
<1> DEFINE fs == Opened(command)
           s == [server EXCEPT !.pc = "answer", !.command = command, !.res = "none",
                               !.my_answer = fs[command.name].exists]
           sBad == [s EXCEPT !.pc = "line", !.res = "Bad handshake"]
           m == Ready(s.my_answer)
<1>1. fs[command.name].exists \in BOOLEAN
  BY CommandTypes, FileTypes DEF SessionInv, TypeOK, FileStates
<1>2. /\ s \in ServerStates /\ s.conn = server.conn /\ s.command = command
      /\ s.my_answer \in BOOLEAN
  BY <1>1, CommandTypes DEF SessionInv, TypeOK, ServerStates, ServerPCs, LineResults
<1>3. PICK o \in Sent(k, "server", m) :
        \/ o.res = "sent" /\ Put(server.conn, o.conn) /\ server' = s
        \/ o.res = "error" /\ ServerReplies(server.conn, o.conn, sBad)
        \/ o.res = "killed" /\ ServerDies(server.conn, o.conn)
  BY DEF StartUpload
<1> HIDE DEF s, fs
<1>4. sBad \in ServerStates /\ sBad.conn = server.conn /\ sBad.command = command
  BY <1>2 DEF ServerStates, ServerPCs, LineResults
<1>5. m \in ToClient /\ m.type = "ready"
  BY <1>2, MessageTypes DEF Ready
<1> HIDE DEF sBad, m
<1>6. CASE o.res \in {"sent", "killed"}
  <2>1. ServerSends(server.conn, k, m, s)
    BY <1>3, <1>6 DEF ServerSends
  <2> QED BY <1>2, <1>5, <2>1, SendsTells
<1>7. CASE o.res = "error" /\ ServerReplies(server.conn, o.conn, sBad)
  <2>1. k \in Connections /\ (k.client = "open" => "server" \notin k.reset)
    BY DEF Served
  <2>2. ~Live(k)
    BY <1>5, <1>7, <2>1, ServerSent DEF Live
  <2>3. ServerWrote(k, o.conn) /\ Served(o.conn)
    BY <1>5, <2>1, ServerSent, ServedWritten
  <2>4. o.conn.of = k.of /\ ~Live(o.conn) /\ o.conn.client = k.client
    BY <2>2, <2>3 DEF Live, ServerWrote
  <2>5. k.client = "open" => o.conn = k
    BY <2>2 DEF Live, Sent
  <2> QED BY <1>4, <1>7, <2>3, <2>4, <2>5, RepliesTell
<1> QED BY <1>3, <1>6, <1>7

LEMMA CommandTells ==
  ASSUME SessionInv, Told, ServerCommand
  PROVE  Told'
<1> DEFINE r == conn[server.conn]
           k == [r EXCEPT !.toServer = Tail(@)]
           command == Head(r.toServer)
           s == [server EXCEPT !.pc = IF command.op = "DISCONNECT" THEN "leave" ELSE "line",
                               !.command = command, !.res = LineResult(command)]
<1>1. /\ server.pc = "line" /\ UNCHANGED client /\ r.toServer # <<>>
      /\ \/ command \in Uploads /\ StartUpload(server.conn, k, command)
         \/ ServerReplies(server.conn, k, s)
  BY DEF ServerCommand
<1>2. /\ Served(k) /\ (Live(k) <=> Live(r)) /\ k.of = r.of /\ k.toClient = r.toClient
      /\ k.client = "open" => Tells(k.toClient, client[k.of], FALSE)
  BY <1>1, TailTells
<1>3. /\ command \in AllCommands
      /\ Live(r) => /\ client[r.of].pc \in {"ready", "line"} /\ client[r.of].command = command
                    /\ r.toClient = <<>>
  BY <1>1, LineRead DEF SessionInv
<1>4. s \in ServerStates /\ s.conn = server.conn /\ s.command = command
  BY <1>3 DEF SessionInv, TypeOK, ServerStates, ServerPCs, LineResults, LineResult
<1> HIDE DEF r, k, command, s
<1>5. CASE command \in Uploads /\ StartUpload(server.conn, k, command)
  BY <1>1, <1>2, <1>3, <1>5, StartTells
<1>6. CASE ServerReplies(server.conn, k, s)
  <2>1. ASSUME Live(k)
        PROVE  /\ \A j \in DOMAIN k.toClient : k.toClient[j].type # "line"
               /\ client[k.of].pc # "input" /\ s.command = client[k.of].command
    <3>1. k.toClient = <<>>
      BY <1>2, <1>3, <2>1
    <3>2. \A j \in DOMAIN k.toClient : FALSE
      BY <3>1
    <3> QED BY <1>2, <1>3, <1>4, <2>1, <3>2
  <2> QED BY <1>1, <1>2, <1>4, <1>6, <2>1, RepliesTell
<1> QED BY <1>1, <1>5, <1>6

LEMMA CutTells ==
  ASSUME SessionInv, Told, Cut
  PROVE  Told'
<1>1. PICK i \in Conns :
        \E up \in Prefixes(conn[i].toServer), down \in Prefixes(conn[i].toClient) :
          \E torn \in Torn(up) :
            Put(i, [conn[i] EXCEPT !.cut = TRUE, !.toServer = torn, !.toClient = down])
  BY DEF Cut
<1>2. PICK down \in Prefixes(conn[i].toClient) :
        \E torn : Put(i, [conn[i] EXCEPT !.cut = TRUE, !.toServer = torn, !.toClient = down])
  BY <1>1
<1>3. PICK torn :
        Put(i, [conn[i] EXCEPT !.cut = TRUE, !.toServer = torn, !.toClient = down])
  BY <1>2
<1>4. \A j \in Conns : conn[j] \in Connections
  BY DEF SessionInv, TypeOK
<1>5. /\ conn'[i].of = conn[i].of /\ conn'[i].client = conn[i].client
      /\ conn'[i].server = conn[i].server /\ conn'[i].toClient = down
      /\ \A j \in Conns : j # i => conn'[j] = conn[j]
  BY <1>3, <1>4 DEF Put, Connections, SessionInv, TypeOK
<1>6. UNCHANGED client /\ UNCHANGED server
  BY DEF Cut
<1>7. ASSUME NEW j \in Conns, Gone(j) PROVE Gone(j)'
  BY <1>5, <1>6, <1>7 DEF Gone
<1>8. ASSUME NEW j \in Conns, conn'[j].client = "open"
      PROVE  /\ conn[j].client = "open" /\ conn'[j].of = conn[j].of
             /\ Tells(conn'[j].toClient, client[conn[j].of], Gone(j)')
  <2>1. conn[j].client = "open" /\ conn'[j].of = conn[j].of
    BY <1>5, <1>8
  <2>2. conn[j].toClient \in Seq(ToClient) /\ Tells(conn[j].toClient, client[conn[j].of], Gone(j)')
    BY <1>7, <2>1, TellsNow, TellsLater
  <2>3. CASE j = i
    <3>1. PICK n \in 0 .. Len(conn[j].toClient) : down = SubSeq(conn[j].toClient, 1, n)
      BY <2>3 DEF Prefixes
    <3>2. /\ DOMAIN down = 1 .. n /\ n \in Nat
          /\ \A l \in 1 .. n : l \in DOMAIN conn[j].toClient /\ down[l] = conn[j].toClient[l]
      BY <2>2, <3>1
    <3>3. Tells(down, client[conn[j].of], Gone(j)')
      BY <2>2, <3>2 DEF Tells
    <3> QED BY <1>5, <2>1, <2>3, <3>3
  <2>4. CASE j # i
    BY <1>5, <2>1, <2>2, <2>4
  <2> QED BY <2>3, <2>4
<1> QED BY <1>6, <1>7, <1>8, ServerTells

-----------------------------------------------------------------------------
(***************************************************************************)
(* A step of a client, seen from the lines.                                *)
(***************************************************************************)
\* A client that waits on, or that sends when only farewells are under way.
LEMMA TellsOn ==
  ASSUME NEW q, NEW c, NEW g, Tells(q, c, g), NEW d,
         c.pc = "input" \/ (d.pc # "input" /\ d.command = c.command)
  PROVE  Tells(q, d, g)
BY DEF Tells

\* A step of one client on its connection, seen from the connections.
LEMMA OwnTells ==
  ASSUME SessionInv, Told, NEW c \in Clients, client[c].pc \in InSession,
         NEW r, r.of = c, r.server = conn[Where(c)].server, NEW d,
         r.client = "open" => Tells(r.toClient, d, Gone(Where(c))),
         d.pc \in {"ready", "go", "send", "line"} => d.answer.res = "none",
         d.pc = "input" /\ d.answer.res # "none" =>
           /\ d.conn = Where(c)
           /\ d.answer.to = d.command \/ (d.answer.to = NoCommand /\ Gone(Where(c))),
         Put(Where(c), r), client' = [client EXCEPT ![c] = d], UNCHANGED server
  PROVE  Told'
<1> DEFINE i == Where(c)
           gone == d.conn = i /\ Gone(i)
<1>1. i \in Conns /\ conn[i].of = c
  BY DEF SessionInv, Places, ClientPlace, InSession
<1>2. conn'[i] = r /\ \A j \in Conns : j # i => conn'[j] = conn[j]
  BY <1>1 DEF Put, SessionInv, TypeOK
<1>3. ASSUME NEW j \in Conns, Gone(j) PROVE Gone(j)'
  BY <1>2, <1>3 DEF Gone
<1>4. ASSUME NEW j \in Conns, conn'[j].client = "open"
      PROVE  \/ conn[j].of \in Clients \ {c} /\ conn'[j] = conn[j]
             \/ conn'[j].of = c /\ Tells(conn'[j].toClient, d, Gone(j))
  <2>1. CASE j = i
    BY <1>2, <1>4, <2>1
  <2>2. CASE j # i
    <3>1. conn'[j] = conn[j] /\ conn[j].client = "open"
      BY <1>2, <1>4, <2>2
    <3>2. conn[j].of \in Clients /\ client[conn[j].of].conn = j
      BY <3>1, PlacesAt DEF SessionInv
    <3> QED BY <2>2, <3>1, <3>2 DEF Where
  <2> QED BY <2>1, <2>2
<1>5. gone => d.conn \in Conns /\ Gone(d.conn)
  BY <1>1
<1>6. d.pc = "input" /\ d.answer.res # "none" =>
        d.answer.to = d.command \/ (d.answer.to = NoCommand /\ gone)
  OBVIOUS
<1> HIDE DEF gone, i
<1> QED BY <1>3, <1>4, <1>5, <1>6, ClientTells

LEMMA EndsTells ==
  ASSUME SessionInv, Told, NEW c \in Clients, client[c].pc \in InSession,
         NEW k, Mine(c, k), UNCHANGED server,
         \/ ClientDies(c, k)
         \/ EarlyReturn(c, k)
         \/ \E restore \in AllCommands : LoopEnds(c, k, restore)
  PROVE  Told'
<1> DEFINE r == Closed(k, "client")
<1>1. Put(Where(c), r)
  BY DEF ClientDies, EarlyReturn, LoopEnds, SessionEnds
<1>2. PICK pc \in {"connect", "ended", "killed"} :
        client' = [client EXCEPT ![c].pc = pc, ![c].conn = 0]
  BY DEF ClientDies, EarlyReturn, LoopEnds, SessionEnds
<1> DEFINE d == [client[c] EXCEPT !.pc = pc, !.conn = 0]
<1>3. client[c] \in ClientStates
  BY DEF SessionInv, TypeOK
<1>4. d.pc = pc
  BY <1>3 DEF ClientStates
<1>5. client' = [client EXCEPT ![c] = d]
  BY <1>2, <1>3 DEF SessionInv, TypeOK
<1>6. r.of = c /\ r.client = "closed" /\ r.server = conn[Where(c)].server
  BY ClientClosed DEF Mine
<1> HIDE DEF d, r
<1> QED BY <1>1, <1>4, <1>5, <1>6, OwnTells

\* The client's connection, and the lines on it.
LEMMA MineTells ==
  ASSUME SessionInv, Told, NEW c \in Clients, client[c].pc \in InSession
  PROVE  LET k == conn[Where(c)]
         IN /\ Where(c) \in Conns /\ Mine(c, k) /\ k.toClient \in Seq(ToClient)
            /\ Tells(k.toClient, client[c], Gone(Where(c)))
            /\ client[c].pc # "input" => client[c].answer.res = "none"
<1>1. Where(c) \in Conns /\ Mine(c, conn[Where(c)])
  BY MineNow DEF SessionInv
<1>2. conn[Where(c)].of = c /\ conn[Where(c)].client = "open"
  BY <1>1 DEF Mine
<1>3. client[c].pc # "input" => client[c].answer.res = "none"
  BY DEF InSession, Told, Lined
<1> QED BY <1>1, <1>2, <1>3, TellsNow

\* A send of the client leaves it the lines to read, or nothing.
LEMMA SendLeaves ==
  ASSUME NEW c, NEW k, Mine(c, k), NEW m \in ToServer, NEW o \in SentInTwo(k, "client", m)
  PROVE  /\ Mine(c, o.conn)
         /\ o.conn.toClient \in {k.toClient, <<>>}
<1>1. k \in Connections
  BY DEF Mine
<1>2. ClientWrote(k, o.conn) /\ (k.cut => o.conn = k)
      /\ ((k.server # "closed" /\ ~k.cut /\ "client" \notin k.reset) =>
            o.conn.toClient = k.toClient)
  BY <1>1, ClientSent
<1>3. Mine(c, o.conn)
  BY <1>2 DEF Mine, ClientWrote
<1>4. CASE ~k.cut /\ k.server = "closed"
  <2>1. o.conn \in {k, Reset(k, "client")}
    BY <1>4 DEF Sent, SentInTwo, Refused, HungUp
  <2>2. Reset(k, "client").toClient \in {k.toClient, <<>>}
    BY <1>1 DEF Reset, Connections
  <2> QED BY <1>3, <2>1, <2>2
<1> QED BY <1>2, <1>3, <1>4 DEF Mine

\* The client goes on to wait, as d, on its connection, now r.
GoesOn(c, r, d) ==
  /\ Mine(c, r) /\ Tells(r.toClient, client[c], Gone(Where(c)))
  /\ d.pc \in {"go", "send", "line"}
  /\ d.command = client[c].command /\ d.answer = client[c].answer
  /\ Put(Where(c), r) /\ client' = [client EXCEPT ![c] = d] /\ UNCHANGED server

LEMMA GoesTells ==
  ASSUME SessionInv, Told, NEW c \in Clients, client[c].pc \in InSession \ {"input"},
         NEW r, NEW d, GoesOn(c, r, d)
  PROVE  Told'
<1>1. d.answer.res = "none" /\ d.pc # "input" /\ Mine(c, r)
  BY MineTells DEF GoesOn
<1>2. Tells(r.toClient, d, Gone(Where(c)))
  BY <1>1, TellsOn DEF GoesOn
<1> QED BY <1>1, <1>2, OwnTells DEF Mine, GoesOn

LEMMA AwaitTells ==
  ASSUME SessionInv, Told, NEW c \in Clients, client[c].pc \in InSession \ {"input"},
         NEW r, Mine(c, r), Tells(r.toClient, client[c], Gone(Where(c))),
         AwaitLine(c, r), UNCHANGED server
  PROVE  Told'
<1> DEFINE d == [client[c] EXCEPT !.pc = "line"]
<1>1. client \in [Clients -> ClientStates] /\ client[c] \in ClientStates
  BY DEF SessionInv, TypeOK
<1>2. /\ d.pc \in {"go", "send", "line"}
      /\ d.command = client[c].command /\ d.answer = client[c].answer
  BY <1>1 DEF ClientStates
<1>3. client' = [client EXCEPT ![c] = d] /\ Put(Where(c), r)
  BY <1>1 DEF AwaitLine
<1> HIDE DEF d
<1>4. GoesOn(c, r, d)
  BY <1>2, <1>3 DEF GoesOn
<1> QED BY <1>4, GoesTells

LEMMA CommandSendTells ==
  ASSUME SessionInv, Told, NEW c \in Clients, client[c].pc = "input",
         NEW command \in AllCommands, ClientSends(c, command)
  PROVE  Told'
<1> DEFINE k == conn[Where(c)]
           pc == IF command \in Uploads THEN "ready" ELSE "line"
           d == [client[c] EXCEPT !.pc = pc, !.command = command, !.next = 0,
                                  !.answer = Line("none", NoCommand)]
<1>1. /\ client[c].pc \in InSession /\ Mine(c, k) /\ command \in ToServer
      /\ Tells(k.toClient, client[c], Gone(Where(c)))
  BY MineTells, MessageTypes DEF InSession
<1>2. UNCHANGED server
  BY DEF ClientSends
<1>3. PICK o \in Sent(k, "client", command) :
        \/ /\ Put(Where(c), o.conn)
           /\ client' = [client EXCEPT ![c].pc = pc, ![c].command = command, ![c].next = 0,
                                       ![c].answer = Line("none", NoCommand)]
        \/ EarlyReturn(c, o.conn)
        \/ ClientDies(c, o.conn)
  BY DEF ClientSends
<1>4. Mine(c, o.conn) /\ o.conn.toClient \in {k.toClient, <<>>}
  BY <1>1, SentOnce, SendLeaves
<1> HIDE DEF k
<1>5. CASE EarlyReturn(c, o.conn) \/ ClientDies(c, o.conn)
  BY <1>1, <1>2, <1>4, <1>5, EndsTells
<1>6. CASE /\ Put(Where(c), o.conn)
           /\ client' = [client EXCEPT ![c].pc = pc, ![c].command = command, ![c].next = 0,
                                       ![c].answer = Line("none", NoCommand)]
  <2>1. client[c] \in ClientStates /\ client \in [Clients -> ClientStates]
    BY DEF SessionInv, TypeOK
  <2>2. d.pc = pc /\ pc \in {"ready", "line"} /\ d.answer = Line("none", NoCommand)
    BY <2>1 DEF ClientStates
  <2>3. d.answer.res = "none" /\ d.pc # "input"
    BY <2>2 DEF Line
  <2>4. client' = [client EXCEPT ![c] = d]
    BY <1>6, <2>1
  <2> HIDE DEF d, pc
  <2>5. Tells(o.conn.toClient, d, Gone(Where(c)))
    BY <1>1, <1>4, TellsOn, TellsNothing
  <2> QED BY <1>1, <1>2, <1>4, <1>6, <2>3, <2>4, <2>5, OwnTells DEF Mine
<1> QED BY <1>3, <1>5, <1>6

\* A byte taken from a line leaves it a line to the same command.
LEMMA TakenTells ==
  ASSUME NEW k \in Connections, k.toClient # <<>>, NEW c, NEW g, Tells(k.toClient, c, g)
  PROVE  Tells(Taken(k).toClient, c, g)
<1> DEFINE q == k.toClient
<1>1. q \in Seq(ToClient)
  BY ConnectionType
<1>2. Head(q) = q[1] /\ 1 \in 1 .. Len(q) /\ Len(q) \in Nat /\ DOMAIN q = 1 .. Len(q)
      /\ q[1] \in ToClient
  BY <1>1
<1>3. CASE Head(q).type = "line"
  <2> DEFINE l == [q[1] EXCEPT !.res = "garbled"]
             p == [q EXCEPT ![1] = l]
  <2>1. Taken(k).toClient = p
    BY <1>3 DEF Taken, Connections
  <2>2. l.type = q[1].type /\ l.to = q[1].to
    BY <1>2, <1>3, ToClientHead DEF Lines
  <2> HIDE DEF l
  <2>3. /\ DOMAIN p = 1 .. Len(q)
        /\ \A j \in 1 .. Len(q) : p[j].type = q[j].type /\ p[j].to = q[j].to
    BY <1>2, <2>2
  <2> HIDE DEF p, q
  <2>4. Tells(p, c, g)
    BY <1>2, <2>3 DEF Tells, q
  <2> QED BY <2>1, <2>4
<1>4. CASE Head(q).type # "line"
  <2> DEFINE p == Tail(q)
  <2>1. Taken(k).toClient = p
    BY <1>4 DEF Taken, Connections
  <2>2. /\ Len(q) - 1 \in Nat /\ DOMAIN p = 1 .. Len(q) - 1
        /\ \A j \in 1 .. Len(q) - 1 : j + 1 \in DOMAIN q /\ p[j] = q[j + 1]
    BY <1>1, <1>2
  <2> HIDE DEF p, q
  <2>3. Tells(p, c, g)
    BY <2>2, TellsPart DEF q
  <2> QED BY <2>1, <2>3
<1> QED BY <1>3, <1>4

\* What the client has read of the handshake.
LEMMA MineTaken ==
  ASSUME SessionInv, Told, NEW c \in Clients, client[c].pc \in {"ready", "go"},
         conn[Where(c)].toClient # <<>>
  PROVE  LET k == Taken(conn[Where(c)])
         IN Mine(c, k) /\ Tells(k.toClient, client[c], Gone(Where(c)))
<1>1. Mine(c, conn[Where(c)]) /\ Tells(conn[Where(c)].toClient, client[c], Gone(Where(c)))
  BY MineTells DEF InSession
<1> QED BY <1>1, TakenMine, TakenTells DEF Mine

LEMMA ReadyTells ==
  ASSUME SessionInv, Told, NEW c \in Clients, ClientReady(c)
  PROVE  Told'
<1> DEFINE k == Taken(conn[Where(c)])
<1>1. client[c].pc = "ready" /\ client[c].pc \in InSession \ {"input"} /\ UNCHANGED server
  BY MineTells DEF ClientReady, InSession
<1>2. Mine(c, k) /\ Tells(k.toClient, client[c], Gone(Where(c)))
  BY <1>1, MineTaken DEF ClientReady
<1> DEFINE m == Head(conn[Where(c)].toClient)
<1>3. PICK other \in (IF m.type = "ready" THEN {m.ok} ELSE BOOLEAN), opened \in BOOLEAN :
        \E o \in Sent(k, "client", Answer(opened /\ other)) :
          \/ /\ Put(Where(c), o.conn)
             /\ client' = [client EXCEPT ![c].pc = "go", ![c].agreed = opened /\ other]
          \/ AwaitLine(c, o.conn)
          \/ ClientDies(c, o.conn)
  BY DEF ClientReady
<1> DEFINE ok == opened /\ other
<1>4. PICK o \in Sent(k, "client", Answer(ok)) :
        \/ /\ Put(Where(c), o.conn)
           /\ client' = [client EXCEPT ![c].pc = "go", ![c].agreed = ok]
        \/ AwaitLine(c, o.conn)
        \/ ClientDies(c, o.conn)
  BY <1>3
<1>10. ok \in BOOLEAN
  BY <1>3
<1> HIDE DEF k, m, ok
<1>5. Mine(c, o.conn) /\ o.conn.toClient \in {k.toClient, <<>>}
  BY <1>2, <1>10, SentOnce, SendLeaves, MessageTypes
<1>6. Tells(o.conn.toClient, client[c], Gone(Where(c)))
  BY <1>2, <1>5, TellsNothing
<1>7. CASE AwaitLine(c, o.conn)
  BY <1>1, <1>5, <1>6, <1>7, AwaitTells
<1>8. CASE ClientDies(c, o.conn)
  BY <1>1, <1>5, <1>8, EndsTells
<1>9. CASE /\ Put(Where(c), o.conn)
           /\ client' = [client EXCEPT ![c].pc = "go", ![c].agreed = ok]
  <2> DEFINE d == [client[c] EXCEPT !.pc = "go", !.agreed = ok]
  <2>1. client[c] \in ClientStates /\ client \in [Clients -> ClientStates]
    BY DEF SessionInv, TypeOK
  <2>2. d.pc = "go" /\ d.command = client[c].command /\ d.answer = client[c].answer
    BY <2>1 DEF ClientStates
  <2>3. client' = [client EXCEPT ![c] = d]
    BY <1>9, <2>1
  <2> HIDE DEF d
  <2>4. GoesOn(c, o.conn, d)
    BY <1>1, <1>5, <1>6, <1>9, <2>2, <2>3 DEF GoesOn
  <2> QED BY <1>1, <2>4, GoesTells
<1> QED BY <1>4, <1>7, <1>8, <1>9

LEMMA GoTells ==
  ASSUME SessionInv, Told, NEW c \in Clients, ClientGo(c)
  PROVE  Told'
<1> DEFINE k == Taken(conn[Where(c)])
<1>1. client[c].pc = "go" /\ client[c].pc \in InSession \ {"input"} /\ UNCHANGED server
  BY MineTells DEF ClientGo, InSession
<1>2. Mine(c, k) /\ Tells(k.toClient, client[c], Gone(Where(c)))
  BY <1>1, MineTaken DEF ClientGo
<1>3. PICK first :
        \/ /\ Put(Where(c), k)
           /\ client' = [client EXCEPT ![c].pc = "send", ![c].next = first]
        \/ AwaitLine(c, k)
  BY DEF ClientGo
<1> HIDE DEF k
<1>4. CASE AwaitLine(c, k)
  BY <1>1, <1>2, <1>4, AwaitTells
<1>5. CASE /\ Put(Where(c), k)
           /\ client' = [client EXCEPT ![c].pc = "send", ![c].next = first]
  <2> DEFINE d == [client[c] EXCEPT !.pc = "send", !.next = first]
  <2>1. client[c] \in ClientStates /\ client \in [Clients -> ClientStates]
    BY DEF SessionInv, TypeOK
  <2>2. d.pc = "send" /\ d.command = client[c].command /\ d.answer = client[c].answer
    BY <2>1 DEF ClientStates
  <2>3. client' = [client EXCEPT ![c] = d]
    BY <1>5, <2>1
  <2> HIDE DEF d
  <2>4. GoesOn(c, k, d)
    BY <1>1, <1>2, <1>5, <2>2, <2>3 DEF GoesOn
  <2> QED BY <1>1, <2>4, GoesTells
<1> QED BY <1>3, <1>4, <1>5

LEMMA HandshakeLostTells ==
  ASSUME SessionInv, Told, NEW c \in Clients, ClientHandshakeLost(c)
  PROVE  Told'
<1>1. client[c].pc \in InSession \ {"input"} /\ UNCHANGED server
      /\ AwaitLine(c, conn[Where(c)])
  BY DEF ClientHandshakeLost, InSession
<1> QED BY <1>1, MineTells, AwaitTells

LEMMA SectorSentTells ==
  ASSUME SessionInv, Told, NEW c \in Clients, ClientSector(c)
  PROVE  Told'
<1> DEFINE k == conn[Where(c)]
           command == client[c].command
           i == client[c].next
           m == Sector(c, command.name, i)
<1>1. client[c].pc = "send" /\ client[c].pc \in InSession \ {"input"} /\ UNCHANGED server
      /\ Mine(c, k) /\ Tells(k.toClient, client[c], Gone(Where(c)))
  BY MineTells DEF ClientSector, InSession
<1>2. m \in ToServer /\ Continued(command) \in AllCommands
  <2>1. command \in Uploads /\ i \in Nat
    BY <1>1 DEF SessionInv, Places, ClientPlace, TypeOK, ClientStates
  <2> QED BY <2>1, CommandTypes, MessageTypes
<1>3. PICK o \in SentInTwo(k, "client", m) :
        \/ /\ Put(Where(c), o.conn)
           /\ client' = [client EXCEPT ![c].next = i + 1]
        \/ AwaitLine(c, o.conn)
        \/ LoopEnds(c, o.conn, Continued(command))
        \/ ClientDies(c, o.conn)
  BY DEF ClientSector
<1> HIDE DEF k, m, command, i
<1>4. Mine(c, o.conn) /\ o.conn.toClient \in {k.toClient, <<>>}
  BY <1>1, <1>2, SendLeaves
<1>5. Tells(o.conn.toClient, client[c], Gone(Where(c)))
  BY <1>1, <1>4, TellsNothing
<1>6. CASE AwaitLine(c, o.conn)
  BY <1>1, <1>4, <1>5, <1>6, AwaitTells
<1>7. CASE ClientDies(c, o.conn) \/ LoopEnds(c, o.conn, Continued(command))
  BY <1>1, <1>2, <1>4, <1>7, EndsTells
<1>8. CASE /\ Put(Where(c), o.conn)
           /\ client' = [client EXCEPT ![c].next = i + 1]
  <2> DEFINE d == [client[c] EXCEPT !.next = i + 1]
  <2>1. client[c] \in ClientStates /\ client \in [Clients -> ClientStates]
    BY DEF SessionInv, TypeOK
  <2>2. d.pc = "send" /\ d.command = client[c].command /\ d.answer = client[c].answer
    BY <1>1, <2>1 DEF ClientStates
  <2>3. client' = [client EXCEPT ![c] = d]
    BY <1>8, <2>1
  <2> HIDE DEF d
  <2>4. GoesOn(c, o.conn, d)
    BY <1>1, <1>4, <1>5, <1>8, <2>2, <2>3 DEF GoesOn
  <2> QED BY <1>1, <2>4, GoesTells
<1> QED BY <1>3, <1>6, <1>7, <1>8

LEMMA LineTells ==
  ASSUME SessionInv, Told, NEW c \in Clients, ClientLine(c)
  PROVE  Told'
<1> DEFINE k == conn[Where(c)]
           q == k.toClient
<1>1. client[c].pc = "line" /\ client[c].pc \in InSession /\ UNCHANGED server
  BY DEF ClientLine, InSession
<1>2. /\ Where(c) \in Conns /\ Mine(c, k) /\ q \in Seq(ToClient)
      /\ Tells(q, client[c], Gone(Where(c)))
  BY <1>1, MineTells
<1>3. PICK n \in DOMAIN q :
        /\ q[n].type = "line"
        /\ \/ LoopEnds(c, [k EXCEPT !.toClient = SubSeq(q, n + 1, Len(q))], NoCommand)
           \/ /\ Put(Where(c), [k EXCEPT !.toClient = SubSeq(q, n + 1, Len(q))])
              /\ client' = [client EXCEPT ![c].pc = "input",
                   ![c].answer = IF n = 1 THEN q[n] ELSE [q[n] EXCEPT !.res = "garbled"]]
  BY DEF ClientLine
<1> DEFINE rest == SubSeq(q, n + 1, Len(q))
           r == [k EXCEPT !.toClient = rest]
           a == IF n = 1 THEN q[n] ELSE [q[n] EXCEPT !.res = "garbled"]
           d == [client[c] EXCEPT !.pc = "input", !.answer = a]
<1>4. n \in 1 .. Len(q) /\ Len(q) \in Nat /\ DOMAIN q = 1 .. Len(q) /\ q[n] \in ToClient
  BY <1>2
<1>5. a.to = q[n].to
  BY <1>3, <1>4, ToClientHead DEF Lines
<1>6. rest \in Seq(ToClient) /\ Len(q) - n \in Nat /\ DOMAIN rest = 1 .. Len(q) - n
      /\ \A j \in 1 .. Len(q) - n : j + n \in DOMAIN q /\ n < j + n /\ rest[j] = q[j + n]
  <2>1. n + 1 \in Int /\ Len(q) \in Int /\ \A j \in n + 1 .. Len(q) : q[j] \in ToClient
    BY <1>2, <1>4
  <2> HIDE DEF q
  <2>2. /\ rest \in Seq(ToClient)
        /\ Len(rest) = IF n + 1 <= Len(q) THEN Len(q) - (n + 1) + 1 ELSE 0
        /\ \A j \in 1 .. Len(q) - (n + 1) + 1 : rest[j] = q[n + 1 + j - 1]
    BY <2>1, SubSeqProperties
  <2> HIDE DEF rest
  <2>3. Len(rest) = Len(q) - n
    BY <1>4, <2>2
  <2>4. ASSUME NEW j \in 1 .. Len(q) - n
        PROVE  j + n \in 1 .. Len(q) /\ n < j + n /\ rest[j] = q[j + n]
    <3>1. n + 1 + j - 1 = j + n /\ j \in 1 .. Len(q) - (n + 1) + 1
      BY <1>4
    <3>2. rest[j] = q[n + 1 + j - 1]
      BY <2>2, <3>1
    <3> QED BY <1>4, <3>1, <3>2
  <2> QED BY <1>4, <2>2, <2>3, <2>4
<1>7. Mine(c, r) /\ r.toClient = rest
  BY <1>1, <1>6, MineNow DEF SessionInv
<1> HIDE DEF a, rest
<1>8. CASE LoopEnds(c, r, NoCommand)
  <2> HIDE DEF r
  <2> QED BY <1>1, <1>7, <1>8, EndsTells, CommandTypes
<1>9. CASE /\ Put(Where(c), r)
           /\ client' = [client EXCEPT ![c].pc = "input", ![c].answer = a]
  <2>1. client[c] \in ClientStates /\ client \in [Clients -> ClientStates]
    BY DEF SessionInv, TypeOK
  <2>2. d.pc = "input" /\ d.conn = Where(c) /\ d.command = client[c].command /\ d.answer = a
    BY <2>1 DEF ClientStates, Where
  <2>3. client' = [client EXCEPT ![c] = d]
    BY <1>9, <2>1
  <2> HIDE DEF d, r, k
  <2>4. a.to = d.command \/ (a.to = NoCommand /\ Gone(Where(c)))
    BY <1>2, <1>3, <1>5, <2>2 DEF Tells
  <2>5. Tells(r.toClient, d, Gone(Where(c)))
    <3>1. ASSUME NEW j \in 1 .. Len(q) - n, rest[j].type = "line"
          PROVE  rest[j].to = NoCommand /\ Gone(Where(c))
      <4>1. j + n \in DOMAIN q /\ n < j + n /\ q[j + n].type = "line" /\ rest[j] = q[j + n]
        BY <1>6, <3>1
      <4> HIDE DEF q
      <4> QED BY <1>2, <1>3, <4>1 DEF Tells
    <3> QED BY <1>6, <1>7, <3>1 DEF Tells
  <2>6. d.answer.to = d.command \/ (d.answer.to = NoCommand /\ Gone(Where(c)))
    BY <2>2, <2>4
  <2>7. d.pc \notin {"ready", "go", "send", "line"}
    BY <2>2
  <2>8. r.of = c /\ r.server = conn[Where(c)].server
    BY <1>7 DEF Mine
  <2> QED BY <1>1, <1>9, <2>2, <2>3, <2>5, <2>6, <2>7, <2>8, OwnTells
<1> QED BY <1>3, <1>8, <1>9 DEF rest, a

LEMMA LineLostTells ==
  ASSUME SessionInv, Told, NEW c \in Clients, ClientLineLost(c)
  PROVE  Told'
<1> DEFINE k == conn[Where(c)]
           r == [k EXCEPT !.toClient = <<>>]
           d == [client[c] EXCEPT !.pc = "input"]
<1>1. client[c].pc = "line" /\ client[c].pc \in InSession /\ UNCHANGED server
  BY DEF ClientLineLost, InSession
<1>2. client[c].answer.res = "none"
  BY <1>1, MineTells
<1>3. <<>> \in Seq(ToClient)
  OBVIOUS
<1>4. Mine(c, r) /\ r.toClient = <<>>
  BY <1>1, <1>3, MineNow DEF SessionInv
<1>5. \/ LoopEnds(c, r, NoCommand)
      \/ Put(Where(c), r) /\ client' = [client EXCEPT ![c].pc = "input"]
  BY DEF ClientLineLost
<1> HIDE DEF r, k
<1>6. CASE LoopEnds(c, r, NoCommand)
  BY <1>1, <1>4, <1>6, EndsTells, CommandTypes
<1>7. CASE Put(Where(c), r) /\ client' = [client EXCEPT ![c].pc = "input"]
  <2>1. client[c] \in ClientStates /\ client \in [Clients -> ClientStates]
    BY DEF SessionInv, TypeOK
  <2>2. d.pc = "input" /\ d.answer = client[c].answer
    BY <2>1 DEF ClientStates
  <2>3. client' = [client EXCEPT ![c] = d]
    BY <1>7, <2>1
  <2> HIDE DEF d
  <2>4. Tells(r.toClient, d, Gone(Where(c)))
    BY <1>4, TellsNothing
  <2>5. r.of = c /\ r.server = conn[Where(c)].server
    BY <1>4 DEF Mine
  <2>6. d.pc \notin {"ready", "go", "send", "line"} /\ d.answer.res = "none"
    BY <1>2, <2>2
  <2> QED BY <1>1, <1>7, <2>3, <2>4, <2>5, <2>6, OwnTells
<1> QED BY <1>5, <1>6, <1>7

LEMMA ConnectTells ==
  ASSUME SessionInv, Told, NEW c \in Clients, ClientConnect(c)
  PROVE  Told'
<1>1. PICK i \in Conns :
        /\ conn[i].of = "none" /\ Put(i, Connected(c))
        /\ client' = [client EXCEPT ![c].pc = "input", ![c].conn = i,
                                    ![c].answer = Line("none", NoCommand)]
  BY DEF ClientConnect
<1> DEFINE d == [client[c] EXCEPT !.pc = "input", !.conn = i,
                                  !.answer = Line("none", NoCommand)]
           r == Connected(c)
<1>2. Where(c) = 0 /\ UNCHANGED server
  BY DEF ClientConnect, SessionInv, Places, ClientPlace
<1>3. client[c] \in ClientStates /\ client \in [Clients -> ClientStates]
  BY DEF SessionInv, TypeOK
<1>4. d.pc = "input" /\ d.answer = Line("none", NoCommand)
  BY <1>3 DEF ClientStates
<1>5. client' = [client EXCEPT ![c] = d]
  BY <1>1, <1>3
<1>6. r.of = c /\ r.toClient = <<>>
  BY DEF Connected, NoConn
<1> HIDE DEF d, r
<1>7. conn'[i] = r /\ \A j \in Conns : j # i => conn'[j] = conn[j]
  BY <1>1 DEF Put, SessionInv, TypeOK, r
<1>8. conn[i].server = "none" /\ (Serving => server.conn # i)
  BY <1>1, PlacesAt DEF SessionInv, Places, ServerPlace
<1>9. ASSUME NEW j \in Conns, Gone(j) PROVE Gone(j)'
  <2>1. j # i
    BY <1>8, <1>9 DEF Gone, Serving
  <2> QED BY <1>2, <1>7, <1>9, <2>1 DEF Gone
<1>10. ASSUME NEW j \in Conns, conn'[j].client = "open"
       PROVE  \/ conn[j].of \in Clients \ {c} /\ conn'[j] = conn[j]
              \/ conn'[j].of = c /\ Tells(conn'[j].toClient, d, Gone(j))
  <2>1. CASE j = i
    BY <1>6, <1>7, <2>1, TellsNothing
  <2>2. CASE j # i
    <3>1. conn'[j] = conn[j] /\ conn[j].client = "open"
      BY <1>7, <1>10, <2>2
    <3>2. conn[j].of \in Clients /\ client[conn[j].of].conn = j
      BY <3>1, PlacesAt DEF SessionInv
    <3> QED BY <1>2, <3>1, <3>2 DEF Where, Conns
  <2> QED BY <2>1, <2>2
<1>11. d.answer.res = "none"
  BY <1>4 DEF Line
<1> QED BY <1>5, <1>9, <1>10, <1>11, ClientTells

LEMMA ConnectFailsTells ==
  ASSUME SessionInv, Told, NEW c \in Clients, ClientConnectFails(c)
  PROVE  Told'
<1> DEFINE pc == IF is_restore_connection[c] THEN "connect" ELSE "ended"
           d == [client[c] EXCEPT !.pc = pc]
<1>1. /\ Where(c) = 0 /\ UNCHANGED <<conn, server>>
      /\ client' = [client EXCEPT ![c].pc = pc]
  BY DEF ClientConnectFails, SessionInv, Places, ClientPlace
<1>2. client[c] \in ClientStates /\ client \in [Clients -> ClientStates]
  BY DEF SessionInv, TypeOK
<1>3. d.pc \in {"connect", "ended"} /\ client' = [client EXCEPT ![c] = d]
  BY <1>1, <1>2 DEF ClientStates
<1> HIDE DEF d
<1>4. \A j \in Conns : Gone(j) => Gone(j)'
  BY <1>1 DEF Gone
<1>5. ASSUME NEW j \in Conns, conn'[j].client = "open"
      PROVE  conn[j].of \in Clients \ {c} /\ conn'[j] = conn[j]
  <2>1. conn[j].of \in Clients /\ client[conn[j].of].conn = j
    BY <1>1, <1>5, PlacesAt DEF SessionInv
  <2> QED BY <1>1, <2>1 DEF Where, Conns
<1> QED BY <1>3, <1>4, <1>5, ClientTells

-----------------------------------------------------------------------------
(***************************************************************************)
(* Told, and the answers.                                                  *)
(***************************************************************************)
LEMMA ToldInitial == Init => Told
<1> SUFFICES ASSUME Init PROVE Told
  OBVIOUS
<1>1. \A i \in Conns : conn[i].client = "none"
  BY DEF Init, NoConn
<1>2. \A c \in Clients : client[c].pc = "connect"
  BY DEF Init
<1> QED BY <1>1, <1>2 DEF Told, Lined, AnswersMatch

LEMMA ToldStep == SessionInv /\ Told /\ [Next]_vars => Told'
<1> SUFFICES ASSUME SessionInv, Told, [Next]_vars
             PROVE  Told'
  OBVIOUS
<1>1. CASE ServerStep
  BY <1>1, AcceptTells, CommandTells, IdleTells, LeaveTells, AnswerTells, AnswerLostTells,
     SectorTells, SectorLostTells DEF ServerStep
<1>2. CASE Cut
  BY <1>2, CutTells
<1>3. NoCommand \in AllCommands /\ Commands \subseteq AllCommands
      /\ \A c \in Clients : restore_string[c] \in AllCommands
  BY CommandTypes DEF SessionInv, TypeOK
<1>4. ASSUME NEW c \in Clients, ClientStep(c)
      PROVE  Told'
  <2>1. CASE ClientRestores(c)
    BY <1>3, <2>1, CommandSendTells DEF ClientRestores
  <2> QED BY <1>4, <2>1, ConnectTells, ReadyTells, GoTells, HandshakeLostTells, SectorSentTells,
             LineTells, LineLostTells DEF ClientStep
<1>5. ASSUME NEW c \in Clients, ClientCommand(c)
      PROVE  Told'
  BY <1>3, <1>5, CommandSendTells DEF ClientCommand
<1>6. ASSUME NEW c \in Clients, ClientConnectFails(c)
      PROVE  Told'
  BY <1>6, ConnectFailsTells
<1>7. CASE UNCHANGED vars
  <2>1. UNCHANGED <<client, conn, server>>
    BY <1>7 DEF vars
  <2> QED BY <2>1 DEF Told, Lined, AnswersMatch, Gone, Where
<1> QED BY <1>1, <1>2, <1>4, <1>5, <1>6, <1>7 DEF Next

\* The line a client reads as the answer to its command was sent for that command,
\* or is the farewell of a server that leaves (sock_thread_handler.cpp:32-45,
\* 192-237).
THEOREM AnswersAreMatched == Spec => []AnswersMatch
<1>1. Told => AnswersMatch
  BY DEF Told
<1>2. Init => SessionInv /\ Told
  BY SessionInitial, ToldInitial
<1>3. (SessionInv /\ Told) /\ [Next]_vars => (SessionInv /\ Told)'
  BY SessionStep, ToldStep
<1> QED BY <1>1, <1>2, <1>3, PTL DEF Spec
=============================================================================
