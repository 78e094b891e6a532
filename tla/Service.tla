------------------------------ MODULE Service -------------------------------
(***************************************************************************)
(* The programs of lab1 around the transfer: one server that serves its    *)
(* clients one after the other, clients that give command after command on *)
(* one connection and may come back to continue an aborted upload, and the *)
(* static resume point that the uploads of all clients and all files       *)
(* share.                                                                  *)
(*                                                                         *)
(* ECHO stands for every command that is answered by one line.  DOWNLOAD,  *)
(* disk errors and the bytes of one transfer are FileTransfer's; here the  *)
(* third byte of the handshake and the resume point are one message, and   *)
(* so are a sector and its size.                                           *)
(*                                                                         *)
(* A step is what a process does between two reads, as in FileTransfer.    *)
(* Time: what is sent arrives within the 30 seconds of SO_RCVTIMEO or the  *)
(* connection is cut; users, and a server busy with others, take as long   *)
(* as they like.                                                           *)
(***************************************************************************)
EXTENDS Integers, Sequences

CONSTANTS
  Clients,      \* client processes
  Names,        \* file names under shared/
  NumSectors,   \* sectors of every file
  Posix,        \* TRUE: a send after a reset raises SIGPIPE; FALSE: Windows
  MaxConns,     \* bound: connections made
  MaxCommands,  \* bound: commands the users give
  MaxFaults     \* bound: cuts and failed connects

ASSUME ServiceAssumption ==
  /\ NumSectors \in Nat \ {0}
  /\ Posix \in BOOLEAN
  /\ MaxConns \in Nat /\ MaxCommands \in Nat /\ MaxFaults \in Nat
  /\ "none" \notin Clients /\ "none" \notin Names

VARIABLES
  client,                 \* each client: where it is, its connection and locals
  restore_string,         \* static restore_string of sock_client_callback
  is_restore_connection,  \* global of each client process
  conn,                   \* the connections, in the order they were made
  server,                 \* the server: where it is, its connection and locals
  session_next,           \* static session.next_part_to_send_recv
  session_of,             \* history: whose upload of what the session counts
  files,                  \* shared/ at the server
  given, faults           \* commands given, faults so far

vars == <<client, restore_string, is_restore_connection, conn, server,
          session_next, session_of, files, given, faults>>

Conns == 1 .. MaxConns
Sectors == 0 .. NumSectors - 1

-----------------------------------------------------------------------------
(***************************************************************************)
(* Commands and messages                                                   *)
(***************************************************************************)
Command(op, name) == [type |-> "command", op |-> op, name |-> name]

NoCommand == Command("none", "none")

Uploads == {Command(op, f) : op \in {"UPLOAD", "UPLOAD_CONTINUE"}, f \in Names}

Commands == Uploads \cup {Command(op, "none") : op \in {"ECHO", "DISCONNECT"}}

Continued(command) == Command("UPLOAD_CONTINUE", command.name)

\* Toward the server: commands, the second byte of the handshake, sectors.
Answer(ok) == [type |-> "answer", ok |-> ok]
Sector(c, f, i) == [type |-> "sector", of |-> [by |-> c, name |-> f], num |-> i]

\* Toward the client: the first byte; the third byte with the resume point;
\* an answer line, with the command it answers.
Ready(ok) == [type |-> "ready", ok |-> ok]
Go(n) == [type |-> "go", next |-> n]
Line(res, command) == [type |-> "line", res |-> res, to |-> command]

\* Mutant: compares the number of the sector instead of their amount.
IsLastEarly(i) == i + 2 >= NumSectors

\* is_last, computed by the sender from the sector it has just read
IsLast(i) == i + 1 >= NumSectors

\* Who wrote a sector: an upload, or nobody since the file was truncated.
Nobody == [by |-> "none", name |-> "none"]
Upload(c, f) == [by |-> c, name |-> f]

\* The sectors counted belong to more than one upload.
Mixed == [by |-> "none", name |-> "mixed"]

NoFile == [exists |-> FALSE, sector |-> [i \in Sectors |-> Nobody]]
TruncatedFile == [NoFile EXCEPT !.exists = TRUE]

-----------------------------------------------------------------------------
(***************************************************************************)
(* Connections.  "client" and "server" are the two ends.  A connection     *)
(* waits in the backlog ("queued") until it is accepted; the kernel takes  *)
(* what the client sends meanwhile.                                        *)
(***************************************************************************)
NoConn ==
  [of |-> "none", client |-> "none", server |-> "none", cut |-> FALSE,
   reset |-> {}, toServer |-> <<>>, toClient |-> <<>>]

Connected(c) == [NoConn EXCEPT !.of = c, !.client = "open", !.server = "queued"]

HungUp(k, end) == IF end = "client" THEN k.server = "closed" ELSE k.client = "closed"

Delivered(k, end, m) ==
  IF end = "client" THEN [k EXCEPT !.toServer = Append(@, m)]
  ELSE [k EXCEPT !.toClient = Append(@, m)]

\* A reset reaches an end.  On Windows it takes with it what was not read.
Reset(k, end) ==
  LET r == [k EXCEPT !.reset = @ \cup {end}]
  IN IF Posix THEN r
     ELSE IF end = "client" THEN [r EXCEPT !.toClient = <<>>]
     ELSE [r EXCEPT !.toServer = <<>>]

\* A send on a reset connection: an error, or SIGPIPE, which nothing in the
\* programs handles.
Refused(k) ==
  {[conn |-> k, res |-> r] : r \in IF Posix THEN {"error", "killed"} ELSE {"error"}}

\* What a send can do.  The first bytes to an end that has closed vanish and
\* provoke a reset, which comes back sooner or later; on a cut connection
\* they vanish until the kernel gives up.
Sent(k, end, m) ==
  IF k.cut THEN {[conn |-> k, res |-> r] : r \in {"sent", "error"}}
  ELSE IF end \in k.reset THEN Refused(k)
  ELSE IF HungUp(k, end) THEN {[conn |-> r, res |-> "sent"] : r \in {k, Reset(k, end)}}
  ELSE {[conn |-> Delivered(k, end, m), res |-> "sent"]}

\* Two sends in a row: the reset that the first provokes may meet the second.
SentInTwo(k, end, m) ==
  Sent(k, end, m) \cup
    IF HungUp(k, end) /\ ~k.cut THEN Refused(Reset(k, end)) ELSE {}

\* shutdown and closesocket.  Bytes that were not read make it a reset.
Closed(k, end) ==
  LET mine == IF end = "client" THEN k.toClient ELSE k.toServer
      other == IF end = "client" THEN "server" ELSE "client"
      c == IF end = "client" THEN [k EXCEPT !.client = "closed", !.toClient = <<>>]
           ELSE [k EXCEPT !.server = "closed", !.toServer = <<>>]
  IN IF HungUp(k, end) THEN [NoConn EXCEPT !.of = k.of, !.client = "closed",
                                           !.server = "closed"]
     ELSE IF mine # <<>> /\ ~k.cut THEN Reset(c, other) ELSE c

Fault == faults < MaxFaults /\ faults' = faults + 1

-----------------------------------------------------------------------------
(***************************************************************************)
(* The server: main, TcpServ_WaitConnection, sock_thread_callback.         *)
(***************************************************************************)
Serving == server.pc \in {"line", "answer", "data", "leave"}

Put(i, k) == conn' = [conn EXCEPT ![i] = k]

\* SIGPIPE: the process ends and the kernel resets what it leaves behind.
ServerDies(i, k) ==
  /\ server' = [server EXCEPT !.pc = "dead"]
  /\ conn' = [j \in Conns |->
                IF j = i THEN Closed(k, "server")
                ELSE IF conn[j].server = "queued" THEN Closed(conn[j], "server")
                ELSE conn[j]]

\* The server sends m on its connection, i, and goes on as s.  The result of
\* the send only matters to the handshake; elsewhere it is logged.
ServerSends(i, k, m, s) ==
  \E o \in Sent(k, "server", m) :
    \/ o.res = "killed" /\ ServerDies(i, o.conn)
    \/ o.res # "killed" /\ Put(i, o.conn) /\ server' = s

\* execute_command sends the result as a line.
ServerReplies(i, k, s) == ServerSends(i, k, Line(s.res, s.command), s)

\* What the commands that only answer return.
LineResult(command) ==
  CASE command.op = "ECHO" -> "echo"
    [] command.op = "DISCONNECT" -> "Bye"
    [] OTHER -> "Unknown command"

\* The oldest connection of the backlog; one that its client has given up
\* is accepted like any other.
ServerAccept ==
  /\ server.pc = "accept"
  /\ \E i \in Conns :
       /\ conn[i].server = "queued"
       /\ \A j \in Conns : conn[j].server = "queued" => i <= j
       /\ Put(i, [conn[i] EXCEPT !.server = "open"])
       /\ server' = [server EXCEPT !.pc = "line", !.conn = i]
  /\ UNCHANGED <<client, restore_string, is_restore_connection, session_next,
                 session_of, files, given, faults>>

\* Mutant: every upload keeps the count of the one before.
ResumePointKept(command) == session_next

\* Mutant: a continued upload asks for its last sector again.
ResumePointBack(command) ==
  IF command.op = "UPLOAD_CONTINUE" THEN session_next - 1 ELSE 0

\* The part an upload starts from.
ResumePoint(command) == IF command.op = "UPLOAD_CONTINUE" THEN session_next ELSE 0

\* Whose sectors the count then counts.
Counted(command, up) ==
  IF command.op = "UPLOAD" \/ session_of = up THEN up ELSE Mixed

\* fopen with "wb" or, for a continued upload, "r+b"
Opened(command) ==
  IF command.op = "UPLOAD" THEN [files EXCEPT ![command.name] = TruncatedFile]
  ELSE files

\* The handshake failed: whatever the file held, it is removed.
Removed(fs, command) == [fs EXCEPT ![command.name] = NoFile]

\* execute_upload up to the first byte of the handshake.
StartUpload(i, k, command) ==
  LET fs == Opened(command)
      s == [server EXCEPT !.pc = "answer", !.command = command, !.res = "none",
                          !.my_answer = fs[command.name].exists]
  IN /\ session_next' = ResumePoint(command)
     /\ session_of' = Counted(command, Upload(k.of, command.name))
     /\ \E o \in Sent(k, "server", Ready(s.my_answer)) :
          \/ /\ o.res = "sent"
             /\ Put(i, o.conn) /\ server' = s /\ files' = fs
          \/ /\ o.res = "error"
             /\ ServerReplies(i, o.conn, [s EXCEPT !.pc = "line", !.res = "Bad handshake"])
             /\ files' = Removed(fs, command)
          \/ /\ o.res = "killed"
             /\ ServerDies(i, o.conn) /\ files' = fs

\* Socket_RecvEndLine, parse_command and execute_command for a line received.
ServerCommand ==
  /\ server.pc = "line"
  /\ LET i == server.conn
         k == [conn[i] EXCEPT !.toServer = Tail(@)]
         command == Head(conn[i].toServer)
     IN /\ conn[i].toServer # <<>>
        /\ command.type = "command"
        /\ \/ command \in Uploads /\ StartUpload(i, k, command)
           \/ /\ command \notin Uploads
              /\ ServerReplies(i, k,
                   [server EXCEPT !.pc = IF command.op = "DISCONNECT" THEN "leave" ELSE "line",
                                  !.command = command, !.res = LineResult(command)])
              /\ UNCHANGED <<session_next, session_of, files>>
  /\ UNCHANGED <<client, restore_string, is_restore_connection, given, faults>>

\* A line to read for a client that waits for one.
HasLine(q) == \E n \in DOMAIN q : q[n].type = "line"

\* The client of connection i will send nothing before it has received
\* something, or its user has said something.
ClientSilent(i) ==
  LET k == conn[i]
      c == client[k.of]
  IN \/ k.client = "closed" \/ k.cut \/ "server" \in k.reset
     \/ c.pc = "input" /\ restore_string[k.of] = NoCommand
     \/ c.pc \in {"ready", "go"} /\ k.toClient = <<>>
     \/ c.pc = "line" /\ ~HasLine(k.toClient)

\* Mutant: the receive timeout is skipped, as TcpServ_WaitConnection asks.
ServerRecvFailsSkipped(i) ==
  /\ conn[i].toServer = <<>>
  /\ conn[i].client = "closed" \/ conn[i].cut \/ "server" \in conn[i].reset

\* The server's recv gives up: end of stream, error or 30 silent seconds.
ServerRecvFails(i) == conn[i].toServer = <<>> /\ ClientSilent(i)

\* Nothing was read: the empty line is executed like any other, and then the
\* loop ends.
ServerIdle ==
  /\ server.pc = "line"
  /\ ServerRecvFails(server.conn)
  /\ ServerReplies(server.conn, conn[server.conn],
       [server EXCEPT !.pc = "leave", !.command = NoCommand, !.res = "Unknown command"])
  /\ UNCHANGED <<client, restore_string, is_restore_connection, session_next,
                 session_of, files, given, faults>>

\* shutdown, closesocket, and back to accept.
ServerLeave ==
  /\ server.pc = "leave"
  /\ Put(server.conn, Closed(conn[server.conn], "server"))
  /\ server' = [server EXCEPT !.pc = "accept", !.conn = 0, !.command = NoCommand,
                              !.res = "none"]
  /\ UNCHANGED <<client, restore_string, is_restore_connection, session_next,
                 session_of, files, given, faults>>

\* The handshake failed.
ServerRefuses(i, k) ==
  /\ ServerReplies(i, k, [server EXCEPT !.pc = "line", !.res = "Bad handshake"])
  /\ files' = Removed(files, server.command)

\* The second byte of the handshake, then the third and the resume point.
ServerAnswer ==
  /\ server.pc = "answer"
  /\ LET i == server.conn
         k == [conn[i] EXCEPT !.toServer = Tail(@)]
         m == Head(conn[i].toServer)
         agreed == server.my_answer /\ m.ok
     IN /\ conn[i].toServer # <<>>
        /\ m.type = "answer"
        /\ \E o \in Sent(k, "server", Go(session_next)) :
             \/ /\ o.res = "sent" /\ agreed
                /\ Put(i, o.conn) /\ server' = [server EXCEPT !.pc = "data"]
                /\ UNCHANGED files
             \/ /\ o.res = "error" \/ (o.res = "sent" /\ ~agreed)
                /\ ServerRefuses(i, o.conn)
             \/ /\ o.res = "error" /\ agreed /\ server.command.op = "UPLOAD_CONTINUE"
                /\ ServerReplies(i, o.conn,
                     [server EXCEPT !.pc = "line", !.res = "Bad handshake 2"])
                /\ UNCHANGED files
             \/ /\ o.res = "killed"
                /\ ServerDies(i, o.conn)
                /\ UNCHANGED files
  /\ UNCHANGED <<client, restore_string, is_restore_connection, session_next,
                 session_of, given, faults>>

ServerAnswerLost ==
  /\ server.pc = "answer"
  /\ ServerRecvFails(server.conn)
  /\ ServerRefuses(server.conn, conn[server.conn])
  /\ UNCHANGED <<client, restore_string, is_restore_connection, session_next,
                 session_of, given, faults>>

\* A sector, written where it says, into the file of the command.
ServerSector ==
  /\ server.pc = "data"
  /\ LET i == server.conn
         k == [conn[i] EXCEPT !.toServer = Tail(@)]
         m == Head(conn[i].toServer)
     IN /\ conn[i].toServer # <<>>
        /\ m.type = "sector"
        /\ files' = IF m.num \in Sectors
                    THEN [files EXCEPT ![server.command.name].sector[m.num] = m.of]
                    ELSE files
        /\ session_next' = session_next + 1
        /\ \/ /\ IsLast(m.num)
              /\ ServerReplies(i, k, [server EXCEPT !.pc = "line", !.res = "Completed"])
           \/ /\ ~IsLast(m.num)
              /\ Put(i, k)
              /\ UNCHANGED server
  /\ UNCHANGED <<client, restore_string, is_restore_connection, session_of,
                 given, faults>>

ServerSectorLost ==
  /\ server.pc = "data"
  /\ ServerRecvFails(server.conn)
  /\ ServerReplies(server.conn, conn[server.conn],
       [server EXCEPT !.pc = "line", !.res = "Error receiving size"])
  /\ UNCHANGED <<client, restore_string, is_restore_connection, session_next,
                 session_of, files, given, faults>>

-----------------------------------------------------------------------------
(***************************************************************************)
(* A client: main_client, sock_client_callback.                            *)
(***************************************************************************)
Where(c) == client[c].conn

\* sock_client_callback returns, TcpClient_Stop closes the connection, and
\* main_client connects again or ends.
SessionEnds(c, k, again) ==
  /\ Put(Where(c), Closed(k, "client"))
  /\ client' = [client EXCEPT ![c].pc = IF again THEN "connect" ELSE "ended",
                              ![c].conn = 0]

\* SIGPIPE in a client.
ClientDies(c, k) ==
  /\ Put(Where(c), Closed(k, "client"))
  /\ client' = [client EXCEPT ![c].pc = "killed", ![c].conn = 0]
  /\ UNCHANGED <<restore_string, is_restore_connection>>

\* The loop ends with the answer read, lost, or not awaited (restore is the
\* command that the next connection starts with).
LoopEnds(c, k, restore) ==
  /\ restore_string' = [restore_string EXCEPT ![c] = restore]
  /\ is_restore_connection' = [is_restore_connection EXCEPT ![c] = restore # NoCommand]
  /\ SessionEnds(c, k, restore # NoCommand)

\* Mutant: the early return gives up the reconnection.
EarlyReturnClears(c, k) ==
  /\ is_restore_connection' = [is_restore_connection EXCEPT ![c] = FALSE]
  /\ SessionEnds(c, k, FALSE)
  /\ UNCHANGED restore_string

\* The return at :226 comes before both variables are assigned.
EarlyReturn(c, k) ==
  /\ SessionEnds(c, k, is_restore_connection[c])
  /\ UNCHANGED <<restore_string, is_restore_connection>>

ClientConnect(c) ==
  /\ client[c].pc = "connect"
  /\ server.pc # "dead"
  /\ \E i \in Conns :
       /\ conn[i].of = "none"
       /\ \A j \in 1 .. i - 1 : conn[j].of # "none"
       /\ Put(i, Connected(c))
       /\ client' = [client EXCEPT ![c].pc = "input", ![c].conn = i,
                                   ![c].answer = Line("none", NoCommand)]
  /\ UNCHANGED <<restore_string, is_restore_connection, server, session_next,
                 session_of, files, given, faults>>

\* No server, or no way to it: a client with something to restore tries again
\* at once, the others end.
ClientConnectFails(c) ==
  /\ client[c].pc = "connect"
  /\ \/ server.pc = "dead" /\ UNCHANGED faults
     \/ Fault
  /\ client' = [client EXCEPT ![c].pc =
                  IF is_restore_connection[c] THEN "connect" ELSE "ended"]
  /\ UNCHANGED <<restore_string, is_restore_connection, conn, server,
                 session_next, session_of, files, given>>

\* A command is sent; restore_string is cleared only once that has succeeded.
ClientSends(c, command) ==
  /\ \E o \in Sent(conn[Where(c)], "client", command) :
       \/ /\ o.res = "sent"
          /\ Put(Where(c), o.conn)
          /\ restore_string' = [restore_string EXCEPT ![c] = NoCommand]
          /\ client' = [client EXCEPT ![c].pc = IF command \in Uploads THEN "ready" ELSE "line",
                                      ![c].command = command, ![c].next = 0,
                                      ![c].answer = Line("none", NoCommand)]
          /\ UNCHANGED is_restore_connection
       \/ o.res = "error" /\ EarlyReturn(c, o.conn)
       \/ o.res = "killed" /\ ClientDies(c, o.conn)
  /\ UNCHANGED <<server, session_next, session_of, files, faults>>

ClientCommand(c) ==
  /\ client[c].pc = "input"
  /\ restore_string[c] = NoCommand
  /\ given < MaxCommands
  /\ given' = given + 1
  /\ \E command \in Commands : ClientSends(c, command)

ClientRestores(c) ==
  /\ client[c].pc = "input"
  /\ restore_string[c] # NoCommand
  /\ ClientSends(c, restore_string[c])
  /\ UNCHANGED given

\* The server sends nothing more before it has received something, and it
\* does not serve a connection that waits in the backlog.
ServerSilent(i) ==
  \/ conn[i].cut \/ "client" \in conn[i].reset
  \/ conn[i].server = "queued"
  \/ conn[i].toServer = <<>> /\ server.pc \in {"line", "answer", "data"} /\ server.conn = i

\* Mutant: a recv that returns 0 is tried again.
ClientAtEndIgnored(i) == FALSE

\* recv returns 0, at the end of the stream.
ClientAtEnd(i) == conn[i].server = "closed" /\ ~conn[i].cut

\* recv returns an error: reset, cut, or 30 silent seconds.
ClientRecvError(i) ==
  \/ "client" \in conn[i].reset
  \/ ServerSilent(i) /\ ~ClientAtEnd(i)

\* Mutant: after a handshake that failed no answer is awaited.
AwaitNoLine(c, k) ==
  /\ Put(Where(c), k)
  /\ client' = [client EXCEPT ![c].pc = "input"]
  /\ UNCHANGED <<restore_string, is_restore_connection>>

\* The client goes on to wait for the answer line.
AwaitLine(c, k) ==
  /\ Put(Where(c), k)
  /\ client' = [client EXCEPT ![c].pc = "line"]
  /\ UNCHANGED <<restore_string, is_restore_connection>>

\* A byte of an answer line is taken for one of the handshake, and the rest
\* of the line stays.
Taken(k) ==
  IF Head(k.toClient).type = "line"
  THEN [k EXCEPT !.toClient[1].res = "garbled"] ELSE [k EXCEPT !.toClient = Tail(@)]

\* The first byte is read and the second sent.  A letter read as a bool is
\* either answer; the client's own file may fail to open.
ClientReady(c) ==
  /\ client[c].pc = "ready"
  /\ conn[Where(c)].toClient # <<>>
  /\ LET m == Head(conn[Where(c)].toClient)
     IN \E other \in IF m.type = "ready" THEN {m.ok} ELSE BOOLEAN, opened \in BOOLEAN :
          \E o \in Sent(Taken(conn[Where(c)]), "client", Answer(opened /\ other)) :
            \/ /\ o.res = "sent"
               /\ Put(Where(c), o.conn)
               /\ client' = [client EXCEPT ![c].pc = "go", ![c].agreed = opened /\ other]
               /\ UNCHANGED <<restore_string, is_restore_connection>>
            \/ o.res = "error" /\ AwaitLine(c, o.conn)
            \/ o.res = "killed" /\ ClientDies(c, o.conn)
  /\ UNCHANGED <<server, session_next, session_of, files, given, faults>>

\* Mutant: one sector too far.
AskedNext(m) == IF m.type = "go" THEN m.next + 1 ELSE NumSectors

\* The resume point in m; eight letters are a number beyond the last sector.
Asked(m) == IF m.type = "go" THEN m.next ELSE NumSectors

\* The third byte, whose value is not looked at, and the resume point.
ClientGo(c) ==
  /\ client[c].pc = "go"
  /\ conn[Where(c)].toClient # <<>>
  /\ LET k == conn[Where(c)]
         first == IF client[c].command.op = "UPLOAD" THEN 0 ELSE Asked(Head(k.toClient))
     IN \/ /\ client[c].agreed
           /\ Put(Where(c), Taken(k))
           /\ client' = [client EXCEPT ![c].pc = "send", ![c].next = first]
           /\ UNCHANGED <<restore_string, is_restore_connection>>
        \/ ~client[c].agreed /\ AwaitLine(c, Taken(k))
  /\ UNCHANGED <<server, session_next, session_of, files, given, faults>>

\* A byte of the handshake does not come: "Bad handshake", which is no abort.
ClientHandshakeLost(c) ==
  /\ client[c].pc \in {"ready", "go"}
  /\ conn[Where(c)].toClient = <<>>
  /\ ClientRecvError(Where(c)) \/ ClientAtEnd(Where(c))
  /\ AwaitLine(c, conn[Where(c)])
  /\ UNCHANGED <<server, session_next, session_of, files, given, faults>>

\* A sector is sent.  If that fails the upload is aborted, and the user may
\* agree to reconnect, unless it is a continued one.
ClientSector(c) ==
  /\ client[c].pc = "send"
  /\ LET k == conn[Where(c)]
         command == client[c].command
         i == client[c].next
     IN \E o \in SentInTwo(k, "client", Sector(c, command.name, i)) :
          \/ /\ o.res = "sent" /\ ~IsLast(i)
             /\ Put(Where(c), o.conn)
             /\ client' = [client EXCEPT ![c].next = i + 1]
             /\ UNCHANGED <<restore_string, is_restore_connection>>
          \/ /\ o.res = "sent" /\ IsLast(i)
             /\ AwaitLine(c, o.conn)
          \/ /\ o.res = "error" /\ command.op = "UPLOAD"
             /\ LoopEnds(c, o.conn, Continued(command))
          \/ /\ o.res = "error"
             /\ AwaitLine(c, o.conn)
          \/ o.res = "killed" /\ ClientDies(c, o.conn)
  /\ UNCHANGED <<server, session_next, session_of, files, given, faults>>

\* Socket_RecvEndLine: everything up to the first end of a line.
ClientLine(c) ==
  /\ client[c].pc = "line"
  /\ \E n \in DOMAIN conn[Where(c)].toClient :
       LET k == conn[Where(c)]
           q == k.toClient
           rest == [k EXCEPT !.toClient = SubSeq(q, n + 1, Len(q))]
       IN /\ q[n].type = "line"
          /\ \A j \in 1 .. n - 1 : q[j].type # "line"
          /\ \/ /\ client[c].command.op = "DISCONNECT"
                /\ LoopEnds(c, rest, NoCommand)
             \/ /\ client[c].command.op # "DISCONNECT"
                /\ Put(Where(c), rest)
                /\ client' = [client EXCEPT ![c].pc = "input",
                     ![c].answer = IF n = 1 THEN q[n] ELSE [q[n] EXCEPT !.res = "garbled"]]
                /\ UNCHANGED <<restore_string, is_restore_connection>>
  /\ UNCHANGED <<server, session_next, session_of, files, given, faults>>

\* The line does not come.  An error ends the loop; the end of the stream
\* does not, and the user is asked for the next command.
ClientLineLost(c) ==
  /\ client[c].pc = "line"
  /\ ~HasLine(conn[Where(c)].toClient)
  /\ LET k == [conn[Where(c)] EXCEPT !.toClient = <<>>]
     IN \/ /\ ClientRecvError(Where(c)) \/ client[c].command.op = "DISCONNECT"
           /\ ClientRecvError(Where(c)) \/ ClientAtEnd(Where(c))
           /\ LoopEnds(c, k, NoCommand)
        \/ /\ ClientAtEnd(Where(c))
           /\ client[c].command.op # "DISCONNECT"
           /\ Put(Where(c), k)
           /\ client' = [client EXCEPT ![c].pc = "input"]
           /\ UNCHANGED <<restore_string, is_restore_connection>>
  /\ UNCHANGED <<server, session_next, session_of, files, given, faults>>

-----------------------------------------------------------------------------
Prefixes(q) == {SubSeq(q, 1, n) : n \in 0 .. Len(q)}

\* A command of which only a part arrives: another name, or no command.
Torn(q) ==
  {q} \cup
    {[q EXCEPT ![Len(q)] = m] :
       m \in IF q # <<>> /\ q[Len(q)] \in Uploads
             THEN {NoCommand} \cup {Command(q[Len(q)].op, f) : f \in Names} ELSE {}}

\* The network gives up on a connection: a prefix of each direction arrives.
Cut ==
  /\ Fault
  /\ \E i \in Conns :
       /\ conn[i].of # "none" /\ ~conn[i].cut
       /\ ~(conn[i].client = "closed" /\ conn[i].server = "closed")
       /\ \E up \in Prefixes(conn[i].toServer), down \in Prefixes(conn[i].toClient) :
            \E torn \in Torn(up) :
              Put(i, [conn[i] EXCEPT !.cut = TRUE, !.toServer = torn, !.toClient = down])
  /\ UNCHANGED <<client, restore_string, is_restore_connection, server,
                 session_next, session_of, files, given>>

-----------------------------------------------------------------------------
ServerStep ==
  \/ ServerAccept \/ ServerCommand \/ ServerIdle \/ ServerLeave \/ ServerAnswer
  \/ ServerAnswerLost \/ ServerSector \/ ServerSectorLost

\* What a client does without its user.
ClientStep(c) ==
  \/ ClientConnect(c) \/ ClientRestores(c) \/ ClientReady(c) \/ ClientGo(c)
  \/ ClientHandshakeLost(c) \/ ClientSector(c) \/ ClientLine(c) \/ ClientLineLost(c)

Init ==
  /\ client = [c \in Clients |->
                 [pc |-> "connect", conn |-> 0, command |-> NoCommand, agreed |-> FALSE,
                  next |-> 0, answer |-> Line("none", NoCommand)]]
  /\ restore_string = [c \in Clients |-> NoCommand]
  /\ is_restore_connection = [c \in Clients |-> FALSE]
  /\ conn = [i \in Conns |-> NoConn]
  /\ server = [pc |-> "accept", conn |-> 0, command |-> NoCommand,
               my_answer |-> FALSE, res |-> "none"]
  /\ session_next = 0
  /\ session_of = Nobody
  /\ files = [f \in Names |-> NoFile]
  /\ given = 0 /\ faults = 0

Next ==
  \/ ServerStep
  \/ \E c \in Clients : ClientStep(c) \/ ClientCommand(c) \/ ClientConnectFails(c)
  \/ Cut

\* Every process keeps running and its timers expire; nothing is assumed of
\* the users and of the faults.
Fairness ==
  /\ WF_vars(ServerStep)
  /\ \A c \in Clients : WF_vars(ClientStep(c))

Spec == Init /\ [][Next]_vars

FairSpec == Spec /\ Fairness

-----------------------------------------------------------------------------
(***************************************************************************)
(* Properties                                                              *)
(***************************************************************************)
ClientPCs == {"connect", "input", "ready", "go", "send", "line", "ended", "killed"}
ServerPCs == {"accept", "line", "answer", "data", "leave", "dead"}
LineResults ==
  {"none", "echo", "Bye", "Unknown command", "Completed", "Bad handshake",
   "Bad handshake 2", "Error receiving size", "garbled"}
AllCommands == Commands \cup {NoCommand}
AllUploads == [by : Clients, name : Names]
Lines == [type : {"line"}, res : LineResults, to : AllCommands]
ToServer ==
  AllCommands \cup [type : {"answer"}, ok : BOOLEAN]
    \cup [type : {"sector"}, of : AllUploads, num : Nat]
ToClient ==
  Lines \cup [type : {"ready"}, ok : BOOLEAN] \cup [type : {"go"}, next : Nat]

ClientStates ==
  [pc : ClientPCs, conn : {0} \cup Conns, command : AllCommands, agreed : BOOLEAN,
   next : Nat, answer : Lines]
Connections ==
  [of : Clients \cup {"none"}, client : {"none", "open", "closed"},
   server : {"none", "queued", "open", "closed"}, cut : BOOLEAN,
   reset : SUBSET {"client", "server"},
   toServer : Seq(ToServer), toClient : Seq(ToClient)]
ServerStates ==
  [pc : ServerPCs, conn : {0} \cup Conns, command : AllCommands, my_answer : BOOLEAN,
   res : LineResults]
FileStates == [exists : BOOLEAN, sector : [Sectors -> AllUploads \cup {Nobody}]]

TypeOK ==
  /\ client \in [Clients -> ClientStates]
  /\ restore_string \in [Clients -> AllCommands]
  /\ is_restore_connection \in [Clients -> BOOLEAN]
  /\ conn \in [Conns -> Connections]
  /\ server \in ServerStates
  /\ session_next \in Nat
  /\ session_of \in AllUploads \cup {Nobody, Mixed}
  /\ files \in [Names -> FileStates]
  /\ given \in 0 .. MaxCommands
  /\ faults \in 0 .. MaxFaults

\* A command to restore is never lost: from the abort on, through early
\* returns and failed connects, the flag that main_client loops on stays set
\* until the command has been sent, so that the client cannot end with it
\* pending (sock_thread_handler.cpp:204, 222-228, 244; main_client.cpp:29-42).
\* The flag and the string are assigned at different places, and one return
\* comes before both.
RestoreKept ==
  \A c \in Clients :
    restore_string[c] # NoCommand
      => is_restore_connection[c] /\ client[c].pc \in {"connect", "input", "killed"}

\* What the server finds in the unframed stream is what it is about to read:
\* a command line, the second byte, or the very sector of the very file of
\* the command that it counts; also after refusals, timeouts, commands
\* executed from the backlog and several commands on one connection
\* (sock_thread_handler.cpp:31-45, file_manage.cpp:53-92, handshake.cpp:13-20).
InStep ==
  LET q == conn[server.conn].toServer
      m == Head(q)
  IN Serving /\ q # <<>> =>
       /\ server.pc = "line" => m.type = "command"
       /\ server.pc = "answer" => m.type = "answer"
       /\ server.pc = "data" =>
            /\ m.type = "sector"
            /\ m.of = Upload(conn[server.conn].of, server.command.name)
            /\ m.num = session_next

\* The server has left the client of connection i, or is about to.
Gone(i) == conn[i].server = "closed" \/ (server.conn = i /\ server.pc = "leave")

\* The line a client reads as the answer to its command was sent for that
\* command, or it is the server's farewell (the "Unknown command" for the
\* empty line of an idle connection), and then the server has left
\* (sock_thread_handler.cpp:32-45, 192-237).
AnswersMatch ==
  \A c \in Clients :
    LET answer == client[c].answer
    IN client[c].pc = "input" /\ answer.res # "none" =>
         answer.to = client[c].command \/ (answer.to = NoCommand /\ Gone(Where(c)))

\* The one static resume point counts sectors that are there, whichever
\* clients, files and stale commands came by since: as long as nobody has
\* continued another upload than the one it counts, all the sectors before
\* it are in that upload's file and are its own (file_manage.cpp:22-28,
\* 35, 231).
ResumeCovered ==
  session_of \notin {Nobody, Mixed} /\ files[session_of.name].exists =>
    \A i \in Sectors : i < session_next => files[session_of.name].sector[i] = session_of

\* An upload that the server completes, in however many attempts and
\* connections, leaves exactly that client's file of that name, under the
\* same condition (file_manage.cpp:10-99, sock_thread_handler.cpp:164-187).
CompletedIsOwn ==
  server.pc = "line" /\ server.res = "Completed" /\ session_of # Mixed =>
    /\ session_of = Upload(conn[server.conn].of, server.command.name)
    /\ files[session_of.name].exists
    /\ \A i \in Sectors : files[session_of.name].sector[i] = session_of

\* No client keeps the others out by doing nothing: whoever waits in the
\* backlog is accepted, or the server dies (TcpServ.cpp:36-65,
\* sock_thread_handler.cpp:31-45, custom_sock.cpp:214).
QueuedServed ==
  \A i \in Conns : conn[i].server = "queued" ~> conn[i].server # "queued"

\* A client gets back to its user, whatever the server is busy with and
\* whatever became of it (sock_thread_handler.cpp:205-242, custom_sock.cpp:87).
ClientReturns ==
  \A c \in Clients :
    client[c].pc \in {"ready", "go", "send", "line"}
      ~> client[c].pc \in {"input", "connect", "ended", "killed"}

\* The comment at sock_thread_handler.cpp:30, "Receive until the peer shuts
\* down the connection": the server leaves a living connection only after
\* DISCONNECT or the peer's own shutdown.
UntilPeerShutsDown ==
  \A c \in Clients :
    client[c].pc = "input" /\ conn[Where(c)].server = "closed" /\ server.pc # "dead"
      => conn[Where(c)].cut \/ client[c].command.op = "DISCONNECT"

-----------------------------------------------------------------------------
(***************************************************************************)
(* The invariant from which ServiceProofs proves TypeOK, InStep,           *)
(* ResumeCovered and CompletedIsOwn: who is on which connection, and what  *)
(* can be under way on it.                                                 *)
(***************************************************************************)
\* A connection belongs to the client that has its open end, and its open end
\* at the server is the one that is served.  A reset comes from an end that
\* has closed.
Place(i, k) ==
  /\ k.of = "none" => k.client = "none" /\ k.server = "none"
  /\ k.client = "open" => k.of \in Clients /\ client[k.of].conn = i
  /\ k.server = "open" => Serving /\ server.conn = i
  /\ "client" \in k.reset => k.server = "closed"
  /\ "server" \in k.reset => k.client = "closed"

ClientPlace(c) ==
  /\ client[c].pc \in {"input", "ready", "go", "send", "line"} =>
       /\ Where(c) \in Conns
       /\ conn[Where(c)].of = c
       /\ conn[Where(c)].client = "open"
  /\ client[c].pc = "connect" => Where(c) = 0
  /\ client[c].pc \in {"ready", "go", "send"} => client[c].command \in Uploads

ServerPlace ==
  /\ Serving => server.conn \in Conns /\ conn[server.conn].server = "open"
  /\ server.pc \in {"answer", "data"} => server.command \in Uploads
  /\ server.pc = "accept" => server.res # "Completed"

Places ==
  /\ \A i \in Conns : Place(i, conn[i])
  /\ \A c \in Clients : ClientPlace(c)
  /\ ServerPlace

\* Where the server s is on a connection; one in the backlog waits for its
\* first line to be read.
Stage(k, s) ==
  IF k.server = "queued" THEN "line" ELSE IF k.server = "open" THEN s.pc ELSE "none"

\* What the server has still to read, with n the resume point.
Script(k, s, n) ==
  LET q == k.toServer IN
  /\ Stage(k, s) = "line" => q = <<>> \/ \E m \in AllCommands : q = <<m>>
  /\ Stage(k, s) = "answer" => q = <<>> \/ \E ok \in BOOLEAN : q = <<Answer(ok)>>
  /\ Stage(k, s) = "data" =>
       \A j \in 1 .. Len(q) :
         /\ q[j] = Sector(k.of, s.command.name, n + j - 1)
         /\ IsLast(n + j - 1) => j = Len(q)

\* Where the client can be then, on a connection that carries what is sent:
\* before the server has read its line or after it has answered, ...
LineExchange(k, c) ==
  \/ c.pc = "input" /\ k.toServer = <<>> /\ k.toClient = <<>>
  \/ c.pc \in {"ready", "line"} /\ k.toServer = <<c.command>> /\ k.toClient = <<>>
  \/ /\ c.pc = "line" /\ k.toServer = <<>>
     /\ \E l \in Lines :
          k.toClient = <<l>> \/ \E ok \in BOOLEAN : k.toClient = <<Ready(ok), l>>
  \/ /\ c.pc = "go" /\ ~c.agreed /\ k.toServer = <<>>
     /\ \E l \in Lines : k.toClient = <<Go(k.toClient[1].next), l>>

\* ... while it waits for the second byte of the handshake, ...
AnswerExchange(k, c, s) ==
  \/ /\ c.pc \in {"ready", "line"} /\ k.toServer = <<>>
     /\ k.toClient = <<Ready(s.my_answer)>>
  \/ /\ c.pc = "go" /\ k.toServer = <<Answer(c.agreed)>> /\ k.toClient = <<>>
     /\ c.agreed => s.my_answer

\* ... and while it receives.
DataExchange(k, c, n) ==
  \/ /\ c.pc = "go" /\ c.agreed /\ k.toServer = <<>> /\ k.toClient = <<Go(n)>>
     /\ c.command.op = "UPLOAD" => n = 0
  \/ /\ c.pc = "send" /\ k.toClient = <<>>
     /\ c.next = n + Len(k.toServer)
     /\ \A j \in 1 .. Len(k.toServer) : ~IsLast(n + j - 1)
  \/ /\ c.pc = "line" /\ k.toClient = <<>> /\ k.toServer # <<>>
     /\ IsLast(n + Len(k.toServer) - 1)

Exchange(k, c, s, n) ==
  /\ Stage(k, s) = "line" => LineExchange(k, c)
  /\ Stage(k, s) = "answer" => c.command = s.command /\ AnswerExchange(k, c, s)
  /\ Stage(k, s) = "data" => c.command = s.command /\ DataExchange(k, c, n)

Live(k) == k.client = "open" /\ ~k.cut

Streams ==
  \A i \in Conns :
    /\ Script(conn[i], server, session_next)
    /\ Live(conn[i]) => Exchange(conn[i], client[conn[i].of], server, session_next)

\* Which upload the resume point counts, and what the file then is.
Session ==
  LET up == Upload(conn[server.conn].of, server.command.name)
      InUpload == server.pc \in {"answer", "data"}
      Done == server.pc = "line" /\ server.res = "Completed"
  IN /\ InUpload \/ Done => session_of \in {up, Mixed}
     /\ server.pc = "answer" /\ server.command.op = "UPLOAD" => session_next = 0
     /\ server.pc = "answer" /\ server.my_answer => files[server.command.name].exists
     /\ server.pc = "data" \/ Done => files[server.command.name].exists
     /\ Done => session_next >= NumSectors /\ server.command \in Uploads

SessionInv == TypeOK /\ Places /\ Streams /\ Session /\ ResumeCovered

\* For AnswersMatch: the lines q under way to the client c.  Only the first can
\* be the answer to its command, and only while it waits for it; the others
\* are farewells.
Tells(q, c, gone) ==
  LET Farewell(l) == l.to = NoCommand /\ gone IN
  /\ \A j \in DOMAIN q :
       q[j].type = "line" => Farewell(q[j]) \/ (c.pc # "input" /\ q[j].to = c.command)
  /\ \A j, l \in DOMAIN q :
       j < l /\ q[j].type = "line" /\ q[l].type = "line" => Farewell(q[l])

Lined ==
  /\ \A i \in Conns :
       conn[i].client = "open" => Tells(conn[i].toClient, client[conn[i].of], Gone(i))
  /\ \A c \in Clients :
       client[c].pc \in {"ready", "go", "send", "line"} => client[c].answer.res = "none"
=============================================================================
