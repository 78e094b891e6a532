------------------------------ MODULE Sockets ------------------------------
(***************************************************************************)
(* What the programs of lab1 acquire from the system and give back: the    *)
(* sockets, and the lists of addresses that getaddrinfo allocates.  One    *)
(* process, the server (main.cpp) or the client (main_client.cpp), from    *)
(* Socket_Start through its sessions, with every call failing when it may. *)
(* What is said in a session is modelled by Service.                       *)
(***************************************************************************)
EXTENDS Integers

CONSTANTS
  MaxAddresses,   \* addresses getaddrinfo may find
  MaxSockets,     \* bound: sockets the process opens
  MaxStarts       \* bound: calls of Socket_Start

ASSUME SocketsAssumption ==
  /\ MaxAddresses \in Nat \ {0}
  /\ MaxSockets \in Nat
  /\ MaxStarts \in Nat \ {0}

VARIABLES
  program,         \* "server" or "client"
  pc,              \* the next call, or "ended"
  sock,            \* what has become of each socket
  listen_socket,   \* local to Socket_Start
  ptr,             \* the address it is at
  result,          \* the number of addresses found
  held,            \* h->serv_sock of the server, h->sock of the client
  client_socket,   \* what accept returned
  lists,           \* lists of addresses that are allocated
  starts,          \* bound
  socket_failed    \* history: calls of socket() that failed

vars == <<program, pc, sock, listen_socket, ptr, result, held, client_socket, lists,
          starts, socket_failed>>

local == <<listen_socket, ptr, result>>

Invalid == 0   \* CUSTOM_SOCK_INVALID

Names == 1 .. MaxSockets

Fresh == {s \in Names : sock[s] = "unused"}

Init ==
  /\ program \in {"server", "client"}
  /\ pc = "getaddrinfo"
  /\ sock = [s \in Names |-> "unused"]
  /\ listen_socket = Invalid
  /\ ptr = 0
  /\ result = 0
  /\ held = Invalid
  /\ client_socket = Invalid
  /\ lists = 0
  /\ starts = 1
  /\ socket_failed = 0

-----------------------------------------------------------------------------
(* Socket_Start *)

\* TcpServ_Start or TcpClient_Start gets the socket; without one the server ends,
\* and the client comes to the end of its loop.
Returns(s) ==
  /\ held' = s
  /\ listen_socket' = Invalid
  /\ pc' = IF s # Invalid THEN (IF program = "server" THEN "accept" ELSE "session")
           ELSE (IF program = "server" THEN "ended" ELSE "loop")

Becomes(s, state) == sock' = [sock EXCEPT ![s] = state]

Resolve ==
  /\ pc = "getaddrinfo"
  /\ \/ /\ Returns(Invalid)
        /\ UNCHANGED <<ptr, result, lists>>
     \/ /\ result' \in 1 .. MaxAddresses
        /\ ptr' = 1
        /\ lists' = lists + 1
        /\ pc' = "socket"
        /\ UNCHANGED <<listen_socket, held>>
  /\ UNCHANGED <<program, sock, client_socket, starts, socket_failed>>

OpenSocket ==
  /\ pc = "socket"
  /\ \E s \in Fresh :
       /\ \A t \in Fresh : s <= t
       /\ Becomes(s, "open")
       /\ listen_socket' = s
  /\ pc' = IF program = "server" THEN "bind" ELSE "connect"
  /\ UNCHANGED <<program, ptr, result, held, client_socket, lists, starts, socket_failed>>

\* The return of socket(): it does not come past freeaddrinfo.
OpenSocketFails ==
  /\ pc = "socket"
  /\ Returns(Invalid)
  /\ socket_failed' = socket_failed + 1
  /\ UNCHANGED <<program, sock, ptr, result, client_socket, lists, starts>>

Connect ==
  /\ pc = "connect"
  /\ Becomes(listen_socket, "connected")
  /\ pc' = "freeaddrinfo"
  /\ UNCHANGED <<program, local, held, client_socket, lists, starts, socket_failed>>

\* Mutant: the socket of an address that did not answer stays open.
ConnectFailsOpen ==
  /\ pc = "connect"
  /\ listen_socket' = Invalid
  /\ ptr' = ptr + 1
  /\ pc' = IF ptr < result THEN "socket" ELSE "freeaddrinfo"
  /\ UNCHANGED <<program, sock, result, held, client_socket, lists, starts, socket_failed>>

\* The next address is tried, if there is one.
ConnectFails ==
  /\ pc = "connect"
  /\ Becomes(listen_socket, "closed")
  /\ listen_socket' = Invalid
  /\ ptr' = ptr + 1
  /\ pc' = IF ptr < result THEN "socket" ELSE "freeaddrinfo"
  /\ UNCHANGED <<program, result, held, client_socket, lists, starts, socket_failed>>

Bind ==
  /\ pc = "bind"
  /\ Becomes(listen_socket, "bound")
  /\ pc' = "freeaddrinfo"
  /\ UNCHANGED <<program, local, held, client_socket, lists, starts, socket_failed>>

BindFails ==
  /\ pc = "bind"
  /\ Becomes(listen_socket, "closed")
  /\ lists' = lists - 1
  /\ Returns(Invalid)
  /\ UNCHANGED <<program, ptr, result, client_socket, starts, socket_failed>>

\* freeaddrinfo, and the return of a client or of a client that could not connect.
Free ==
  /\ pc = "freeaddrinfo"
  /\ lists' = lists - 1
  /\ IF program = "server" THEN pc' = "listen" /\ UNCHANGED <<held, listen_socket>>
                           ELSE Returns(listen_socket)
  /\ UNCHANGED <<program, sock, ptr, result, client_socket, starts, socket_failed>>

Listen ==
  /\ pc = "listen"
  /\ Becomes(listen_socket, "listening")
  /\ Returns(listen_socket)
  /\ UNCHANGED <<program, ptr, result, client_socket, lists, starts, socket_failed>>

ListenFails ==
  /\ pc = "listen"
  /\ Becomes(listen_socket, "closed")
  /\ Returns(Invalid)
  /\ UNCHANGED <<program, ptr, result, client_socket, lists, starts, socket_failed>>

-----------------------------------------------------------------------------
(* The server: TcpServ_WaitConnection for ever *)

Accept ==
  /\ pc = "accept"
  /\ \E s \in Fresh :
       /\ \A t \in Fresh : s <= t
       /\ Becomes(s, "connected")
       /\ client_socket' = s
  /\ pc' = "serve"
  /\ UNCHANGED <<program, local, held, lists, starts, socket_failed>>

\* A failed accept is printed, and the callback called all the same.
AcceptFails ==
  /\ pc = "accept"
  /\ client_socket' = Invalid
  /\ pc' = "serve"
  /\ UNCHANGED <<program, sock, local, held, lists, starts, socket_failed>>

\* The callback comes back; shutdown and closesocket of no socket do nothing.
ServeEnds ==
  /\ pc = "serve"
  /\ IF client_socket # Invalid THEN Becomes(client_socket, "closed") ELSE UNCHANGED sock
  /\ client_socket' = Invalid
  /\ pc' = "accept"
  /\ UNCHANGED <<program, local, held, lists, starts, socket_failed>>

-----------------------------------------------------------------------------
(* The client: TcpClient_Communicate, TcpClient_Stop and the loop of main *)

\* h->sock keeps its value after it is closed.
SessionEnds ==
  /\ pc = "session"
  /\ Becomes(held, "closed")
  /\ pc' = "loop"
  /\ UNCHANGED <<program, local, held, client_socket, lists, starts, socket_failed>>

\* is_restore_connection, see Service.
Reconnect ==
  /\ pc = "loop"
  /\ starts < MaxStarts
  /\ starts' = starts + 1
  /\ pc' = "getaddrinfo"
  /\ UNCHANGED <<program, sock, local, held, client_socket, lists, socket_failed>>

End ==
  /\ pc = "loop"
  /\ pc' = "ended"
  /\ UNCHANGED <<program, sock, local, held, client_socket, lists, starts, socket_failed>>

Next ==
  \/ Resolve \/ OpenSocket \/ OpenSocketFails \/ Connect \/ ConnectFails
  \/ Bind \/ BindFails \/ Free \/ Listen \/ ListenFails
  \/ Accept \/ AcceptFails \/ ServeEnds
  \/ SessionEnds \/ Reconnect \/ End

Spec == Init /\ [][Next]_vars

-----------------------------------------------------------------------------
TypeOK ==
  /\ program \in {"server", "client"}
  /\ pc \in {"getaddrinfo", "socket", "connect", "bind", "freeaddrinfo", "listen",
             "accept", "serve", "session", "loop", "ended"}
  /\ sock \in [Names -> {"unused", "open", "connected", "bound", "listening", "closed"}]
  /\ listen_socket \in Names \cup {Invalid}
  /\ held \in Names \cup {Invalid}
  /\ client_socket \in Names \cup {Invalid}
  /\ result \in 0 .. MaxAddresses /\ ptr \in 0 .. MaxAddresses + 1
  /\ lists \in Nat
  /\ starts \in 1 .. MaxStarts
  /\ socket_failed \in Nat

\* The sockets the process has a use for.
InUse ==
  {listen_socket, client_socket}
  \cup (IF pc \in {"accept", "serve", "session"} THEN {held} ELSE {})

\* Through every failure and however often the client reconnects, the process keeps
\* open the sockets it still uses and no other, no list of addresses is left allocated
\* except by a failure of socket(), and what a session is given is connected or listens.
NothingLeft ==
  /\ {s \in Names : sock[s] \notin {"unused", "closed"}} = InUse \ {Invalid}
  /\ lists = socket_failed
       + (IF pc \in {"socket", "connect", "bind", "freeaddrinfo"} THEN 1 ELSE 0)
  /\ pc = "session" => sock[held] = "connected"
  /\ pc \in {"accept", "serve"} => sock[held] = "listening"
=============================================================================
