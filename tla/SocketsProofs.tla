---------------------------- MODULE SocketsProofs -----------------------------
(***************************************************************************)
(* The programs of lab1 give back what they acquire, whatever calls fail,  *)
(* for any number of addresses, sockets and reconnections.                 *)
(***************************************************************************)
EXTENDS Sockets, TLAPS

-----------------------------------------------------------------------------
(* The inductive invariant *)

\* Only a server binds and listens, only a client connects and comes to its loop.
Roles ==
  /\ pc \in {"bind", "listen", "accept", "serve"} => program = "server"
  /\ pc \in {"connect", "session", "loop"} => program = "client"

\* What Socket_Start has in hand before each of its calls.
Starting ==
  /\ pc \in {"connect", "bind"} =>
       listen_socket \in Names /\ sock[listen_socket] = "open"
  /\ (pc = "listen" \/ (pc = "freeaddrinfo" /\ program = "server")) =>
       listen_socket \in Names /\ sock[listen_socket] = "bound"
  /\ (pc = "freeaddrinfo" /\ program = "client" /\ listen_socket # Invalid) =>
       sock[listen_socket] = "connected"
  /\ pc \notin {"connect", "bind", "freeaddrinfo", "listen"} => listen_socket = Invalid
  /\ pc \in {"socket", "connect"} => ptr <= result

\* What a program has in hand once it is started.
Running ==
  /\ pc = "session" => held \in Names /\ sock[held] = "connected"
  /\ pc \in {"accept", "serve"} => held \in Names /\ sock[held] = "listening"
  /\ (pc = "serve" /\ client_socket # Invalid) => sock[client_socket] = "connected"
  /\ pc # "serve" => client_socket = Invalid

SocketsInv == TypeOK /\ Roles /\ Starting /\ Running /\ NothingLeft

-----------------------------------------------------------------------------
LEMMA InitSocketsInv == Init => SocketsInv
  BY SocketsAssumption
  DEF Init, SocketsInv, TypeOK, Roles, Starting, Running, NothingLeft, InUse, Names, Invalid

LEMMA NextSocketsInv == SocketsInv /\ [Next]_vars => SocketsInv'
<1> SUFFICES ASSUME SocketsInv, [Next]_vars PROVE SocketsInv'
  OBVIOUS
<1> USE SocketsAssumption
    DEF SocketsInv, TypeOK, Roles, Starting, Running, NothingLeft, InUse, Names, Invalid
<1>1. CASE Resolve
  BY <1>1 DEF Resolve, Returns
<1>2. CASE OpenSocket
  BY <1>2 DEF OpenSocket, Becomes, Fresh
<1>3. CASE OpenSocketFails
  BY <1>3 DEF OpenSocketFails, Returns
<1>4. CASE Connect
  BY <1>4 DEF Connect, Becomes, local
<1>5. CASE ConnectFails
  BY <1>5 DEF ConnectFails, Becomes
<1>6. CASE Bind
  BY <1>6 DEF Bind, Becomes, local
<1>7. CASE BindFails
  BY <1>7 DEF BindFails, Returns, Becomes
<1>8. CASE Free
  BY <1>8 DEF Free, Returns
<1>9. CASE Listen
  BY <1>9 DEF Listen, Returns, Becomes
<1>10. CASE ListenFails
  BY <1>10 DEF ListenFails, Returns, Becomes
<1>11. CASE Accept
  BY <1>11 DEF Accept, Becomes, Fresh, local
<1>12. CASE AcceptFails
  BY <1>12 DEF AcceptFails, local
<1>13. CASE ServeEnds
  BY <1>13 DEF ServeEnds, Becomes, local
<1>14. CASE SessionEnds
  BY <1>14 DEF SessionEnds, Becomes, local
<1>15. CASE Reconnect
  BY <1>15 DEF Reconnect, local
<1>16. CASE End
  BY <1>16 DEF End, local
<1>17. CASE UNCHANGED vars
  BY <1>17 DEF vars
<1> QED
  BY <1>1, <1>2, <1>3, <1>4, <1>5, <1>6, <1>7, <1>8, <1>9, <1>10, <1>11, <1>12,
     <1>13, <1>14, <1>15, <1>16, <1>17 DEF Next

LEMMA Inductive == Spec => []SocketsInv
  BY InitSocketsInv, NextSocketsInv, PTL DEF Spec

-----------------------------------------------------------------------------
\* Whatever call fails and however often the client reconnects, what is open is what
\* the process still uses, a session has a connected socket and the server a listening
\* one, and only a failure of socket() leaves a list of addresses allocated
\* (custom_sock.cpp:27, Socket_Start; TcpServ.cpp:32; TcpClient.cpp:30).
THEOREM NothingIsLeft == Spec => []NothingLeft
<1>1. SocketsInv => NothingLeft
  BY DEF SocketsInv
<1> QED BY <1>1, Inductive, PTL

\* Socket_Start tries no address beyond the last it has found, and the variables keep
\* their shape (custom_sock.cpp:68, the loop over the addresses).
THEOREM AddressesInRange ==
  Spec => [](TypeOK /\ (pc \in {"socket", "connect"} => ptr <= result))
<1>1. SocketsInv => TypeOK /\ (pc \in {"socket", "connect"} => ptr <= result)
  BY DEF SocketsInv, Starting
<1> QED BY <1>1, Inductive, PTL
=============================================================================
