----------------------------- MODULE UdpUpload ------------------------------
(***************************************************************************)
(* lab2: a client that asks a server over UDP and uploads files in         *)
(* numbered datagrams, and a network that loses, duplicates, delays and    *)
(* reorders them.  The server collects the blocks of an upload until the   *)
(* last datagram comes, and puts a buffer of zeros among them whenever it  *)
(* has waited for one in vain.                                             *)
(*                                                                         *)
(* Every request has a number n that is not in the program: it tells which *)
(* request a datagram or an answer belongs to.  ECHO and TIME are both     *)
(* "ASK", a request answered by one line.  The server's ten-second timeout *)
(* between requests only prints, and is left out.  The four newlines that  *)
(* end a datagram are found again from its end, whatever the data before.  *)
(***************************************************************************)
EXTENDS Integers, Sequences, FiniteSets

CONSTANTS
  Files,        \* names
  Size,         \* the number of blocks of each file
  Byte,         \* values of a byte: 256 in the code
  IndexBytes,   \* bytes of a block's index: 3 in the code
  CommandIndexes, \* the indexes that letters of a command stand for
  MaxCommands,  \* bound: requests of the user
  MaxFaults     \* bound: datagrams lost or duplicated, files that fail

SoTimeout == 2  \* seconds getData waits

ASSUME UdpAssumption ==
  /\ Size \in [Files -> Nat]
  /\ {"none", "zero", "shifted", "command"} \cap Files = {}
  /\ Byte \in Nat \ {0} /\ Byte % 2 = 0
  /\ IndexBytes \in Nat \ {0}
  /\ CommandIndexes \subseteq Int
  /\ MaxCommands \in Nat
  /\ MaxFaults \in Nat

VARIABLES
  client,    \* where it is, its request, the file, its counter, what it last read
  server,    \* where it is, the file and the dictionary of an upload, whether it
             \*   cannot be unpacked, the seconds getData has waited
  files,     \* what the server has written
  toServer,  \* datagrams under way
  toClient,  \* answers under way
  damage,    \* history: what has gone wrong
  faults     \* bound

vars == <<client, server, files, toServer, toClient, damage, faults>>

\* The data of block i of a file.
Data(f, i) == [of |-> f, i |-> i]

Zero == Data("zero", 0)   \* the placeholder
Hole == Data("none", 0)   \* no data at all
Letters == Data("command", 0)  \* what a command has after its first four bytes
NoFile == <<Hole>>

Source(f) == [k \in 1 .. Size[f] |-> Data(f, k - 1)]

Init ==
  /\ client = [pc |-> "user", n |-> 0, file |-> "none", counter |-> 0,
               read |-> [n |-> 0, what |-> "line"]]
  /\ server = [pc |-> "loop", file |-> "none", packets |-> <<>>,
               unreadable |-> FALSE, quiet |-> 0]
  /\ files = [f \in Files |-> NoFile]
  /\ toServer = {}
  /\ toClient = {}
  /\ damage = {}
  /\ faults = 0

-----------------------------------------------------------------------------
(* The index of a block *)

\* Byte ^ n
Power[n \in Nat] == IF n = 0 THEN 1 ELSE Byte * Power[n - 1]

\* Mutant: the sign bit is not kept free.
ToByteArrayUnsigned(v) ==
  LET Bytes[u \in Nat] ==
        IF u < Byte THEN <<u>> ELSE Append(Bytes[u \div Byte], u % Byte)
  IN  Bytes[v]

\* BigInteger.toByteArray: the shortest two's complement, most significant first.
ToByteArray(v) ==
  LET Bytes[u \in Nat] ==
        IF 2 * u < Byte THEN <<u>> ELSE Append(Bytes[u \div Byte], u % Byte)
  IN  Bytes[v]

\* The number that bytes stand for without a sign.
Value(bytes) ==
  LET Upto[k \in 0 .. Len(bytes)] ==
        IF k = 0 THEN 0 ELSE Upto[k - 1] * Byte + bytes[k]
  IN  Upto[Len(bytes)]

\* new BigInteger(bytes): two's complement, most significant first.
FromBytes(bytes) ==
  LET v == Value(bytes)
      range == Power[Len(bytes)]
  IN  IF 2 * v < range THEN v ELSE v - range

\* The zero bytes that bring an index to three bytes.
FillUp(b) == IF Len(b) < IndexBytes THEN [k \in 1 .. IndexBytes - Len(b) |-> 0] ELSE <<>>

\* createPacket: least significant byte first, filled up to three bytes, but never cut.
IndexData(i) ==
  LET b == ToByteArray(i) IN
    [k \in 1 .. Len(b) |-> b[Len(b) + 1 - k]] \o FillUp(b)

\* byteIndex of unpackDataToDictionary: the first three bytes, reversed.
ByteIndex(data) == FromBytes([k \in 1 .. IndexBytes |-> data[IndexBytes + 1 - k]])

\* A longer index leaves its last byte in the block's data.
FileData(d) == IF Len(d.index) = IndexBytes THEN d.data ELSE Data("shifted", d.data.i)

-----------------------------------------------------------------------------
(* The network *)

Datagram(kind, n) == [kind |-> kind, n |-> n, file |-> "none", index |-> <<>>, data |-> Hole]

Answer(n, what) == [n |-> n, what |-> what]

Harmless(faulty) == damage \subseteq faulty

\* A datagram of an earlier request is still under way.
Overtakes(d) == \E e \in toServer : e.n < d.n

\* The last datagram is there before a block of its upload.
CutsShort(d) ==
  d.kind = "last" /\ \E e \in toServer :
    e.n = d.n /\ e.kind = "block" /\ ByteIndex(e.index) \notin DOMAIN server.packets

\* The server takes a datagram; the network may keep a copy of it.
Receives(d) ==
  \E kept \in {{}, {d}} :
    /\ toServer' = (toServer \ {d}) \cup kept
    /\ kept # {} => faults < MaxFaults
    /\ faults' = faults + Cardinality(kept)
    /\ damage' = damage
         \cup (IF kept # {} /\ d.kind # "block" THEN {"dup"} ELSE {})
         \cup (IF Overtakes(d) THEN {"overtaken"} ELSE {})
         \cup (IF CutsShort(d) THEN {"short"} ELSE {})
         \cup (IF server.pc = "loop" /\ d.kind \in {"block", "last"} THEN {"stray"} ELSE {})
         \cup (IF server.pc = "upload" /\ d.kind \notin {"block", "last"}
                 THEN {"stored"} ELSE {})

Lose ==
  /\ faults < MaxFaults
  /\ faults' = faults + 1
  /\ damage' = damage \cup {"lost"}
  /\ \/ \E d \in toServer : toServer' = toServer \ {d} /\ UNCHANGED toClient
     \/ \E a \in toClient : toClient' = toClient \ {a} /\ UNCHANGED toServer
  /\ UNCHANGED <<client, server, files>>

-----------------------------------------------------------------------------
(* UDPClient *)

\* A request of the user; EXIT closes the client without waiting.
Request(kind, pc, f) ==
  /\ client.pc = "user"
  /\ client.n < MaxCommands
  /\ client' = [client EXCEPT !.pc = pc, !.n = @ + 1, !.file = f]
  /\ toServer' = toServer \cup {[Datagram(kind, client.n + 1) EXCEPT !.file = f]}
  /\ UNCHANGED <<server, files, toClient, damage, faults>>

Ask == Request("ASK", "answer", "none")

Exit == Request("EXIT", "closed", "none")

Upload(f) == Request("PREPARE", "ready", f)

\* The client is back at its user; what sendFile counted is gone.
Back == [client EXCEPT !.pc = "user", !.file = "none", !.counter = 0]

\* getData takes whatever answer comes next; sendFile goes on only if it says so.
ClientReads ==
  /\ client.pc \in {"answer", "ready"}
  /\ \E a \in toClient :
       /\ toClient' = toClient \ {a}
       /\ client' = [IF client.pc = "ready" /\ a.what = "ready"
                       THEN [client EXCEPT !.pc = "sending"] ELSE Back
                       EXCEPT !.read = a]
  /\ UNCHANGED <<server, files, toServer, damage, faults>>

\* The five seconds are over, and the answer may still come.
ClientTimesOut ==
  /\ client.pc \in {"answer", "ready"}
  /\ client' = Back
  /\ damage' = damage \cup {"late"}
  /\ UNCHANGED <<server, files, toServer, toClient, faults>>

Block(f, i, n) ==
  [kind |-> "block", n |-> n, file |-> f, index |-> IndexData(i), data |-> Data(f, i)]

SendBlock ==
  /\ client.pc = "sending"
  /\ client.counter < Size[client.file]
  /\ toServer' = toServer \cup {Block(client.file, client.counter, client.n)}
  /\ client' = [client EXCEPT !.counter = @ + 1]
  /\ UNCHANGED <<server, files, toClient, damage, faults>>

\* Mutant: the counter of the last datagram is the last index.
SendLastIndex ==
  /\ client.pc = "sending"
  /\ client.counter = Size[client.file]
  /\ toServer' = toServer \cup
       {[Datagram("last", client.n) EXCEPT !.index =
           ToByteArray(IF client.counter = 0 THEN 0 ELSE client.counter - 1)]}
  /\ client' = Back
  /\ UNCHANGED <<server, files, toClient, damage, faults>>

\* The last datagram carries the number of blocks, and nobody acknowledges it.
SendLast ==
  /\ client.pc = "sending"
  /\ client.counter = Size[client.file]
  /\ toServer' = toServer \cup
       {[Datagram("last", client.n) EXCEPT !.index = ToByteArray(client.counter)]}
  /\ client' = Back
  /\ UNCHANGED <<server, files, toClient, damage, faults>>

-----------------------------------------------------------------------------
(* UDPServer *)

\* A request, or a datagram of an upload that is over, which is echoed.
ServerAnswers ==
  /\ server.pc = "loop"
  /\ \E d \in toServer :
       /\ d.kind \in {"ASK", "block", "last"}
       /\ Receives(d)
       /\ toClient' = toClient \cup {Answer(d.n, "line")}
  /\ UNCHANGED <<client, server, files>>

ServerExits ==
  /\ server.pc = "loop"
  /\ \E d \in toServer : d.kind = "EXIT" /\ Receives(d)
  /\ server' = [server EXCEPT !.pc = "stopped"]
  /\ UNCHANGED <<client, files, toClient>>

ServerPrepares ==
  /\ server.pc = "loop"
  /\ \E d \in toServer :
       /\ d.kind = "PREPARE"
       /\ Receives(d)
       /\ toClient' = toClient \cup {Answer(d.n, "ready")}
       /\ server' = [pc |-> "upload", file |-> d.file, packets |-> <<>>,
                     unreadable |-> FALSE, quiet |-> 0]
  /\ UNCHANGED <<client, files>>

\* dictionary.put: the last one wins.  The code puts the collected packets into the
\* dictionary when the upload is over, in the order in which they came.
Put(key, value) ==
  [server EXCEPT !.packets = [k \in {key} \cup DOMAIN @ |-> IF k = key THEN value ELSE @[k]],
                 !.quiet = 0]

\* A datagram becomes a packet of the upload.  A command does so under the index that
\* its letters stand for, which may be that of a block; an ECHO of one or two letters
\* has its newlines so near the front that unpacking it reads fileData[-1].
Collects(d) ==
  \/ d.kind = "block" /\ server' = Put(ByteIndex(d.index), FileData(d))
  \/ d.kind # "block" /\ \E i \in CommandIndexes : server' = Put(i, Letters)
  \/ d.kind = "ASK" /\ server' = [server EXCEPT !.unreadable = TRUE, !.quiet = 0]

\* Mutant: the last datagram is taken for one more packet.
ServerCollectsLast ==
  /\ server.pc = "upload"
  /\ \E d \in toServer : Receives(d) /\ Collects(d)
  /\ UNCHANGED <<client, files, toClient>>

\* Everything but a last datagram is collected, whatever its kind.
ServerCollects ==
  /\ server.pc = "upload"
  /\ \E d \in toServer : d.kind # "last" /\ Receives(d) /\ Collects(d)
  /\ UNCHANGED <<client, files, toClient>>

\* Mutant: the wait never ends.
SecondAlways ==
  /\ server.pc = "upload"
  /\ server' = [server EXCEPT !.quiet = @ + 1]
  /\ UNCHANGED <<client, files, toServer, toClient, damage, faults>>

Second ==
  /\ server.pc = "upload"
  /\ server.quiet < SoTimeout
  /\ server' = [server EXCEPT !.quiet = @ + 1]
  /\ UNCHANGED <<client, files, toServer, toClient, damage, faults>>

\* getData returns its buffer of zeros, which is block 0.
Placeholder ==
  /\ server.pc = "upload"
  /\ server.quiet = SoTimeout
  /\ server' = Put(0, Zero)
  /\ damage' = damage \cup {"gap"}
  /\ UNCHANGED <<client, files, toServer, toClient, faults>>

\* The blocks in the order of their indexes, absent ones left out.
Written(packets, lastIndex) ==
  LET Upto[k \in 0 .. lastIndex] ==
        IF k = 0 THEN <<>>
        ELSE IF k - 1 \in DOMAIN packets THEN Append(Upto[k - 1], packets[k - 1])
        ELSE Upto[k - 1]
  IN  Upto[lastIndex]

\* Mutant: the server acknowledges an upload, and nobody reads that.
ServerWritesAcked ==
  /\ server.pc = "upload"
  /\ ~server.unreadable
  /\ \E d \in toServer :
       /\ d.kind = "last"
       /\ Receives(d)
       /\ toClient' = toClient \cup {Answer(d.n, "line")}
       /\ files' = [files EXCEPT ![server.file] =
                      Written(server.packets, FromBytes(d.index))]
  /\ server' = [pc |-> "loop", file |-> "none", packets |-> <<>>,
                unreadable |-> FALSE, quiet |-> 0]
  /\ UNCHANGED <<client>>

\* The last datagram ends the upload: its packets are unpacked and written.  The file
\* may fail to open, which ends the server: only a timeout is caught.
ServerWrites ==
  /\ server.pc = "upload"
  /\ ~server.unreadable
  /\ \E d \in toServer :
       /\ d.kind = "last"
       /\ Receives(d)
       /\ files' = [files EXCEPT ![server.file] =
                      Written(server.packets, FromBytes(d.index))]
  /\ server' = [pc |-> "loop", file |-> "none", packets |-> <<>>,
                unreadable |-> FALSE, quiet |-> 0]
  /\ UNCHANGED <<client, toClient>>

ServerFails ==
  /\ server.pc = "upload"
  /\ ~server.unreadable
  /\ faults < MaxFaults
  /\ \E d \in toServer : d.kind = "last" /\ toServer' = toServer \ {d}
  /\ faults' = faults + 1
  /\ damage' = damage \cup {"failed"}
  /\ server' = [server EXCEPT !.pc = "stopped"]
  /\ UNCHANGED <<client, files, toClient>>

\* Only a timeout is caught: a packet that cannot be unpacked ends the server before
\* the file is opened.
ServerBreaks ==
  /\ server.pc = "upload"
  /\ server.unreadable
  /\ \E d \in toServer : d.kind = "last" /\ Receives(d)
  /\ server' = [server EXCEPT !.pc = "stopped"]
  /\ UNCHANGED <<client, files, toClient>>

-----------------------------------------------------------------------------
ServerReceives ==
  \/ ServerAnswers \/ ServerExits \/ ServerPrepares
  \/ ServerCollects \/ ServerWrites \/ ServerBreaks

Next ==
  \/ Ask \/ Exit \/ \E f \in Files : Upload(f)
  \/ ClientReads \/ ClientTimesOut \/ SendBlock \/ SendLast
  \/ ServerAnswers \/ ServerExits \/ ServerPrepares \/ ServerCollects
  \/ Second \/ Placeholder \/ ServerWrites \/ ServerBreaks \/ ServerFails
  \/ Lose

Spec == Init /\ [][Next]_vars

\* Both programs run, and what is not lost arrives.
FairSpec ==
  /\ Spec
  /\ WF_vars(ClientReads \/ ClientTimesOut)
  /\ WF_vars(SendBlock \/ SendLast)
  /\ WF_vars(ServerReceives)

-----------------------------------------------------------------------------
TypeOK ==
  /\ client \in [pc : {"user", "answer", "ready", "sending", "closed"},
                 n : 0 .. MaxCommands, file : Files \cup {"none"}, counter : Nat,
                 read : [n : 0 .. MaxCommands, what : {"line", "ready"}]]
  /\ client.pc \in {"ready", "sending"} => client.file \in Files
  /\ server.pc \in {"loop", "upload", "stopped"}
  /\ server.pc = "upload" => server.file \in Files
  /\ server.unreadable \in BOOLEAN
  /\ server.quiet \in 0 .. SoTimeout
  /\ damage \subseteq {"lost", "late", "dup", "overtaken", "short", "stray", "gap", "failed",
                 "stored"}
  /\ faults \in 0 .. MaxFaults

\* Of the indexes a client has still to write, one below half of the range of three
\* bytes comes back as it was, and so does the block's data; a larger one comes back
\* negative or, twice as large, as that of another block, and leaves a byte in the data.
\* The number of blocks comes back whatever its length.
IndexWraps ==
  LET Half == Power[IndexBytes] \div 2 IN
  client.pc = "sending" => \A i \in client.counter .. 3 * Half :
    /\ ByteIndex(IndexData(i)) = ((i + Half) % (2 * Half)) - Half
    /\ i < Half <=>
         FileData(Block(client.file, i, client.n)) = Data(client.file, i)
    /\ FromBytes(ToByteArray(i)) = i

IsAscending(seq) ==
  \A k, l \in DOMAIN seq : k < l /\ Zero \notin {seq[k], seq[l]} => seq[k].i < seq[l].i

\* A file whose blocks can be numbered is written as it was sent, although blocks come
\* in any order or twice; a wait of two seconds can cost block 0 and nothing else; lost
\* blocks and late ones leave holes, but never foreign or misplaced blocks.
WrittenIsSource ==
  \A f \in Files : (files[f] # NoFile /\ 2 * Size[f] <= Power[IndexBytes]) =>
    /\ Harmless({}) => files[f] = Source(f)
    /\ (Harmless({"gap"}) /\ Size[f] > 0) =>
         files[f] \in {Source(f), [Source(f) EXCEPT ![1] = Zero]}
    /\ Harmless({"gap", "lost", "short"}) =>
         /\ IsAscending(files[f])
         /\ \A k \in DOMAIN files[f] : files[f][k] = Zero \/ files[f][k].of = f

\* The client reads the answer to the request it has sent, unless it has given up on an
\* earlier one or the network has changed the order of requests.
AnswersOwn ==
  (Harmless({"gap", "lost"}) /\ client.pc \in {"user", "sending"} /\ client.n > 0) =>
    /\ client.pc = "sending" => client.read = Answer(client.n, "ready")
    /\ client.read.n \in {0, client.n}

\* An upload whose last datagram is not lost is over one day, however long the pauses
\* in it, and whatever later command gets among its blocks.
ServerReturns ==
  LET Passes == Harmless({"gap", "overtaken", "stored"}) IN
    (server.pc = "upload" /\ Passes) ~> (server.pc # "upload" \/ ~Passes)

\* UDPServer.java:205: "data from the client will be awaited for 5 seconds".
WaitsFiveSeconds ==
  [][("gap" \notin damage /\ "gap" \in damage') => server.quiet >= 5]_vars
=============================================================================
