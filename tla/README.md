# LANSS in TLA+

A verification development of the three programs of this repository ("Local area
network system software"). It states what the programs must do, checks it with TLC on
small instances and proves its safety part with TLAPS for every instance. Every action is
translated from the source; `PROJECT.json` maps each definition to its lines.

## 1. The system

| part | state it keeps | operations | interacts by |
|---|---|---|---|
| lab1 `execute_upload` / `execute_download` (`file_manage.cpp`), run at either end | the open file, the **static** `session.next_part_to_send_recv` of the receiver, a local session at the sender, `is_aborted_connection` | open, three-way handshake, resume point, packets, close or remove | one TCP connection; return value becomes the answer line |
| lab1 handshake (`handshake.cpp`) | three bytes on the wire | `three_way_handshake_up/_down`, `send_last_received`, `get_last_received` | called by the two functions above |
| lab1 sockets (`custom_sock.cpp`) | kernel buffers, 30 s timeouts | `Socket_Recv`, `Socket_RecvEndLine`, `Socket_SetTimeouts`, `Socket_Start` | everything |
| lab1 command loops (`sock_thread_handler.cpp`) | the line buffer, `restore_string`, `is_restore_connection` | `sock_thread_callback` (server), `sock_client_callback` (client), parse, execute, reconnect | command and answer lines over the connection |
| lab1 programs (`main*.cpp`, `TcpServ.cpp`, `TcpClient.cpp`) | the listening socket and its backlog | accept one client at a time; connect, communicate, perhaps reconnect | backlog |
| lab2 `UDPServer` / `UDPClient` | blocks received so far; a counter | `ECHO`, `TIME`, `EXIT`, upload of a file in numbered datagrams | UDP datagrams, timeouts |
| lab5 ping (`runPing`, `runSwitching`, `pingThread`) | one buffered channel per address, counters | send on a ticker, receive, route to a goroutine, stop on a signal | channels, raw ICMP socket |
| lab5 traceroute | the current hop | probe, wait with a deadline, print | raw ICMP socket |

The behaviours that make it hard:

* **lab1** – two processes interleave over byte streams that carry commands, handshake
  bytes, numbers, packets and answer lines without framing between them; a connection may
  break at any point and keep a prefix of what was under way; a process may crash between
  two sectors; every read may time out while the answer is on its way; a sector is counted
  before the disk has it; and the resume point outlives all of that in a static variable. What
  must be right: a transfer that reports success really is complete, a continued one leaves no
  hole, no end waits for ever.
* **lab1 loops** – one server for all clients, one static session for all files, commands
  that are executed after their client has given up. What must be right: an answer belongs
  to its command, a pending restore is neither lost nor repeated, every client is served.
* **lab2** – loss, reordering, late datagrams, a placeholder block after a timeout, requests
  that are taken for blocks. What
  must be right: a file written without loss equals the source; the server gets back to its
  loop.
* **lab5** – a goroutine per address, bounded channels, closing against sending, replies
  that belong to another request. What must be right: no send on a closed channel, every
  goroutine ends, a reply is counted once and for its own address.

## 2. The modules

| module | what it is |
|---|---|
| `Copy` | the abstract specification of one transfer, seen from the receiver's file: offer, agree, put the next sector, complete, stop, decline, fail |
| `FileTransfer` | the transfer itself: two processes, two byte streams, handshake, resume point, packets, answer line, faults; states its properties and that it implements `Copy` |
| `Service` | the programs around the transfer: the sequential server, its backlog and command loop, clients with several commands, their reconnection, and the resume point that all uploads share |
| `Sectors` | the arithmetic of `file_read` and `file_write` in bytes: number of sectors, last sector, offsets narrowed to `long`, the percentage |
| `Sockets` | the sockets and address lists the two programs of lab1 acquire and give back, through every failure of `Socket_Start` |
| `UdpUpload` | lab2: client, server and the datagrams between them |
| `Icmp` | what the parser of lab5 makes of a packet; used by the next two |
| `PingSwitch` | lab5: the main goroutine, a goroutine per address, their channels, the interrupt |
| `Traceroute` | lab5: the loop over hops and its deadline |
| `MCCopy`, `MCFileTransfer`, `MCService`, `MCSectors`, `MCSockets`, `MCUdpUpload`, `MCPingSwitch`, `MCTraceroute` | the instances TLC checks |
| `CopyProofs` | TLAPS: `Copy` keeps its promise for every number of sectors |
| `FileTransferProofs` | TLAPS: the type invariant of `FileTransfer`, lemmas that give each action queue element by queue element, the inductive invariant `IndInv`, the safety properties that follow, and that `FileTransfer` implements `Copy` |
| `ServiceProofs` | TLAPS: all the invariants of `Service`, from the invariant `SessionInv` |
| `SectorsProofs` | TLAPS: no byte is misplaced, and 100 % is the whole source |
| `SocketsProofs` | TLAPS: the one invariant of `Sockets`, and that the loop over addresses stays in its list |
| `UdpUploadProofs` | TLAPS: all the invariants of `UdpUpload`, with the arithmetic of the block index |
| `PingProofs` | TLAPS: all the invariants of `PingSwitch` |
| `TracerouteProofs` | TLAPS: all the invariants of `Traceroute` |

### FileTransfer

`up` is the end that runs `execute_upload` (it receives the file), `down` the end that runs
`execute_download` (it sends it). On `UPLOAD` the client is `down` and the server `up`; on
`DOWNLOAD` the other way round. The constant `Initiator` names the client's end, and the two
runs `upload` and `download` check both.

| variable | in the code |
|---|---|
| `toUp`, `toDown` | the bytes under way on the connection, as messages: the command line, one handshake byte, the 8-byte resume point, the 2-byte size, the packet, the answer line |
| `alive` | the connection still carries what is written to it |
| `up`, `down` | where each function is (`pc`), whether its file is open (`handle`), `my_answer`, the sector in stdio's buffer of the receiver (`buffered`), the sender's local counter (`next`), the returned string (`res`) |
| `session_next` | `static file_session_t session`, its `next_part_to_send_recv` (file_manage.cpp:22) |
| `file` | `shared/<name>` on the receiver's disk: does it exist, which sectors of the source it holds, whether bytes of an earlier file may be left in it; as history, which counted sectors the disk has refused (`lost`) |
| `received_info` | the line the client reads after the command (sock_thread_handler.cpp:233) |
| `is_continue` | the command was one of the `_CONTINUE` ones |
| `attempts`, `faults` | bounds |

A step is everything an end does between two reads of the socket, because a write never
waits for the peer here and nothing else is shared; so `UpOpen` is `fopen`, the counter's
reset and the first byte, `UpAnswer` the rest of the handshake with `send_last_received`,
`UpSize` and `UpPacket` one turn of the receiving loop, `DownSend` one turn of the sending
loop, and the `...Lost` actions are the early returns. `UpReturn` and `DownReturn` hold what every return has in
common: the answer line when the end is the server, the client's next read when it is the
client, or the closed connection when the user agrees to reconnect.

What the model decides about the environment:

* A write to a dead connection may succeed (the kernel has not noticed) or fail.
* A read fails at the end of a dead stream, when the peer is silent (it cannot send anything
  before it receives: that is when the 30 s of `SO_RCVTIMEO` certainly run out), or, as a
  fault, although bytes are under way.
* `Cut` breaks the connection and keeps a prefix of each direction.
* A packet is smaller than stdio's buffer, so `fwrite` only fills it and the sector counts as
  written (file_manage.cpp:223, 231). The next `fseek` (217) or the `fclose` (96) flushes it
  (`Flushed`). As a fault the flush fails (`Dropped`): at `fseek` the function returns "Error
  writing" with a counted sector missing, at `fclose` nobody looks.
* `UpCrash` forgets `session_next` and the sector in the buffer, and so does the end of a
  client's process (`UpEnds`). `DownCrash` is the sender's.
* An answer line met by a read that expects something else loses its first bytes and stays
  ("garbled"); a letter read as a `bool` is an arbitrary answer; eight letters read as the
  resume point are a number far beyond the last sector, so one representative
  (`NumSectors`) stands for all of them.

Abstractions, and what they hide: a packet is one message, so it arrives whole or not at
all, and bytes of a later answer line never complete a cut packet (a hazard in
`PROJECT.json`). On a connection that is still alive a new command is given only when nothing
is left unread in it; the user may also hang up (`HangUp`) and start again. What the command
loops make of leftovers on a live connection is not modelled here, and `InStep` of `Service`
covers it only for reads that are never late and disks that never fail (section 6). The
source file does not change between attempts. A packet that arrived whole deserialises
("Error deserialize packet" needs a packet that is out of step, which `InOrder` excludes).

What the model shows of the code, and nothing in the repository says:

* `fclose` fails unseen: a transfer returns, and the server sends, "Completed" although the
  last sector is not on the disk.
* A flush that fails at `fseek` loses a sector that is already counted. The resume point is
  beyond it, so `UPLOAD_CONTINUE` does not send it again and ends "Completed" with a hole.

`CompletedMeansStored`, `AckMeansStored` and `ResumePointCovered` therefore name the sectors
the disk has refused (`lost`) and say that nothing else is ever missing.

### Copy and the refinement

`Copy` has no network and no peer: `copy`, `resume`, `phase` and `complete`. Its `Put` adds
exactly the sector at `resume`, which the code does not say anywhere: `file_write` writes at
the number in the packet and only increments its own count. The one thing a disk may do to a
copy is to lose the sector that came last (`Without(resume - 1)`), when the transfer stops,
fails or completes. `FileTransfer` checks `ImplementsCopy` (`Abstraction == INSTANCE Copy WITH
copy <- Flushed(file, up.buffered), resume <- session_next, ...`): the abstract copy holds what
stdio has taken, so a flush is a stutter and a flush that fails takes the last sector away.
Every step of the two processes, crash, cut and disk error included, is a step of `Copy` or
leaves it alone.

### Service

One server process, several clients, and the connections between them in the order they were
made.

| variable | in the code |
|---|---|
| `client` | where each client is in `sock_client_callback` and `execute_download`, its connection, its command, its answer to the handshake, its sector counter, the answer line it last read |
| `restore_string`, `is_restore_connection` | the static of `sock_client_callback` and the global `main_client` loops on |
| `conn` | a connection: its client, both ends (`queued` is the backlog), whether it is cut, which end has been reset, the bytes under way |
| `server` | where the server is: accept, reading a line, in the handshake, receiving, about to close; the command, `my_answer`, the last result |
| `session_next` | the static resume point of `execute_upload` |
| `session_of` | a history variable: which upload's sectors the resume point counts, `Mixed` once somebody has continued another one |
| `files` | `shared/` at the server; each sector says whose upload wrote it |

What it decides about the environment:

* A send to an end that has closed vanishes and provokes a reset; the next send fails, or
  (`Posix`) raises SIGPIPE, which neither program handles: the process ends, and with the
  server every connection. On Windows the reset takes unread bytes with it.
* Closing with unread bytes is a reset.
* End of stream and error are different for the client (`is_error`) and the same for the
  server (nothing read), where the empty line is executed as an unknown command.
* `Cut` keeps a prefix of each direction, and perhaps a part of the last command: another file
  name, or no command.
* A read gives up when its peer is silent: the user is thinking, the connection waits in the
  backlog, or the peer cannot send before it receives. What is sent arrives within 30 seconds or
  the connection is cut. Without that assumption the two loops lose step: a byte that is more
  than 30 seconds late is read as a command line by a server that has gone back to its loop, and
  every later answer is the answer to an earlier command.

What it abstracts: the third byte and the resume point are one message, a sector and its size
are one; disk errors and what stdio buffers, and DOWNLOAD over several commands, are left out
(`FileTransfer` has both for one command); ECHO stands for all commands answered by one line.

What the model shows of the code that nothing in the repository claims or denies, and that a
maintainer should know:

* `session_of = Mixed` is reachable: a client aborts an upload, another client (or the same)
  uploads something else, and the restored `UPLOAD_CONTINUE` starts at the other upload's
  resume point. It ends "Completed" with sectors nobody wrote, or with two clients' sectors.
  `ResumeCovered` and `CompletedIsOwn` say that this is the only way.
* A client that gave up in the backlog leaves its command there. Executed later, an `UPLOAD`
  truncates the file, finds nobody at the handshake, and removes it.
* The farewell of an idle connection is read as the answer to the next command; the client's
  loop goes on over the dead connection, because the end of the stream is not an error.
* After an early return the flag may be set with nothing to restore: the client reconnects
  without being asked.

### Sectors

One sender and one receiver, each on its own platform, whose `long` has the range `LongMax`. A
byte of the source is its position, so the receiver's file `copy` is a function from positions
to positions and a misplaced byte is seen at once.

| variable | in the code |
|---|---|
| `platform` | `LONG_MAX` at each end |
| `len` | what `ftell` finds at the end of the source, each time again |
| `next`, `count` | `next_part_to_send_recv` of the sender (local) and of the receiver (static) |
| `packet` | `send_recv_payload_t` on its way |
| `curr` | the percentage printed last |
| `seen`, `complete`, `extended` | history: the length at the last read; whether a last sector was written; whether the source grew after that and was continued |

The source may grow at any time. Sending and writing alternate here; `FileTransfer` has the
interleavings, and a resume point that does not fit the file (it never arises, `InOrder`).
What it shows and nothing in the repository says:

* an offset that wraps never overwrites anything, because sectors come in order and the first
  one beyond the range has a negative offset, at which `fseek` fails;
* a source longer than the sender's `long` is one sector of a transfer that ends at 100 %;
* a source that grew after a complete transfer, and is then continued, leaves a hole behind
  the short last sector (`extended`).

### Sockets

One process, `program` either of the two, from `Socket_Start` on; `sock` says what has become
of each descriptor, `lists` how many results of `getaddrinfo` are allocated. Each call may
fail. A failed `accept` leads to a session with an invalid socket, on which every call fails.
A failed `socket()` returns past `freeaddrinfo`; the client's reconnection loop can repeat
that, so `lists` grows with `socket_failed`: the one leak, and `NothingLeft` says so.

### UdpUpload

| variable | in the code |
|---|---|
| `client` | where `main` and `sendFile` are, the file, `counter`, what `getData` returned last |
| `server` | the loop of `main` or the loop around `getData`, the file, the dictionary, whether a collected packet cannot be unpacked (`unreadable`), the seconds waited |
| `files` | what `outputStream` has written under each name |
| `toServer`, `toClient` | datagrams and answers under way, as sets: any order |
| `damage` | history: what has gone wrong so far; the properties say what may follow from it |

An index is a sequence of bytes made and read as `BigInteger` does it, with the base `Byte`
and `IndexBytes` as parameters, so the limits of three signed bytes appear at two bits. The
data of a block is a model value; the packets are put into the dictionary when they arrive
and not after the last one, which makes no difference because the order is the same. A
block is always 120 bytes: `UDPClient.java:102` ignores how many were read, so a file is
written with zeros up to a multiple of 120; the model counts blocks and does not see it. The
server's 10 s timeout only prints. A request that comes during an upload is collected like a
block (`Collects`): its letters stand for an index, any of `CommandIndexes`, or, when it is an
ECHO of one or two letters, unpacking it reads `fileData[-1]` and the last datagram ends the
server (`ServerBreaks`). An ECHO whose first byte is 1, or whose words are those of another
command, is left out. `Lose` and a kept copy are faults; reordering and delay
are free.

What the model shows of the code:

* The comment says five seconds, the code waits two and stores a buffer of zeros as block 0
  (the second finding). Block 0 is the only one it can cost.
* The late answer to a `PREPARE` the client has given up is read as the answer to the next
  one, and the blocks that follow are written under the earlier file's name.
* A duplicated `PREPARE` opens an upload nobody feeds, and the server is deaf until the next
  last datagram; requests in between are stored as blocks, may replace one, and may end the
  server.
* Blocks that arrive after the last datagram are echoed, and the client reads the echoes as
  answers to its next requests.
* From block 2^23 on a block is lost, from block 2^24 on it replaces another (`IndexWraps`).
* Only a timeout is caught at the server: a file it cannot open ends it.

### Icmp, PingSwitch and Traceroute

`Icmp` reduces `messageSwitchParsing` to four fields of a packet: its type, the first word of
the echo data (`idRoutineDelta` + routine or hop), the sequence number, and whether it parses
and is long enough. `ReqID` is the number under which it is passed on: the sequence number
for a time-exceeded message, the data for every other.

| `PingSwitch` | in the code |
|---|---|
| `main`, `holding` | `runSwitching` and the deferred calls of `runPing`; the packet in the callback |
| `socket` | the raw socket: it hears every ICMP packet of the host |
| `appNeedClose` | the channel of signals |
| `channel`, `closed` | the channels, and how many the deferred loop has closed (in order) |
| `routine` | each `pingThread`: `transmitted`, the length of `rtt`, other messages printed |
| `sent`, `arrived` | history |

| `Traceroute` | in the code |
|---|---|
| `pc`, `hop` | the loop and its `i` |
| `lines`, `result` | what has been printed: per hop, and at the end |
| `socket`, `appNeedClose` | as above |
| `distance` | the environment's: how many hops away the destination is, 0 for this host |
| `probed`, `arrived` | history |

Each probe is answered once, late, out of order or not at all; a second answer and packets
that other programs provoke are faults. `log.Fatal` is the state `"fatal"`, a negative index
`"panic"`. Times, addresses and the text of the lines are left out; what happens to signals
and packets after `runSwitching` has returned does not matter, because nobody reads them.
That a routine's `select` takes the ticker or the channel is any interleaving of `Tick` and
`Take`.

What the models show:

* an interrupt is noticed only after one more packet, because the read has no deadline
  (`InterruptEnds` has that premise);
* a time-exceeded message about the i-th echo of any routine goes to routine i;
* a reply whose first word is below 234 panics (it must come from another program), a
  message of an unknown type ends the program;
* after one hop that timed out, its late answer is printed for the next hop, and so on: the
  hop number printed is the answer's own, the time is not.

## 3. What the runs check

| run | instance | shows |
|---|---|---|
| `copy` | 5 sectors, resume point at most 2 beyond the end | `Promise` |
| `upload` | 3 sectors, client sends, 3 attempts, 2 faults | all properties below |
| `download` | 3 sectors, client receives, 3 attempts, 2 faults | `AttemptEnds` and `ImplementsCopy`; the invariants are proved for both directions |

* `ResumePointCovered` – as long as the file is there, every sector before the static resume
  point is on the disk, in stdio's buffer or lost to a failed flush, after any aborts, refusals,
  removals and crashes; and there are no more lost sectors than there were faults.
* `CompletedMeansStored` – "Completed" at the receiver means every sector, from however many
  attempts, that no failed flush has taken; after a fresh transfer there is nothing of an older
  file, and only the last sector can be missing, the one `fclose` should have flushed.
* `AckMeansStored` – the line "Completed" that the uploading client reads means that the server
  has received the whole file and stored what the disk has taken, wherever in the unframed
  stream the line was found. (The sender's own result means nothing: file_manage.cpp:141
  shadows `res`, so an aborted sender also prints "Completed".)
* `InOrder` – the receiver is about to read the sector it counts, although it never compares
  the two numbers.
* `Agreement` – both ends in the data phase answered yes and have their file open, although
  the third byte of the handshake is not looked at.
* `HandlesReleased` – only the two "Bad handshake 2" returns leave a file open.
* `AbortKeepsSectors` – nothing in the data phase takes a sector off the disk; what it can cost
  is the sector in stdio's buffer, the last counted, and that takes a crash or a disk error.
* `AttemptEnds` – both ends always come back to where a command can be given.
* `HealthyTransferCompletes` – without further faults, two ends that opened their files
  complete, also when the transfer continues an earlier one.
* `ImplementsCopy` – see above.

| run | instance | shows |
|---|---|---|
| `service` | Windows, 2 clients, 2 names, 2 sectors, 3 connections, 2 commands, 2 faults | the invariants below |
| `service_posix` | Linux, 2 clients, 1 name, 2 sectors, 2 connections, 2 commands, 1 fault | the liveness below, with processes that a send may kill |
| `idle_peer` | 2 connections, 1 command, no fault | that `UntilPeerShutsDown` fails |

* `RestoreKept` – a command to restore survives early returns and failed connects, and its
  client does not end before it has been sent.
* `InStep` – what the server finds in the stream is what it is about to read: a command, the
  second byte, or the very sector it counts of the very upload it executes.
* `AnswersMatch` – the line a client reads was sent for its last command, or is the farewell
  of a server that has left.
* `ResumeCovered`, `CompletedIsOwn` – what `ResumePointCovered` and `CompletedMeansStored` say
  of one file holds for all clients and files that share the static, unless it is `Mixed`.
* `QueuedServed` – nobody in the backlog waits for ever because another client's user does
  nothing. It assumes that users give finitely many commands (`MaxCommands`): one who never
  pauses for 30 seconds does keep the others out.
* `ClientReturns` – a client always gets back to its user, because it sees the end of a stream
  and because the server answers every line, even the empty one.
* `UntilPeerShutsDown` – the comment at sock_thread_handler.cpp:30, violated: the loop also
  ends when the peer is idle for 30 seconds (the finding in `PROJECT.json`).

| run | instance | shows |
|---|---|---|
| `sectors` | sectors of 3 bytes, `long` up to 7 and 31, sources up to 19 bytes, 3 commands | the two below |
| `sockets` | 2 addresses, 6 sockets, 3 starts | `NothingLeft` |
| `udp` | a file of 2 blocks and an empty one, bytes of two values, indexes of two bytes, 2 requests whose letters stand for index 1, 2 faults | `IndexWraps`, `WrittenIsSource`, `AnswersOwn`, `ServerReturns` |
| `udp_wait` | the same, 1 fault | that `WaitsFiveSeconds` fails |
| `ping` | 2 addresses (one is this host), channels of 1, 2 echoes each, 2 answers, 1 fault | the six below |
| `trace` | 3 hops, any distance, 2 packets queued, 1 fault | the four below |

* `NoMisplacedByte` – no offset that wraps puts a byte at another's place.
* `HundredIsWhole` – at 100 % the receiver has the source as it was at the last read, from
  however many attempts; the two exceptions are named in it.
* `NothingLeft` – open sockets are those in use, allocated lists those being walked and those
  a failed `socket()` has left; what a session gets is connected.
* `IndexWraps` – exactly which indexes, and with them the data of their blocks, survive three
  signed bytes, and as what the others come back.
* `WrittenIsSource` – what the server has written, for each kind of damage: reordered and
  doubled blocks cost nothing, a wait only block 0, a loss never misplaces a block.
* `AnswersOwn` – the client reads the answer to its own request unless it has given up on an
  earlier one or the network has changed their order.
* `ServerReturns` – an upload whose last datagram arrives ends, however long its pauses and
  whatever requests it has collected (it may end the server with it).
* `StatsComplete` – no send on a closed channel, nothing lost between the switch and the
  statistics, no routine returns with messages left, the program waits for all.
* `CountedOnce` – each echo reply is counted once and by its own routine, when there is no
  other program and no duplicate.
* `OnlyTimeExceededStrays` – a routine speaks of its host only for packets of its own echoes,
  but for time-exceeded messages.
* `SwitchNotStuck` – a full channel does not stop the switch for ever.
* `InterruptEnds` – an interrupt and one more packet end the program.
* `LinesOwn`, `VerdictTrue` – how far the lines and the verdict of a trace are true when
  answers are late.
* `TraceEnds` – the trace ends although nobody may answer.

Bounds. In `sectors` the offsets of the shorter `long` wrap to negative numbers at byte 8 and
back to positive ones at 16, inside the longest source (160 000 states). In `udp` a file of two
blocks is the longest two bits can number, and the empty one has a last datagram and nothing
else; what becomes of blocks that cannot be numbered is in `IndexWraps`, up to three times the
limit. Two requests let an answer meet a later one and a request be collected as a block; two
faults are a lost and a doubled datagram, in particular (842 000 states, the longest run, two
minutes). In `ping` a channel of one place fills with the second message, while the first is
not taken (831 000 states). In `trace` three hops let an answer be one and two hops late
(147 000 states). `sockets` has 771 states: it is a sequential program in which every
call may fail. All of these end by their bounds or, as the programs do, on their own, so
deadlock is not checked; the leads-to properties say that nothing is stuck before.

Bounds of the service. Three connections let two clients be connected and one of them come back; two commands
and two faults let an abort meet a foreign upload and a failed reconnection. TLC explores about
940 000 states (up to symmetry) and, for liveness, 180 000. The bounds end the system, so
deadlock is not checked; `ClientReturns` and `QueuedServed` say that nothing gets stuck before.

Bounds of the transfer. Three sectors are the fewest with a first, a middle and a last one; three attempts
are a fresh transfer, a continued one and a continuation of that; two faults let an abort be
followed by a crash or a second abort, and a failed `fseek` by a failed `fclose`. TLC explores
about 57 000 states for `upload` and 50 000 for `download`. Deadlock is
not checked in these two runs because the bound on attempts ends the system; that no attempt
gets stuck is `AttemptEnds`.

Fairness. In all runs each process keeps running and its timers expire (weak fairness of each end's
steps, those that consume no fault); nothing is assumed about the user, the network or
crashes. The timeouts are real: `Socket_SetTimeouts` sets `SO_RCVTIMEO` and `SO_SNDTIMEO`
to 30 s on both sockets (custom_sock.cpp:87, TcpServ.cpp:46).

In `udp` both programs run and a datagram that is not lost arrives (weak fairness of the
server's receive); nothing forces a wait to expire or the user to act. In `ping` the
goroutines run (Go preempts them), and a `select` with a message ready does not always
prefer the ticker, because Go chooses at random; packets and interrupts are not forced. In
`trace` the program runs and its deadline passes, `SetReadDeadline` (main.go:397).

Each property has a mutant of a mapped definition in `PROJECT.json`, an operator marked
`Mutant` in the module: a plausible slip (a counter not reset, an off-by-one in `is_last`, a
missing `fclose`, a timeout that is skipped) that TLC catches with that property.

## 4. What is proved

With TLAPS, for every value of the constants that satisfies the named assumption of the
module (`CopyAssumption`, `FileTransferAssumption`, ...: at least one sector, address or hop,
one of the two ends as initiator, bounds that are natural numbers; what else a module
assumes is said below). Every safety property that a run checks is a theorem:

* `CopyProofs!PromiseKept` – `CopySpec => []Promise`. The promise is not inductive: nothing
  in it speaks of the resume point. `CopyInv` adds that what is before the resume point is
  in the copy or lost, that sectors only move into a copy that is there, and that a complete
  copy is closed.
* `FileTransferProofs!TypeCorrect` – `Spec => []TypeOK`. One lemma per helper says what it
  returns (`SendType`, `ReceivedType`, `LineType`, ...); `StepType` has one step per action.

* `FileTransferProofs!Inductive` – `Spec => []IndInv`, and from it `ResumePointHonest`,
  `CompletedIsStored`, `AcknowledgedIsStored`, `StreamInOrder`, `EndsAgree`, `FilesClosed`
  and `AbortsKeepSectors`: all the safety properties of section 3.
* `FileTransferProofs!Implements` – `Spec => ImplementsCopy`: initial states map to
  initial states, and under `IndInv` each action maps to an action of `Copy` or a stutter. It
  is `Buffering` that makes a failed flush a step of `Copy`: what stdio gives up is at most the
  sector before the resume point.

* `ServiceProofs!RestoreIsKept` – `Spec => []RestoreKept`, for any number of clients,
  connections and faults. The invariant adds only the shape of the clients' state: the
  property is inductive because every return but one assigns both variables, and that one
  leaves both alone.
* `ServiceProofs!ServiceTypeCorrect`, `StaysInStep`, `ResumeIsCovered`, `CompletedUploadIsOwn`,
  `AnswersAreMatched` – the other invariants of section 3, under `ServiceAssumption`, on both
  kinds of platform. The argument is below.

* `SectorsProofs!NoByteMisplaced`, `WholeAtHundred` – for any sector size of at least three
  bytes, any set of platforms whose `long` holds a sector, and any lengths
  (`SectorsAssumption`). Neither is inductive: the byte written depends on the offsets of two
  ends, and what 100 % means on which sector was last. `SectorsInv` adds that the sector
  counted is either in range or the first one beyond it (`Counted`), whose offset is therefore
  exact or negative (`OffsetExact`); that a packet under way is the one counted, with the
  amount of the length seen (`InStep`); and that the file is covered exactly up to the count,
  or up to the length seen once a last sector was written (`Covered`). With fewer
  than three bytes the -1 of a failed `ftell` would no longer count as one sector.
* `PingProofs!PingTypeCorrect`, `PingStatsComplete`, `StraysAreTimeExceeded`,
  `RepliesCountedOnce` – for any number of addresses, capacity, strangers and faults
  (`PingAssumption`). `PingInv` adds to the first two properties only where the main goroutine
  can be while channels are being closed (`ClosingRest`). In particular the main goroutine
  never sends on a closed channel, also when the interrupt finds it waiting for a full one.
  `CountedOnce` is an equation between five numbers, so `CountInv` counts by positions:
  that a message moves from one queue to the next changes two of them by one
  (`RepliesIn` of a sequence with its first element taken, or one added).
* `TracerouteProofs!TraceTypeCorrect`, `LinesAreOwn`, `VerdictIsTrue` – for any number of hops,
  any distance, strangers and faults (`TracerouteAssumption`).
* `SocketsProofs!NothingIsLeft`, `AddressesInRange` – for any number of addresses, sockets and
  starts, at least one of each of the first and the last (`SocketsAssumption`).
* `UdpUploadProofs!UdpTypeCorrect`, `IndexesWrap`, `WrittenIsTheSource`, `AnswersAreOwn` – for
  any files and sizes, any network, and any width of an index. `UdpAssumption` asks that a byte has
  an even number of values (256 in the code; the sign bit halves them) and that no file has
  the name of one of the marks the model uses for data that is no file's.

The argument for the transfer. None of the properties is inductive by itself: that the packet about to be
written is the one counted depends on what the sender has sent, that on the resume point it
was told, and that on the bytes of the handshake. `IndInv` (end of `FileTransfer.tla`) says
what can be under way for every pair of places of the two ends:

| part | says |
|---|---|
| `BeforeFirst`, `Offered`, `Confirmed` | the contents of both directions before the first byte, between the first and the third, and until the sender's first packet; which places the peer can then be in |
| `FromZero` | both counters of a fresh transfer are zero until the first packet |
| `Stream` | sizes and packets alternate in sector order, the sender's counter is one beyond the last, as long as the connection lives |
| `Handles`, `NoResultYet`, `ClientReads` | what each end knows of its own file, result and last read |
| `Buffering` | stdio holds at most the sector counted last, and only while one is received; no sector is both on the disk and lost; a fresh transfer has lost none before its last |
| `AnswerTrue` | an answer line "Completed" is under way only when it is true |
| the properties | `ResumePointCovered`, `CompletedMeansStored`, `AckMeansStored`, `InOrder`, `Agreement`, `HandlesReleased` |

The middle part of `FileTransferProofs` restates each action with the queues spelled out (`Added`, `Taken`,
`TakenIn`, ...), so that the lemmas `<Action>Keeps` are first-order;
each has one step per part of the invariant. Two facts carry the rest: after the third byte
nothing but answer lines can follow what was already under way (`AfterAnswer`), and the
packet that is written is the one that was counted (`CountedStored`). The lemmas about the file
say what a flush, done or failed, does to the sectors written and lost; the bound on lost
sectors needs that no step adds more than one, and that this one is a fault (`LostCounts`).

The argument for the service. `InStep` speaks of one connection, but whether it holds depends on
what its client may still send and believes to have been told; and the resume point is shared
with connections whose commands wait in the backlog. `SessionInv` (end of `Service.tla`) adds:

| part | says |
|---|---|
| `Places` | which client has the open end of a connection, which one the server serves; a reset comes from an end that has closed |
| `Streams`: `Script` | what the server has still to read on each connection, served or in the backlog: at most one line, one second byte, or sectors in order from the resume point to at most the last. It holds also after cuts and after the client has gone |
| `Streams`: `Exchange` | on a connection that carries what is sent, where the client can be and what is under way toward it, for each place of the server: before its line is read, in the handshake, in the data, with its answer |
| `Session` | which upload the resume point counts while one is served, that it is 0 in a fresh one, and that the file is there once both have agreed |

`Exchange` is what makes `Script` inductive: a client sends only in the places it names. For
`AnswersMatch` `Lined` adds which lines can be under way to a client: one to its command
while it waits, and otherwise farewells of a server that has left (`Tells`). The lemmas
reduce a step to one connection (`ServerTurn`, `ServerEnds`, `ClientTurn`; `SendsTells`,
`OwnTells`), so that each action has a proof about one connection and its two ends.

The argument for the upload of lab2 has three layers.

*The numbers.* `ToByteArray` divides by `Byte` until the rest fits in one signed byte. What comes
out is as long as the shortest width `n` with `2v < Byte^n`, and has the digits of `v`
(`ToByteArrayDigits`, by induction on the number); the digits give the number back
(`ValueOfDigits`, by induction on their count). So `NumberComesBack` holds for every number,
and `IndexComesBack` says what the first three of its digits are worth with a sign. The model
writes `Byte ^ n` as the recursive function `Power`, because the prover knows nothing of `^`.

*The file.* `Written` appends a block or skips a hole; `WrittenAll` and `WrittenInOrder` say
what comes out when no block is missing, and in any case.

*The invariant* `UploadInv` (in `UdpUploadProofs.tla`). `WrittenIsSource` speaks only of what
is on the disk, which the last datagram decides in one step; so the invariant says what is
collected and under way before it:

| part | says |
|---|---|
| `Shapes` | the types, and the shapes of datagrams and answers; whatever the damage |
| `Turn` | a request is under way, or answered, while its client waits for it, and nothing else answers it; as long as no answer is late and no request doubled or overtaken |
| `Feed` | a client that sends, or may, feeds the upload the server is in; every datagram of an upload under way is a block of that file, or carries its number of blocks |
| `Collected` | every block in the dictionary is in its place; only a gap has put the zeros at 0 |
| `Complete` | without loss, every block sent is under way or in the dictionary, and so is every block of the file when the last datagram is there |

`Calm` (damage that does not touch the requests: none late, doubled, overtaken or collected as a
block) is the hypothesis of all parts but the first:
with a late answer two uploads mix, and nothing is promised.

The argument for the trace. `LinesOwn` and `VerdictTrue` speak of the lines that are printed,
but the answers under way decide what the next one is. `TraceInv` adds: how many hops have been
probed for each place of the loop (`Progress`); that the lines stay behind the hops
(`Behind`); which last line goes with which verdict (`Verdict`); without faults, that each answer
in the socket is to an echo that was sent and no two are to the same, that none is to an echo
that has its line, and that each line is backed by an answer that arrived (`Honest`); and that
undisturbed lines are those of the hops in their order (`InTurn`).

The argument for the sockets. `NothingLeft` is an equation between what is open and what the
program still uses, so `SocketsInv` adds in which state the socket in hand is at each place of `Socket_Start`
(`Starting`) and of the programs (`Running`), and which program can be where (`Roles`).

Induction. The theorems of the library about induction take an operator as a parameter, which the
installed provers cannot instantiate. Where a proof needs it (`UdpUploadProofs`), it uses the
least element of a set of natural numbers (`Least`, from the well-foundedness of `<`), from it
`SetInduction` for a set that has zero and every successor, and `Recursion`: functions that
follow a primitive recursion exist, so a recursive function of the model satisfies its equation.

Only model-checked: liveness (`AttemptEnds`, `HealthyTransferCompletes`, `QueuedServed`,
`ClientReturns`, `ServerReturns`, `SwitchNotStuck`, `InterruptEnds`, `TraceEnds`), which needs
fairness and `ENABLED` and is out of the prover's reach. TLC also checked `IndInv`,
`SessionInv`, `Lined`, `TraceInv`, `SocketsInv` and `UploadInv` before they were proved.

## 5. Plan

Most important first; the parts marked done are described above.

1. `Copy`, `FileTransfer` with their runs and the type invariant (done).
2. The inductive invariant of `FileTransfer`, from it the safety properties of section 3,
   and the step simulation of `Copy` (done).
3. `Service` with its runs, and its invariants as theorems (done). Left: DOWNLOAD over several
   commands.
4. `Sectors` and its two theorems (done).
5. `UdpUpload` and its four theorems (done). Left: an abstract upload it implements when
   nothing is lost.
6. `PingSwitch` and `Traceroute`, and their theorems (done).
7. `Sockets` and its theorems (done).

Theorems worth proving next: action properties that the runs do not check yet, such as that
the resume point of `Service` moves only with a sector that is written.

## 6. Not modelled

* The serializer: a round trip through the external library bitsery, used as the identity on
  the four fields of `packet` in `Sectors`.
* The load speed line (`calc_and_print_res_load`): printed once, read by nobody.
* `WSAStartup` and `WSACleanup`, the arguments of `main_client`, the configuration of lab5 and
  its name resolution: calls before anything interacts, which fail or do not.
* DOWNLOAD over several commands on one connection: `FileTransfer` has one command in both
  directions, `Service` several commands of uploads.
* Commands given on a live connection that still carries bytes of the one before, after a read
  that was more than 30 seconds late or a disk error: the loops then read packets as commands
  and answers of earlier commands. `FileTransfer` gives no command there; `Service` excludes both
  causes.
* The sender's own result of a broken transfer, "Completed" by mistake (file_manage.cpp:143):
  the model has it, and no property can be asked of it.
* The time printed with a late answer in the trace (main.go:402), which is too short: times are
  not modelled.
* `readline` at end of input (console.cpp:11), one sequential loop over the terminal.
* Build files and the sample data of lab2: no behaviour.
