---------------------------- MODULE FileTransfer ----------------------------
(***************************************************************************)
(* One file transfer of lab1 between the two processes that take part in   *)
(* it: execute_upload runs where the file is received, execute_download    *)
(* where it is read, and three_way_handshake_up / _down open them.  The    *)
(* same pair serves both directions: on UPLOAD the client sends and the    *)
(* server receives, on DOWNLOAD the other way round.  The client is the    *)
(* initiator (CONSTANT Initiator): it sends the command line and, when its *)
(* function is over, waits for the server's answer line.                   *)
(*                                                                         *)
(* "up" is the end that runs execute_upload, "down" the end that runs      *)
(* execute_download.  A step is everything an end does between two reads   *)
(* of the socket.                                                          *)
(***************************************************************************)
EXTENDS Integers, Sequences, FiniteSets

CONSTANTS
  NumSectors,   \* sectors of the source file, sector_amount in file_read
  Initiator,    \* "up" for DOWNLOAD, "down" for UPLOAD
  MaxAttempts,  \* bound: commands given
  MaxFaults     \* bound: steps with a cut, crash, early timeout or disk error

ASSUME FileTransferAssumption ==
  /\ NumSectors \in Nat \ {0}
  /\ Initiator \in {"up", "down"}
  /\ MaxAttempts \in Nat
  /\ MaxFaults \in Nat

VARIABLES
  is_continue,    \* the command is UPLOAD_CONTINUE / DOWNLOAD_CONTINUE
  alive,          \* the TCP connection still carries what is sent
  toUp,           \* bytes on their way to execute_upload, as messages
  toDown,         \* bytes on their way to execute_download
  up,             \* execute_upload: where it is, its locals, its result
  down,           \* execute_download: the same, with its local session
  session_next,   \* static session.next_part_to_send_recv of execute_upload
  file,           \* shared/<name> at the receiving end
  received_info,  \* the answer line the client read after the command
  attempts,       \* commands given so far
  faults          \* faults that have happened so far

vars == <<is_continue, alive, toUp, toDown, up, down, session_next, file,
          received_info, attempts, faults>>

Sectors == 0 .. NumSectors - 1

-----------------------------------------------------------------------------
(***************************************************************************)
(* The receiving end's file on the disk: which sectors hold the source's   *)
(* data, and whether bytes of an earlier file of that name may still be in *)
(* it.  lost is history: the sectors that execute_upload has counted, that *)
(* the disk then refused, and that have not been written since.            *)
(***************************************************************************)
Files == [exists : BOOLEAN, written : SUBSET Sectors, lost : SUBSET Sectors,
          leftover : BOOLEAN]

NoFile ==
  [exists |-> FALSE, written |-> {}, lost |-> {}, leftover |-> FALSE]

TruncatedFile ==
  [exists |-> TRUE, written |-> {}, lost |-> {}, leftover |-> FALSE]

EarlierFile ==
  [exists |-> TRUE, written |-> {}, lost |-> {}, leftover |-> TRUE]

\* What a transfer can end with.
Results ==
  {"none", "Completed", "Bad handshake", "Bad handshake 2",
   "Error receiving size", "Error receiving packet", "Error writing",
   "Error reading"}

\* What crosses the connection.  A size is the two bytes sent ahead of a
\* packet; sector names the packet it announces.
Command == [type |-> "command"]
Answer(ok) == [type |-> "answer", ok |-> ok]
LastReceivedNext(n) == [type |-> "last", part |-> n + 1]  \* mutant: one too far
LastReceived(n) == [type |-> "last", part |-> n]
Size(k) == [type |-> "size", sector |-> k]
Packet(k) == [type |-> "packet", sector |-> k]
Reply(r) == [type |-> "reply", res |-> r]

Messages ==
  [type : {"command"}] \cup [type : {"answer"}, ok : BOOLEAN]
    \cup [type : {"last"}, part : Nat]
    \cup [type : {"size", "packet"}, sector : Nat]
    \cup [type : {"reply"}, res : Results \cup {"garbled"}]

\* send: bytes written to a dead connection vanish without an error, until
\* the kernel reports one.
Send(q, m) == IF alive THEN Append(q, m) ELSE q

\* Socket_Recv takes the bytes it asked for.  A read that meets the answer
\* line of the peer takes its first bytes and leaves the rest of the line.
Received(q) ==
  IF Head(q).type = "reply" THEN [q EXCEPT ![1] = Reply("garbled")] ELSE Tail(q)

\* *(bool*) of a received byte; the value of a letter read so is undefined.
AnswerRead(q) == IF Head(q).type = "answer" THEN {Head(q).ok} ELSE BOOLEAN

\* *(uint64_t*) of eight received bytes; eight letters are a number far
\* beyond the last sector.
LastRead(q) == IF Head(q).type = "last" THEN Head(q).part ELSE NumSectors

\* Mutant: the peer's answer is read and forgotten.
AgreedAlone(my, other) == my

\* my_answer &= other_answer
Agreed(my, other) == my /\ other

\* Mutant: the counter is not reset for a fresh upload.
ResumePointKept == session_next

\* Mutant: a continued transfer asks for its last sector again.
ResumePointBack == IF is_continue THEN session_next - 1 ELSE 0

\* The part a transfer starts from at the receiving end.
ResumePoint == IF is_continue THEN session_next ELSE 0

\* Mutant: compares the number of the sector instead of their amount.
IsLastEarly(k) == k + 2 >= NumSectors

\* is_last, computed by the sender from the sector it has just read
IsLast(k) == k + 1 >= NumSectors

\* Mutant: the file is opened anew, with "wb", for every packet.
FlushedAlone(f, s) == [f EXCEPT !.written = s, !.lost = @ \ s]

\* stdio's buffer, which holds the sectors s, reaches the disk.
Flushed(f, s) == [f EXCEPT !.written = @ \cup s, !.lost = @ \ s]

\* The disk refuses it.  stdio gives the buffer up.
Dropped(f, s) == [f EXCEPT !.lost = @ \cup (s \ f.written)]

-----------------------------------------------------------------------------
UpWaiting == up.pc \in {"answer", "size", "packet", "reply"}
DownWaiting == down.pc \in {"first", "confirm", "last", "reply"}

\* An end from which nothing will come before it has received something.
UpSilent == up.pc = "idle" \/ (UpWaiting /\ toUp = <<>>)
DownSilent == down.pc = "idle" \/ (DownWaiting /\ toDown = <<>>)

\* A fault is an event the environment chooses, at most MaxFaults times.
Fault == faults < MaxFaults /\ faults' = faults + 1

\* Mutant: the receive timeout is skipped, as is_skip_recv_timeout asks.
RecvFailsSkipped(q, peerSilent) ==
  \/ q = <<>> /\ ~alive /\ UNCHANGED faults
  \/ Fault

\* Mutant: the 30 of the timeout are taken for microseconds.
RecvFailsAtOnce(q, peerSilent) ==
  \/ q = <<>> /\ UNCHANGED faults
  \/ Fault

\* Socket_Recv gives up: end of stream or reset, a peer that stays silent
\* for the 30 seconds of SO_RCVTIMEO, or (a fault) bytes that are later than
\* that although they are on their way.
RecvFails(q, peerSilent) ==
  \/ q = <<>> /\ (~alive \/ peerSilent) /\ UNCHANGED faults
  \/ Fault

UpRecvFails == RecvFails(toUp, DownSilent) /\ UNCHANGED toUp
DownRecvFails == RecvFails(toDown, UpSilent) /\ UNCHANGED toDown

\* Where an end goes when its function returns.  The server answers and goes
\* back to reading commands.  The client reads the answer line, unless the
\* transfer was aborted and the user agrees to reconnect, which is offered
\* only for the first attempt (sock_client_spec_mode_if_need).
AfterReturn(end, aborted) ==
  IF end # Initiator THEN {"idle"}
  ELSE {"reply"} \cup (IF aborted /\ ~is_continue THEN {"idle"} ELSE {})

\* execute_command sends the result as a line; the client only prints it.
Returned(end, q, res) == IF end # Initiator THEN Send(q, Reply(res)) ELSE q

\* A client that gives up its command loop closes the connection.
StillOpen(end, pc) == alive /\ ~(end = Initiator /\ pc = "idle")

\* execute_upload returns res, after it has sent q.
UpReturn(q, res, aborted, handle) ==
  \E pc \in AfterReturn("up", aborted) :
    /\ up' = [up EXCEPT !.pc = pc, !.handle = handle, !.buffered = {}, !.res = res]
    /\ toDown' = Returned("up", q, res)
    /\ alive' = StillOpen("up", pc)

\* execute_download returns res, after it has sent q.
DownReturn(q, res, aborted, handle) ==
  \E pc \in AfterReturn("down", aborted) :
    /\ down' = [down EXCEPT !.pc = pc, !.handle = handle, !.res = res]
    /\ toUp' = Returned("down", q, res)
    /\ alive' = StillOpen("down", pc)

\* Mutant: the early return forgets the fclose.
UpRefuseOpen(q, f) ==
  /\ UpReturn(q, "Bad handshake", FALSE, up.handle)
  /\ file' \in {NoFile, f}

\* The handshake failed: the file is closed if it was opened, and removed
\* whatever it held before (the result of remove is not looked at).
UpRefuse(q, f) ==
  /\ UpReturn(q, "Bad handshake", FALSE, FALSE)
  /\ file' \in {NoFile, f}

\* fclose flushes what stdio still holds.  Its result is not looked at: the
\* flush may fail, in a step with a disk error, and nobody notices.
Closed(f, s) ==
  {Flushed(f, s)} \cup (IF faults' > faults THEN {Dropped(f, s)} ELSE {})

\* An end that has no transfer to run, in a process that has just started.
UpAtRest == [pc |-> "idle", handle |-> FALSE, my_answer |-> FALSE,
             buffered |-> {}, res |-> "none"]

\* The receiving process is over, and the static session with it.
UpEnds == up' = UpAtRest /\ session_next' = 0

-----------------------------------------------------------------------------
(***************************************************************************)
(* The user's command.  A client that has lost its connection gives it on  *)
(* a new one.  On a connection that is still there it is given when the    *)
(* commands before have left nothing unread in it: what the ends make of   *)
(* bytes they read at any offset, as commands and as answers, is beyond    *)
(* this module.                                                            *)
(***************************************************************************)
GiveCommand ==
  /\ up.pc = "idle" /\ down.pc = "idle"
  /\ alive => toUp = <<>> /\ toDown = <<>>
  /\ attempts < MaxAttempts
  /\ attempts' = attempts + 1
  /\ is_continue' \in BOOLEAN
  /\ alive' = TRUE
  /\ toUp' = IF Initiator = "down" THEN <<Command>> ELSE <<>>
  /\ toDown' = IF Initiator = "up" THEN <<Command>> ELSE <<>>
  /\ up' = [UpAtRest EXCEPT !.pc = "start"]
  /\ down' = [pc |-> "start", handle |-> FALSE, my_answer |-> FALSE,
              next |-> 0, res |-> "none"]
  /\ received_info' = "none"
  /\ UNCHANGED <<session_next, file, faults>>

\* The user disconnects, whatever is still unread; the client's process ends.
HangUp ==
  /\ up.pc = "idle" /\ down.pc = "idle"
  /\ alive
  /\ alive' = FALSE
  /\ toUp' = <<>> /\ toDown' = <<>>
  /\ IF Initiator = "up" THEN UpEnds ELSE UNCHANGED <<up, session_next>>
  /\ UNCHANGED <<is_continue, down, file, received_info, attempts, faults>>

\* execute_upload up to the first byte of the handshake.  fopen may fail; it
\* truncates a file unless the transfer continues one, which must be there.
UpOpen ==
  /\ up.pc = "start"
  /\ Initiator = "down" => toUp # <<>>
  /\ toUp' = IF Initiator = "down" THEN Tail(toUp) ELSE toUp
  /\ session_next' = ResumePoint
  /\ \E opened \in BOOLEAN :
       /\ opened /\ is_continue => file.exists
       /\ LET f == IF opened /\ ~is_continue THEN TruncatedFile ELSE file
          IN \/ /\ toDown' = Send(toDown, Answer(opened))
                /\ up' = [up EXCEPT !.pc = "answer", !.handle = opened,
                                    !.my_answer = opened]
                /\ file' = f
                /\ UNCHANGED alive
             \/ ~alive /\ UpRefuse(toDown, f)
  /\ UNCHANGED <<is_continue, down, received_info, attempts, faults>>

\* The rest of three_way_handshake_up, and send_last_received.
UpAnswer ==
  /\ up.pc = "answer"
  /\ toUp # <<>>
  /\ toUp' = Received(toUp)
  /\ \E other \in AnswerRead(toUp) :
       LET agreed == Agreed(up.my_answer, other)
           sent == Send(toDown, Answer(agreed))
       IN \/ /\ ~agreed
             /\ UpRefuse(sent, file)
          \/ /\ ~alive
             /\ UpRefuse(toDown, file)
          \/ /\ agreed
             /\ toDown' = IF is_continue THEN Send(sent, LastReceived(session_next))
                          ELSE sent
             /\ up' = [up EXCEPT !.pc = "size", !.my_answer = agreed]
             /\ UNCHANGED <<alive, file>>
          \/ /\ agreed /\ is_continue /\ ~alive
             /\ UpReturn(sent, "Bad handshake 2", FALSE, up.handle)
             /\ UNCHANGED file
  /\ UNCHANGED <<is_continue, down, session_next, received_info, attempts, faults>>

UpAnswerLost ==
  /\ up.pc = "answer"
  /\ UpRecvFails
  /\ UpRefuse(toDown, file)
  /\ UNCHANGED <<is_continue, down, session_next, received_info, attempts>>

\* The two bytes of a packet's size.
UpSize ==
  /\ up.pc = "size"
  /\ toUp # <<>>
  /\ toUp' = Received(toUp)
  /\ up' = [up EXCEPT !.pc = "packet"]
  /\ UNCHANGED <<is_continue, alive, toDown, down, session_next, file,
                 received_info, attempts, faults>>

UpSizeLost ==
  /\ up.pc = "size"
  /\ UpRecvFails
  /\ UpReturn(toDown, "Error receiving size", TRUE, FALSE)
  /\ file' \in Closed(file, up.buffered)
  /\ UNCHANGED <<is_continue, down, session_next, received_info, attempts>>

\* A packet.  The fseek to the sector it names flushes the sector before it;
\* fwrite leaves the packet in stdio's buffer, which is larger, and it counts
\* as written.  The last one ends the transfer, and fclose flushes it.  A
\* sector beyond the end of the source is empty.
UpPacket ==
  /\ up.pc = "packet"
  /\ toUp # <<>>
  /\ Head(toUp).type = "packet"
  /\ toUp' = Tail(toUp)
  /\ session_next' = session_next + 1
  /\ LET k == Head(toUp).sector
         f == Flushed(file, up.buffered)
     IN \/ /\ IsLast(k)
           /\ UNCHANGED faults \/ Fault
           /\ UpReturn(toDown, "Completed", FALSE, FALSE)
           /\ file' \in Closed(f, {k} \cap Sectors)
        \/ /\ ~IsLast(k)
           /\ up' = [up EXCEPT !.pc = "size", !.buffered = {k} \cap Sectors]
           /\ file' = f
           /\ UNCHANGED <<alive, toDown, faults>>
  /\ UNCHANGED <<is_continue, down, received_info, attempts>>

\* file_write fails and the transfer is not aborted: the fseek cannot flush
\* the sector before, which has been counted, or else the fwrite fails and
\* only the packet at hand is dropped.
UpWriteError ==
  /\ up.pc = "packet"
  /\ toUp # <<>>
  /\ Head(toUp).type = "packet"
  /\ toUp' = Tail(toUp)
  /\ Fault
  /\ UpReturn(toDown, "Error writing", FALSE, FALSE)
  /\ file' \in {Dropped(file, up.buffered), Flushed(file, up.buffered)}
  /\ UNCHANGED <<is_continue, down, session_next, received_info, attempts>>

\* The packet does not come, or the peer's answer line comes in its place,
\* which is shorter than any packet.
UpPacketLost ==
  /\ up.pc = "packet"
  /\ \/ UpRecvFails
     \/ /\ toUp # <<>>
        /\ Head(toUp).type = "reply"
        /\ toUp' = Tail(toUp)
        /\ UNCHANGED faults \/ Fault
  /\ UpReturn(toDown, "Error receiving packet", TRUE, FALSE)
  /\ file' \in Closed(file, up.buffered)
  /\ UNCHANGED <<is_continue, down, session_next, received_info, attempts>>

-----------------------------------------------------------------------------
\* execute_download up to the first read of the handshake.
DownOpen ==
  /\ down.pc = "start"
  /\ Initiator = "up" => toDown # <<>>
  /\ toDown' = IF Initiator = "up" THEN Tail(toDown) ELSE toDown
  /\ \E opened \in BOOLEAN :
       down' = [down EXCEPT !.pc = "first", !.handle = opened, !.my_answer = opened]
  /\ UNCHANGED <<is_continue, alive, toUp, up, session_next, file,
                 received_info, attempts, faults>>

\* The receiver's answer is read and the common answer sent; the third byte
\* is awaited even when the answer is no.
DownFirst ==
  /\ down.pc = "first"
  /\ toDown # <<>>
  /\ toDown' = Received(toDown)
  /\ \E other \in AnswerRead(toDown) :
       LET agreed == Agreed(down.my_answer, other)
       IN \/ /\ toUp' = Send(toUp, Answer(agreed))
             /\ down' = [down EXCEPT !.pc = "confirm", !.my_answer = agreed]
             /\ UNCHANGED alive
          \/ ~alive /\ DownReturn(toUp, "Bad handshake", FALSE, FALSE)
  /\ UNCHANGED <<is_continue, up, session_next, file, received_info, attempts, faults>>

\* The third byte: it has to come, its value is not looked at.
DownConfirm ==
  /\ down.pc = "confirm"
  /\ toDown # <<>>
  /\ toDown' = Received(toDown)
  /\ \/ /\ down.my_answer
        /\ down' = [down EXCEPT !.pc = IF is_continue THEN "last" ELSE "send"]
        /\ UNCHANGED <<alive, toUp>>
     \/ /\ ~down.my_answer
        /\ DownReturn(toUp, "Bad handshake", FALSE, FALSE)
  /\ UNCHANGED <<is_continue, up, session_next, file, received_info, attempts, faults>>

DownAnswerLost ==
  /\ down.pc \in {"first", "confirm"}
  /\ DownRecvFails
  /\ DownReturn(toUp, "Bad handshake", FALSE, FALSE)
  /\ UNCHANGED <<is_continue, up, session_next, file, received_info, attempts>>

\* get_last_received
DownLast ==
  /\ down.pc = "last"
  /\ toDown # <<>>
  /\ toDown' = Received(toDown)
  /\ down' = [down EXCEPT !.pc = "send", !.next = LastRead(toDown)]
  /\ UNCHANGED <<is_continue, alive, toUp, up, session_next, file,
                 received_info, attempts, faults>>

\* The return leaves the file open.
DownLastLost ==
  /\ down.pc = "last"
  /\ DownRecvFails
  /\ DownReturn(toUp, "Bad handshake 2", FALSE, down.handle)
  /\ UNCHANGED <<is_continue, up, session_next, file, received_info, attempts>>

\* One turn of the sending loop: file_read, the size, the packet.
DownSend ==
  /\ down.pc = "send"
  /\ LET k == down.next
         sent == Send(Send(toUp, Size(k)), Packet(k))
     IN \/ /\ IsLast(k)
           /\ DownReturn(sent, "Completed", FALSE, FALSE)
        \/ /\ ~IsLast(k)
           /\ toUp' = sent
           /\ down' = [down EXCEPT !.next = k + 1]
           /\ UNCHANGED alive
  /\ UNCHANGED <<is_continue, toDown, up, session_next, file, received_info,
                 attempts, faults>>

\* A send fails, on a dead connection or after the 30 seconds of SO_SNDTIMEO.
\* The result that is returned is the outer "res", still "Completed".
DownSendFails ==
  /\ down.pc = "send"
  /\ (~alive /\ UNCHANGED faults) \/ Fault
  /\ \E q \in {toUp, Send(toUp, Size(down.next))} :
       DownReturn(q, "Completed", TRUE, FALSE)
  /\ UNCHANGED <<is_continue, toDown, up, session_next, file, received_info, attempts>>

\* file_read fails: the loop ends without an abort.
DownReadError ==
  /\ down.pc = "send"
  /\ Fault
  /\ DownReturn(toUp, "Error reading", FALSE, FALSE)
  /\ UNCHANGED <<is_continue, toDown, up, session_next, file, received_info, attempts>>

-----------------------------------------------------------------------------
(***************************************************************************)
(* The client reads a line (Socket_RecvEndLine).  The answer line may have *)
(* unread bytes before it, and any byte of a number or of a packet may be  *)
(* the newline that ends the line too early.                               *)
(***************************************************************************)
LineEnds(q) ==
  {n \in 1 .. Len(q) :
     /\ q[n].type \in {"reply", "last", "size", "packet"}
     /\ \A i \in 1 .. n - 1 : q[i].type # "reply"}

Line(q, n) == IF n = 1 /\ q[1].type = "reply" THEN q[1].res ELSE "garbled"

NoLine(q) == \A i \in DOMAIN q : q[i].type # "reply"

UpReadReply ==
  /\ up.pc = "reply"
  /\ \E n \in LineEnds(toUp) :
       /\ received_info' = Line(toUp, n)
       /\ toUp' = SubSeq(toUp, n + 1, Len(toUp))
  /\ up' = [up EXCEPT !.pc = "idle"]
  /\ UNCHANGED <<is_continue, alive, toDown, down, session_next, file, attempts, faults>>

\* No line: the client leaves its command loop, and its process ends.
UpReplyLost ==
  /\ up.pc = "reply"
  /\ NoLine(toUp)
  /\ RecvFails(<<>>, DownSilent)
  /\ toUp' = <<>>
  /\ UpEnds
  /\ alive' = FALSE
  /\ UNCHANGED <<is_continue, toDown, down, file, received_info, attempts>>

DownReadReply ==
  /\ down.pc = "reply"
  /\ \E n \in LineEnds(toDown) :
       /\ received_info' = Line(toDown, n)
       /\ toDown' = SubSeq(toDown, n + 1, Len(toDown))
  /\ down' = [down EXCEPT !.pc = "idle"]
  /\ UNCHANGED <<is_continue, alive, toUp, up, session_next, file, attempts, faults>>

DownReplyLost ==
  /\ down.pc = "reply"
  /\ NoLine(toDown)
  /\ RecvFails(<<>>, UpSilent)
  /\ toDown' = <<>>
  /\ down' = [down EXCEPT !.pc = "idle"]
  /\ alive' = FALSE
  /\ UNCHANGED <<is_continue, toUp, up, session_next, file, received_info, attempts>>

\* The server never sees the command: its connection ended before.
NoCommand ==
  /\ ~alive
  /\ \/ /\ Initiator = "down" /\ up.pc = "start" /\ toUp = <<>>
        /\ up' = [up EXCEPT !.pc = "idle"]
        /\ UNCHANGED down
     \/ /\ Initiator = "up" /\ down.pc = "start" /\ toDown = <<>>
        /\ down' = [down EXCEPT !.pc = "idle"]
        /\ UNCHANGED up
  /\ UNCHANGED <<is_continue, alive, toUp, toDown, session_next, file,
                 received_info, attempts, faults>>

-----------------------------------------------------------------------------
Prefixes(q) == {SubSeq(q, 1, n) : n \in 0 .. Len(q)}

\* The network gives up: of what is on its way only a prefix arrives.
Cut ==
  /\ alive \/ toUp # <<>> \/ toDown # <<>>
  /\ Fault
  /\ alive' = FALSE
  /\ toUp' \in Prefixes(toUp)
  /\ toDown' \in Prefixes(toDown)
  /\ UNCHANGED <<is_continue, up, down, session_next, file, received_info, attempts>>

\* The receiving process dies.  The static session dies with it, and so does
\* the sector that stdio still holds.
UpCrash ==
  /\ Fault
  /\ alive' = FALSE
  /\ toUp' = <<>>
  /\ toDown' \in Prefixes(toDown)
  /\ UpEnds
  /\ UNCHANGED <<is_continue, down, file, received_info, attempts>>

\* The sending process dies.
DownCrash ==
  /\ Fault
  /\ alive' = FALSE
  /\ toUp' \in Prefixes(toUp)
  /\ toDown' = <<>>
  /\ down' = [down EXCEPT !.pc = "idle", !.handle = FALSE, !.res = "none"]
  /\ UNCHANGED <<is_continue, up, session_next, file, received_info, attempts>>

-----------------------------------------------------------------------------
UpStep ==
  \/ UpOpen \/ UpAnswer \/ UpAnswerLost \/ UpSize \/ UpSizeLost
  \/ UpPacket \/ UpWriteError \/ UpPacketLost \/ UpReadReply \/ UpReplyLost

DownStep ==
  \/ DownOpen \/ DownFirst \/ DownConfirm \/ DownAnswerLost \/ DownLast
  \/ DownLastLost \/ DownSend \/ DownSendFails \/ DownReadError
  \/ DownReadReply \/ DownReplyLost

Init ==
  /\ is_continue = FALSE
  /\ alive = FALSE
  /\ toUp = <<>> /\ toDown = <<>>
  /\ up = UpAtRest
  /\ down = [pc |-> "idle", handle |-> FALSE, my_answer |-> FALSE,
             next |-> 0, res |-> "none"]
  /\ session_next = 0
  /\ file \in {NoFile, EarlierFile}
  /\ received_info = "none"
  /\ attempts = 0 /\ faults = 0

Next ==
  \/ GiveCommand \/ HangUp \/ UpStep \/ DownStep \/ NoCommand
  \/ Cut \/ UpCrash \/ DownCrash

\* Each process keeps running and its timers keep expiring: nothing is
\* assumed of the user or of the faults.
Fairness ==
  /\ WF_vars(UNCHANGED faults /\ UpStep)
  /\ WF_vars(UNCHANGED faults /\ DownStep)
  /\ WF_vars(NoCommand)

Spec == Init /\ [][Next]_vars

FairSpec == Spec /\ Fairness

-----------------------------------------------------------------------------
(***************************************************************************)
(* Properties                                                              *)
(***************************************************************************)
UpPCs == {"idle", "start", "answer", "size", "packet", "reply"}
DownPCs == {"idle", "start", "first", "confirm", "last", "send", "reply"}

TypeOK ==
  /\ is_continue \in BOOLEAN
  /\ alive \in BOOLEAN
  /\ toUp \in Seq(Messages)
  /\ toDown \in Seq(Messages)
  /\ up \in [pc : UpPCs, handle : BOOLEAN, my_answer : BOOLEAN,
             buffered : SUBSET Sectors, res : Results]
  /\ down \in [pc : DownPCs, handle : BOOLEAN, my_answer : BOOLEAN,
               next : Nat, res : Results]
  /\ session_next \in Nat
  /\ file \in Files
  /\ received_info \in Results \cup {"garbled"}
  /\ attempts \in 0 .. MaxAttempts
  /\ faults \in 0 .. MaxFaults

UpMoving == up.pc \in {"size", "packet"}
DownMoving == down.pc \in {"confirm", "last", "send"}

\* Every sector is on the disk, but for those the disk refused.
Arrived(f) == f.exists /\ Sectors \subseteq f.written \cup f.lost

\* The resume point is honest up to disk errors: whatever aborts, refusals,
\* removals and crashes have happened to the transfers of a file, as long as
\* the file is there every sector before the static next_part_to_send_recv is
\* in it, in stdio's buffer or lost to a failed flush, and every lost sector
\* has cost one such failure.  A continued transfer leaves no other hole
\* (file_manage.cpp:22-26, 41, 96, 217-231).
ResumePointCovered ==
  /\ file.exists => \A i \in Sectors :
       i < session_next => i \in file.written \cup up.buffered \cup file.lost
  /\ Cardinality(file.lost) <= faults

\* A transfer that ends "Completed" at the receiving end has every sector of
\* the source in the file that no failed flush has taken from it, over however
\* many attempts they came.  A fresh one has nothing of an earlier file in it,
\* and can miss at most its last sector: any other would have ended it with an
\* error, while fclose fails unseen (file_manage.cpp:14, 53-96).
CompletedMeansStored ==
  up.res = "Completed" =>
    /\ Arrived(file)
    /\ ~is_continue => ~file.leftover /\ file.lost \subseteq {NumSectors - 1}

\* On UPLOAD the line "Completed" that the client reads means that the server
\* has received the whole file, and has stored all of it that the disk has
\* taken (sock_thread_handler.cpp:108-121, 231-236), however late, partial or
\* out of step the bytes before that line were, on a connection that carried
\* nothing left over when the command was given.
AckMeansStored ==
  Initiator = "down" /\ received_info = "Completed" => Arrived(file)

\* The receiver counts sectors (next_part_to_send_recv++) and never compares
\* its count with the sector number in the packet: what it is about to read
\* is nevertheless always the sector it counts, even after a resume, and
\* never the third byte or the resume point of the handshake.
InOrder ==
  /\ up.pc = "size" /\ Len(toUp) > 0
       => toUp[1].type = "reply" \/ toUp[1] = Size(session_next)
  /\ up.pc = "packet" /\ Len(toUp) > 0
       => toUp[1].type = "reply" \/ toUp[1] = Packet(session_next)

\* The three bytes of the handshake bring both ends to the same answer: a
\* receiver in the data phase and a sender past its first read agree, and
\* both have their file open (handshake.cpp:5-54).
Agreement ==
  UpMoving /\ DownMoving
    => /\ up.my_answer /\ down.my_answer
       /\ up.handle /\ down.handle

\* Every return but "Bad handshake 2" closes the file it opened
\* (file_manage.cpp:31-34, 96, 114-117, 161; not 41-45 and 121-125).
HandlesReleased ==
  /\ up.pc \in {"idle", "reply"} /\ up.handle => up.res = "Bad handshake 2"
  /\ down.pc \in {"idle", "reply"} /\ down.handle => down.res = "Bad handshake 2"

\* Nothing that happens to a transfer in its data phase, an error, a timeout,
\* an answer line or a crash, costs a sector that is on the disk.  What it can
\* cost is the one sector in stdio's buffer, the last counted, and that only by
\* a crash or a disk error.
AbortKeepsSectors ==
  [][UpMoving /\ up' # up
       => /\ file'.exists /\ file.written \subseteq file'.written
          /\ up.buffered \subseteq {session_next - 1}
          /\ \/ up.buffered \subseteq file'.written \cup up'.buffered
             \/ faults' > faults]_vars

\* Whatever is lost or late, both ends come back to where a new command can
\* be given: no end waits for the other for ever (SO_RCVTIMEO on both sides,
\* custom_sock.cpp:214, TcpServ.cpp:46, custom_sock.cpp:87).
AttemptEnds ==
  (up.pc # "idle" \/ down.pc # "idle") ~> (up.pc = "idle" /\ down.pc = "idle")

\* Once no more faults come, two ends that could both open their file and
\* still have a connection complete the transfer, also one that continues
\* what earlier attempts left behind.
HealthyTransferCompletes ==
  (/\ faults = MaxFaults /\ alive
   /\ up.pc = "answer" /\ up.handle
   /\ down.pc = "first" /\ down.handle)
     ~> (up.res = "Completed" /\ up.pc # "packet")

-----------------------------------------------------------------------------
(***************************************************************************)
(* Seen from the receiving end's file, all of this is a Copy.              *)
(***************************************************************************)
CopyPhase ==
  CASE up.pc = "answer" -> "offered"
    [] up.pc \in {"size", "packet"} -> "moving"
    [] OTHER -> "closed"

Abstraction ==
  INSTANCE Copy WITH copy <- Flushed(file, up.buffered),
                     resume <- session_next, phase <- CopyPhase,
                     complete <- (up.res = "Completed")

\* The transfer implements Copy, which takes what stdio holds as written: no
\* interleaving of the two ends, no loss, no crash and no failed flush does
\* anything to the file that Copy does not allow.
ImplementsCopy == Abstraction!CopySpec

-----------------------------------------------------------------------------
(***************************************************************************)
(* Why it holds: an inductive invariant, in named parts.                   *)
(***************************************************************************)
UpAhead == up.pc \in {"answer", "size", "packet"}

\* The result is set by the return and by nothing before it.
NoResultYet == up.pc \notin {"idle", "reply"} => up.res = "none"

\* Only the client reads an answer line.
ClientReads ==
  /\ up.pc = "reply" => Initiator = "up"
  /\ down.pc = "reply" => Initiator = "down"

\* What the two ends know of their own files.
Handles ==
  /\ up.pc = "start" => ~up.handle
  /\ down.pc = "start" => ~down.handle
  /\ UpAhead /\ up.handle => file.exists /\ (~is_continue => ~file.leftover)
  /\ up.pc = "answer" => up.my_answer = up.handle
  /\ UpMoving => up.my_answer /\ up.handle
  /\ down.pc = "first" => down.my_answer = down.handle
  /\ down.pc = "confirm" /\ down.my_answer => down.handle
  /\ down.pc \in {"last", "send"} => down.my_answer /\ down.handle

\* Before the receiver's first byte nothing but a command or an early
\* answer line can be under way.
BeforeFirst ==
  up.pc = "start" =>
    /\ down.pc \in {"start", "first", "idle", "reply"}
    /\ Initiator = "down" =>
         /\ Len(toUp) <= 1 /\ Len(toDown) = 0
         /\ \A i \in 1 .. Len(toUp) : toUp[i] = Command
    /\ Initiator = "up" =>
         /\ \A i \in 1 .. Len(toUp) : toUp[i].type = "reply"
         /\ down.pc \in {"start", "first"} => Len(toUp) = 0
         /\ down.pc = "start" =>
              /\ Len(toDown) <= 1 /\ (alive => Len(toDown) = 1)
              /\ \A i \in 1 .. Len(toDown) : toDown[i] = Command
         /\ down.pc = "first" => Len(toDown) = 0

\* stdio holds at most the sector counted last, while one is received, and
\* the disk has not got what it refused.
Buffering ==
  /\ up.buffered \subseteq {session_next - 1}
  /\ up.buffered # {} => UpMoving
  /\ file.written \cap file.lost = {}
  /\ UpAhead /\ up.handle /\ ~is_continue => file.lost = {}

\* While the receiver waits for the sender's answer.
Offered ==
  up.pc = "answer" =>
    /\ down.pc \in {"start", "first", "confirm", "idle", "reply"}
    /\ \A i \in 1 .. Len(toUp) :
         toUp[i].type = "reply" \/ (i = 1 /\ toUp[i].type = "answer")
    /\ down.pc = "start" =>
         /\ Len(toUp) = 0
         /\ Len(toDown) <= IF Initiator = "up" THEN 2 ELSE 1
         /\ Initiator = "up" /\ Len(toDown) > 0 => toDown[1] = Command
         /\ \A i \in 1 .. Len(toDown) :
              toDown[i] \in {Command, Answer(up.my_answer)}
    /\ down.pc = "first" =>
         /\ Len(toUp) = 0 /\ Len(toDown) <= 1
         /\ \A i \in 1 .. Len(toDown) :
              toDown[i] \in {Command, Answer(up.my_answer)}
    /\ down.pc = "confirm" =>
         /\ Len(toDown) = 0 /\ Len(toUp) <= 1
         /\ \A i \in 1 .. Len(toUp) : toUp[i] = Answer(down.my_answer)

\* From the receiver's confirmation to the sender's first packet.
Confirmed ==
  UpMoving =>
    /\ down.pc \notin {"start", "first"}
    /\ down.pc \in {"confirm", "last"} =>
         /\ up.pc = "size" /\ Len(toUp) = 0
         /\ \A i \in 1 .. Len(toDown) :
              \/ i = 1 /\ down.pc = "confirm" /\ toDown[i].type = "answer"
              \/ toDown[i] = LastReceived(session_next)
         /\ down.pc = "confirm" /\ Len(toDown) > 0 => toDown[1].type = "answer"
    /\ down.pc = "last" => is_continue
    /\ down.pc = "confirm" /\ ~is_continue => session_next = 0

FromZero ==
  /\ up.pc = "answer" /\ ~is_continue => session_next = 0
  /\ down.pc \in {"start", "first", "confirm", "last"} => down.next = 0

\* Sizes and packets alternate in sector order, and the sender's counter is
\* one beyond the last of them.
Stream ==
  UpMoving =>
    /\ \A i \in 1 .. Len(toUp) - 1 :
         /\ toUp[i].type = "size" =>
              toUp[i + 1].type = "reply" \/ toUp[i + 1] = Packet(toUp[i].sector)
         /\ toUp[i].type = "packet" =>
              toUp[i + 1].type = "reply" \/ toUp[i + 1] = Size(toUp[i].sector + 1)
    /\ alive /\ down.pc = "send" =>
         IF Len(toUp) = 0 THEN up.pc = "size" /\ session_next = down.next
         ELSE toUp[Len(toUp)] = Packet(down.next - 1)

\* On UPLOAD an answer line "Completed" is only ever under way when it is true.
AnswerTrue ==
  Initiator = "down" =>
    /\ \A i \in 1 .. Len(toDown) :
         toDown[i].type = "reply" =>
           /\ up.pc = "idle"
           /\ toDown[i].res = "Completed" => Arrived(file)
    /\ received_info = "Completed" => up.pc = "idle"

IndInv ==
  /\ TypeOK /\ NoResultYet /\ ClientReads /\ Handles /\ Buffering
  /\ BeforeFirst /\ Offered /\ Confirmed /\ FromZero /\ Stream /\ AnswerTrue
  /\ ResumePointCovered /\ CompletedMeansStored /\ AckMeansStored
  /\ InOrder /\ Agreement /\ HandlesReleased
=============================================================================
