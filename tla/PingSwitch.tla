----------------------------- MODULE PingSwitch -----------------------------
(***************************************************************************)
(* The ping mode of lab5/main.go: one goroutine per address sends an echo  *)
(* every second, the main goroutine (runSwitching) reads every ICMP packet *)
(* of the host and passes it to the routine it belongs to over a channel   *)
(* of switchBuffSize places.  An interrupt closes the channels and waits   *)
(* for the routines, which print their statistics.                         *)
(***************************************************************************)
EXTENDS Icmp, Sequences, FiniteSets

CONSTANTS
  N,               \* number of addresses, len(addr)
  switchBuffSize,  \* capacity of a channel
  Local,           \* routines that ping this very host: it sees their echoes too
  Strangers,       \* ICMP packets of other programs that may arrive
  MaxTicks,        \* bound: echoes each routine sends
  MaxArrivals,     \* bound: different answers that reach the host
  MaxFaults        \* bound: duplicated answers, packets of strangers, failed calls

Routines == 0 .. N - 1

ASSUME PingAssumption ==
  /\ N \in Nat \ {0}
  /\ switchBuffSize \in Nat \ {0}
  /\ Local \subseteq Routines
  /\ Strangers \subseteq Packets
  /\ MaxTicks \in Nat
  /\ MaxArrivals \in Nat
  /\ MaxFaults \in Nat

VARIABLES
  main,          \* where the main goroutine is, or how the process ended
  holding,       \* the packet it is handing over
  socket,        \* packets in the raw socket
  appNeedClose,  \* a signal is in the channel of signals
  closed,        \* how many channels the deferred loop has closed
  channel,       \* the channel of each routine
  routine,       \* each goroutine: pc, transmitted, the length of rtt, and
                 \*   how many other messages it has printed
  sent,          \* history: messages put into each channel
  arrived,       \* history: packets that reached the host
  faults         \* bound

vars == <<main, holding, socket, appNeedClose, closed, channel, routine, sent,
          arrived, faults>>

mainVars == <<main, holding, socket, appNeedClose, closed, sent>>

Running == main \notin {"ended", "fatal", "panic"}

Goroutines ==
  [pc : {"dial", "run", "done"}, transmitted : Nat, rtt : Nat, other : Nat]

NoPacket == Packet("Other", 0, 0, "bad")

Started == [pc |-> "dial", transmitted |-> 0, rtt |-> 0, other |-> 0]

Init ==
  /\ main = "poll"
  /\ holding = NoPacket
  /\ socket = <<>>
  /\ appNeedClose = FALSE
  /\ closed = 0
  /\ channel = [i \in Routines |-> <<>>]
  /\ routine = [i \in Routines |-> Started]
  /\ sent = [i \in Routines |-> 0]
  /\ arrived = {}
  /\ faults = 0

-----------------------------------------------------------------------------
(* The main goroutine *)

\* The select at the top of runSwitching: the interrupt is seen only here.
Poll ==
  /\ main = "poll"
  /\ IF appNeedClose
       THEN main' = "closing" /\ appNeedClose' = FALSE
       ELSE main' = "read" /\ UNCHANGED appNeedClose
  /\ UNCHANGED <<holding, socket, closed, channel, routine, sent, arrived, faults>>

\* Mutant: the number is compared with <=.
AfterReadWide(p) ==
  IF Fatal(p) THEN "fatal"
  ELSE IF Unwaited(p) \/ ReqID(p) > N THEN "poll"
  ELSE IF ReqID(p) < 0 THEN "panic"
  ELSE "send"

\* What becomes of a packet before it is sent: log.Fatal, an unwaited length,
\* an index below zero, a number no channel has.
AfterRead(p) ==
  IF Fatal(p) THEN "fatal"
  ELSE IF Unwaited(p) \/ ReqID(p) >= N THEN "poll"
  ELSE IF ReqID(p) < 0 THEN "panic"
  ELSE "send"

\* ReadFrom has no deadline: it waits for a packet.  The scope of the packet ends
\* with the turn of the loop.
ReadFrom ==
  /\ main = "read"
  /\ socket # <<>>
  /\ socket' = Tail(socket)
  /\ main' = AfterRead(Head(socket))
  /\ holding' = IF main' = "send" THEN Head(socket) ELSE NoPacket
  /\ UNCHANGED <<appNeedClose, closed, channel, routine, sent, arrived, faults>>

\* The callback of runPing; the send waits while the channel is full, and would
\* panic on a closed one.
Send ==
  /\ main = "send"
  /\ LET i == ReqID(holding) IN
       /\ Len(channel[i]) < switchBuffSize
       /\ channel' = [channel EXCEPT ![i] = Append(@, holding)]
       /\ sent' = [sent EXCEPT ![i] = @ + 1]
       /\ main' = IF i < closed THEN "panic" ELSE "poll"
  /\ holding' = NoPacket
  /\ UNCHANGED <<socket, appNeedClose, closed, routine, arrived, faults>>

\* Mutant: the last channel is not closed.
CloseAllButLast ==
  /\ main = "closing"
  /\ closed' = closed + 1
  /\ main' = IF closed + 2 >= N THEN "waiting" ELSE "closing"
  /\ UNCHANGED <<holding, socket, appNeedClose, channel, routine, sent, arrived, faults>>

\* The deferred calls run last in, first out: the channels are closed, then the
\* routines are waited for.
Close ==
  /\ main = "closing"
  /\ closed' = closed + 1
  /\ main' = IF closed + 1 = N THEN "waiting" ELSE "closing"
  /\ UNCHANGED <<holding, socket, appNeedClose, channel, routine, sent, arrived, faults>>

WaitEnds ==
  /\ main = "waiting"
  /\ \A i \in Routines : routine[i].pc = "done"
  /\ main' = "ended"
  /\ UNCHANGED <<holding, socket, appNeedClose, closed, channel, routine, sent,
                 arrived, faults>>

-----------------------------------------------------------------------------
(* pingThread *)

Dial(i) ==
  /\ Running
  /\ routine[i].pc = "dial"
  /\ routine' = [routine EXCEPT ![i].pc = "run"]
  /\ UNCHANGED <<mainVars, channel, arrived, faults>>

\* net.Dial or conn.Write reports an error: log.Fatal ends the process.
CallFails(i) ==
  /\ Running
  /\ routine[i].pc # "done"
  /\ faults < MaxFaults
  /\ faults' = faults + 1
  /\ main' = "fatal"
  /\ UNCHANGED <<holding, socket, appNeedClose, closed, channel, routine, sent, arrived>>

Tick(i) ==
  /\ Running
  /\ routine[i].pc = "run"
  /\ routine[i].transmitted < MaxTicks
  /\ routine' = [routine EXCEPT ![i].transmitted = @ + 1]
  /\ UNCHANGED <<mainVars, channel, arrived, faults>>

\* Mutant: the looped-back echo of a local address counts as an answer.
CountsAnyEcho(p) == p.type \in {"Echo", "EchoReply"}

\* Only an echo reply adds to rtt; the other messages are printed.
Counts(p) == p.type = "EchoReply"

\* Mutant: a routine gives up at the first message that is no reply.
TakeOrGiveUp(i) ==
  /\ Running
  /\ routine[i].pc = "run"
  /\ channel[i] # <<>>
  /\ channel' = [channel EXCEPT ![i] = Tail(@)]
  /\ routine' = [routine EXCEPT
       ![i].rtt = IF Counts(Head(channel[i])) THEN @ + 1 ELSE @,
       ![i].other = IF Counts(Head(channel[i])) THEN @ ELSE @ + 1,
       ![i].pc = IF Counts(Head(channel[i])) THEN @ ELSE "done"]
  /\ UNCHANGED <<mainVars, arrived, faults>>

Take(i) ==
  /\ Running
  /\ routine[i].pc = "run"
  /\ channel[i] # <<>>
  /\ channel' = [channel EXCEPT ![i] = Tail(@)]
  /\ routine' = [routine EXCEPT
       ![i].rtt = IF Counts(Head(channel[i])) THEN @ + 1 ELSE @,
       ![i].other = IF Counts(Head(channel[i])) THEN @ ELSE @ + 1]
  /\ UNCHANGED <<mainVars, arrived, faults>>

\* Mutant: a routine ends as soon as its channel is closed.
SeesCloseAtOnce(i) == i < closed

\* A closed channel still delivers what is in it; ok is FALSE only after that.
SeesClose(i) == i < closed /\ channel[i] = <<>>

\* The routine returns: printStats takes no transmission for one.
Return(i) ==
  /\ Running
  /\ routine[i].pc = "run"
  /\ SeesClose(i)
  /\ routine' = [routine EXCEPT ![i].pc = "done",
                   ![i].transmitted = IF @ = 0 THEN 1 ELSE @]
  /\ UNCHANGED <<mainVars, channel, arrived, faults>>

-----------------------------------------------------------------------------
(* The host and the network.  What comes after runSwitching has returned is of no
   effect: nobody reads the signals and the socket again. *)

Switching == main \in {"poll", "read", "send"}

Interrupt ==
  /\ Switching
  /\ ~appNeedClose
  /\ appNeedClose' = TRUE
  /\ UNCHANGED <<main, holding, socket, closed, channel, routine, sent, arrived, faults>>

Answers(i, s) ==
  {Packet(t, i + idRoutineDelta, s, "whole") :
     t \in {"EchoReply", "DestUnreach", "TimeExceeded"}
           \cup (IF i \in Local THEN {"Echo"} ELSE {})}
  \cup {Packet("DestUnreach", i + idRoutineDelta, s, "short")}

\* A probe is answered once, and its own echo comes by once.
Answered(p) ==
  \E q \in arrived : /\ q.word = p.word /\ q.seq = p.seq
                     /\ (q.type = "Echo") = (p.type = "Echo")

\* Answers come in any order or not at all; a second one is a fault.
Arrive(i) ==
  /\ Switching
  /\ routine[i].pc = "run"
  /\ \E s \in 1 .. routine[i].transmitted : \E p \in Answers(i, s) :
       /\ IF Answered(p)
            THEN faults < MaxFaults /\ faults' = faults + 1
            ELSE Cardinality(arrived) < MaxArrivals /\ UNCHANGED faults
       /\ socket' = Append(socket, p)
       /\ arrived' = arrived \cup {p}
  /\ UNCHANGED <<main, holding, appNeedClose, closed, channel, routine, sent>>

StrangerArrives ==
  /\ Switching
  /\ faults < MaxFaults
  /\ faults' = faults + 1
  /\ \E p \in Strangers : socket' = Append(socket, p)
  /\ UNCHANGED <<main, holding, appNeedClose, closed, channel, routine, sent, arrived>>

-----------------------------------------------------------------------------
MainStep == Poll \/ ReadFrom \/ Send \/ Close \/ WaitEnds

RoutineStep(i) == Dial(i) \/ Take(i) \/ Return(i)

Next ==
  \/ Poll \/ ReadFrom \/ Send \/ Close \/ WaitEnds
  \/ \E i \in Routines :
       Dial(i) \/ CallFails(i) \/ Tick(i) \/ Take(i) \/ Return(i) \/ Arrive(i)
  \/ Interrupt
  \/ StrangerArrives

Spec == Init /\ [][Next]_vars

\* Goroutines run, and a select that always finds a message does not for ever
\* prefer the ticker to it: Go chooses among the ready cases at random.
FairSpec ==
  /\ Spec
  /\ WF_vars(MainStep)
  /\ \A i \in Routines : WF_vars(RoutineStep(i))

-----------------------------------------------------------------------------
TypeOK ==
  /\ main \in {"poll", "read", "send", "closing", "waiting", "ended", "fatal", "panic"}
  /\ holding \in Packets
  /\ main = "send" => ReqID(holding) \in Routines
  /\ socket \in Seq(Packets)
  /\ appNeedClose \in BOOLEAN
  /\ closed \in 0 .. N
  /\ channel \in [Routines -> Seq(Packets)]
  /\ \A i \in Routines : Len(channel[i]) <= switchBuffSize
  /\ routine \in [Routines -> Goroutines]
  /\ sent \in [Routines -> Nat]
  /\ arrived \in SUBSET Packets
  /\ faults \in 0 .. MaxFaults

\* The close comes after the last send, although the main goroutine can be stuck
\* in a send when the interrupt comes.
NoSendAfterClose == closed > 0 => main \in {"closing", "waiting", "ended", "fatal"}

\* Nothing that was handed over is lost between the main goroutine and a
\* routine's statistics.
NothingDropped ==
  \A i \in Routines :
    sent[i] = routine[i].rtt + routine[i].other + Len(channel[i])

\* The statistics of a routine that has returned count every message it was sent,
\* and the process ends normally only after every routine has printed them.
StatsComplete ==
  /\ NoSendAfterClose
  /\ NothingDropped
  /\ \A i \in Routines : routine[i].pc = "done" => channel[i] = <<>> /\ i < closed
  /\ main = "ended" => \A i \in Routines : routine[i].pc = "done"

IsReplyTo(p, i) == p.type = "EchoReply" /\ p.word = i + idRoutineDelta

RepliesIn(seq, i) == Cardinality({k \in DOMAIN seq : IsReplyTo(seq[k], i)})

\* An echo reply that reached the host is counted once, by the routine that sent
\* the echo, whatever the order of answers, looped-back echoes and other messages.
CountedOnce ==
  faults = 0 =>
    \A i \in Routines :
      routine[i].rtt + RepliesIn(channel[i], i) + RepliesIn(socket, i)
        + (IF main = "send" /\ IsReplyTo(holding, i) THEN 1 ELSE 0)
      = Cardinality({p \in arrived : IsReplyTo(p, i)})

\* Routine i speaks of "host addr" only for packets about its own echoes, except
\* for a time-exceeded message: it gets those about the i-th echo of anybody.
OnlyTimeExceededStrays ==
  \A i \in Routines : \A k \in DOMAIN channel[i] :
    LET p == channel[i][k] IN
      p.word = i + idRoutineDelta \/ (p.type = "TimeExceeded" /\ p.seq = i)

\* A full channel does not stop the main goroutine for ever: its reader neither
\* returns nor waits for anything else before the channel is closed.
SwitchNotStuck == main = "send" ~> main # "send"

\* An interrupt ends the program, provided one more packet comes: the read before
\* which it is polled has no deadline.
InterruptEnds == (appNeedClose /\ socket # <<>>) ~> ~Running
=============================================================================
