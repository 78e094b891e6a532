----------------------------- MODULE Traceroute -----------------------------
(***************************************************************************)
(* The traceroute mode of lab5/main.go: one echo per hop, its time to live *)
(* being the number of the hop, and one read with a deadline after it.     *)
(* The read takes the next ICMP packet of the host, whoever it is for, so  *)
(* an answer that comes after its deadline is read at a later hop.         *)
(***************************************************************************)
EXTENDS Icmp, Sequences

CONSTANTS
  traceMaxHops,   \* the last hop that is tried
  Strangers,      \* ICMP packets of other programs that may arrive
  MaxQueued,      \* bound: packets in the socket at a time
  MaxFaults       \* bound: duplicated answers, strangers' packets, failed calls

ASSUME TracerouteAssumption ==
  /\ traceMaxHops \in Nat \ {0}
  /\ Strangers \subseteq Packets
  /\ MaxQueued \in Nat
  /\ MaxFaults \in Nat

VARIABLES
  pc,            \* "top" of the loop, "wait" in the read, "ended" or "fatal"
  hop,           \* i
  lines,         \* what has been printed: at which hop, the number, what for
  result,        \* how the trace ended
  socket,        \* packets in the raw socket
  appNeedClose,  \* a signal is in the channel of signals
  distance,      \* how far the destination is; 0 for this very host
  probed,        \* history: echoes that were sent
  arrived,       \* history: packets that reached the host
  faults         \* bound

vars == <<pc, hop, lines, result, socket, appNeedClose, distance, probed, arrived, faults>>

Line(i, id, what) == [hop |-> i, id |-> id, what |-> what]

Init ==
  /\ pc = "top"
  /\ hop = 1
  /\ lines = <<>>
  /\ result = "none"
  /\ socket = <<>>
  /\ appNeedClose = FALSE
  /\ distance \in 0 .. traceMaxHops + 1
  /\ probed = 0
  /\ arrived = {}
  /\ faults = 0

Ends(r) == pc' = "ended" /\ result' = r /\ UNCHANGED hop

Continues == pc' = "top" /\ hop' = hop + 1 /\ UNCHANGED result

\* Mutant: one hop too few.
TopShort ==
  /\ pc = "top"
  /\ IF hop >= traceMaxHops THEN Ends("cannotReach") /\ UNCHANGED probed
     ELSE IF appNeedClose THEN Ends("interrupted") /\ UNCHANGED probed
     ELSE pc' = "wait" /\ probed' = hop /\ UNCHANGED <<hop, result>>
  /\ UNCHANGED <<lines, socket, appNeedClose, distance, arrived, faults>>

\* Mutant: one hop too many.
TopFar ==
  /\ pc = "top"
  /\ IF hop > traceMaxHops + 1 THEN Ends("cannotReach") /\ UNCHANGED probed
     ELSE IF appNeedClose THEN Ends("interrupted") /\ UNCHANGED probed
     ELSE pc' = "wait" /\ probed' = hop /\ UNCHANGED <<hop, result>>
  /\ UNCHANGED <<lines, socket, appNeedClose, distance, arrived, faults>>

\* The head of the loop: the interrupt is polled, the echo sent, the deadline set.
Top ==
  /\ pc = "top"
  /\ IF hop > traceMaxHops THEN Ends("cannotReach") /\ UNCHANGED probed
     ELSE IF appNeedClose THEN Ends("interrupted") /\ UNCHANGED probed
     ELSE pc' = "wait" /\ probed' = hop /\ UNCHANGED <<hop, result>>
  /\ UNCHANGED <<lines, socket, appNeedClose, distance, arrived, faults>>

\* Mutant: the deadline is not set.
TimedOutNever == FALSE /\ UNCHANGED vars

\* The five seconds are over and nothing is in the socket.
TimedOut ==
  /\ pc = "wait"
  /\ socket = <<>>
  /\ lines' = Append(lines, Line(hop, hop, "timeout"))
  /\ Continues
  /\ UNCHANGED <<socket, appNeedClose, distance, probed, arrived, faults>>

\* Whatever packet comes next is taken for the answer to this hop's echo.  One that
\* cannot be parsed or is of another type uses up the hop without a line.
ReadFrom ==
  /\ pc = "wait"
  /\ socket # <<>>
  /\ socket' = Tail(socket)
  /\ LET p == Head(socket) IN
       CASE Fatal(p) ->
              pc' = "fatal" /\ UNCHANGED <<hop, result, lines>>
         [] ~Fatal(p) /\ (Unwaited(p) \/ p.type = "Echo") ->
              Continues /\ UNCHANGED lines
         [] OTHER ->
              /\ lines' = Append(lines, Line(hop, ReqID(p), p.type))
              /\ CASE p.type = "EchoReply"    -> Ends("success")
                   [] p.type = "DestUnreach"  -> Ends("unreachable")
                   [] p.type = "TimeExceeded" -> Continues
  /\ UNCHANGED <<appNeedClose, distance, probed, arrived, faults>>

\* WriteTo or another call reports an error: log.Fatal.
CallFails ==
  /\ pc \in {"top", "wait"}
  /\ faults < MaxFaults
  /\ faults' = faults + 1
  /\ pc' = "fatal"
  /\ UNCHANGED <<hop, lines, result, socket, appNeedClose, distance, probed, arrived>>

-----------------------------------------------------------------------------
Tracing == pc \in {"top", "wait"}

Interrupt ==
  /\ Tracing
  /\ ~appNeedClose
  /\ appNeedClose' = TRUE
  /\ UNCHANGED <<pc, hop, lines, result, socket, distance, probed, arrived, faults>>

\* Routers on the way report the time to live; they and the destination may find
\* the host or the protocol unreachable; this very host hears its own echoes.
Answers(j) ==
  LET Answer(type, body) == Packet(type, j + idRoutineDelta, j, body) IN
  {Answer("DestUnreach", "whole"), Answer("DestUnreach", "short")}
  \cup (IF j < distance THEN {Answer("TimeExceeded", "whole")}
                        ELSE {Answer("EchoReply", "whole")})
  \cup (IF distance = 0 THEN {Answer("Echo", "whole")} ELSE {})

Answered(p) ==
  \E q \in arrived : q.word = p.word /\ (q.type = "Echo") = (p.type = "Echo")

\* Answers come in any order, late or not at all; a second one is a fault.
Arrive ==
  /\ Tracing
  /\ Len(socket) < MaxQueued
  /\ \E j \in 1 .. probed : \E p \in Answers(j) :
       /\ IF Answered(p) THEN faults < MaxFaults /\ faults' = faults + 1
                         ELSE UNCHANGED faults
       /\ socket' = Append(socket, p)
       /\ arrived' = arrived \cup {p}
  /\ UNCHANGED <<pc, hop, lines, result, appNeedClose, distance, probed>>

StrangerArrives ==
  /\ Tracing
  /\ Len(socket) < MaxQueued
  /\ faults < MaxFaults
  /\ faults' = faults + 1
  /\ \E p \in Strangers : socket' = Append(socket, p)
  /\ UNCHANGED <<pc, hop, lines, result, appNeedClose, distance, probed, arrived>>

Next ==
  \/ Top \/ TimedOut \/ ReadFrom \/ CallFails
  \/ Interrupt \/ Arrive \/ StrangerArrives

Spec == Init /\ [][Next]_vars

\* The program runs, and its deadline passes.
FairSpec == Spec /\ WF_vars(Top \/ TimedOut \/ ReadFrom)

-----------------------------------------------------------------------------
TypeOK ==
  /\ pc \in {"top", "wait", "ended", "fatal"}
  /\ hop \in 1 .. traceMaxHops + 1
  /\ lines \in Seq([hop : 1 .. traceMaxHops, id : Int, what : Types \cup {"timeout"}])
  /\ result \in {"none", "success", "unreachable", "cannotReach", "interrupted"}
  /\ socket \in Seq(Packets)
  /\ appNeedClose \in BOOLEAN
  /\ distance \in 0 .. traceMaxHops + 1
  /\ probed \in 0 .. traceMaxHops
  /\ arrived \in SUBSET Packets
  /\ faults \in 0 .. MaxFaults

IsAnswerLine(k) == lines[k].what # "timeout"

\* Every hop that is over got an answer in time and printed it.
Undisturbed ==
  /\ faults = 0
  /\ \A k \in DOMAIN lines : IsAnswerLine(k)
  /\ Len(lines) = IF pc = "ended" /\ result \in {"success", "unreachable"}
                    THEN hop ELSE hop - 1

\* The number in a line is the hop whose echo it answers, not the one that waited
\* for it: they agree as long as no hop before timed out or was used up, and even
\* when answers are late no echo's answer is printed twice or before its echo.
LinesOwn ==
  /\ Undisturbed => \A k \in DOMAIN lines : lines[k].id = lines[k].hop
  /\ faults = 0 =>
       \A k, l \in DOMAIN lines :
         IsAnswerLine(k) =>
           /\ lines[k].id \in 1 .. lines[k].hop
           /\ (IsAnswerLine(l) /\ k # l) => lines[l].id # lines[k].id

\* What the program says of the destination is true: it answered an echo that could
\* reach it, somebody found it unreachable, or, when no hop was disturbed, it is
\* further away than the last hop.
VerdictTrue ==
  LET last == lines[Len(lines)] IN
  faults = 0 =>
    /\ result = "success" =>
         /\ last.id >= distance
         /\ \E p \in arrived : p.type = "EchoReply" /\ p.seq = last.id
    /\ result = "unreachable" =>
         \E p \in arrived : p.type = "DestUnreach" /\ p.seq = last.id
    /\ (result = "cannotReach" /\ Undisturbed) => distance > traceMaxHops

\* The trace ends although no answer may ever come, because each read has a deadline.
TraceEnds == <>~Tracing
=============================================================================
