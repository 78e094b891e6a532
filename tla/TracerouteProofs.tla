-------------------------- MODULE TracerouteProofs --------------------------
(***************************************************************************)
(* What the trace prints and concludes is true, for any number of hops,    *)
(* any distance and any packets of other programs: as long as nothing is   *)
(* duplicated and nobody else is answered, a line names the echo that was  *)
(* answered, however late, and the verdict holds.                          *)
(***************************************************************************)
EXTENDS Traceroute, TLAPS

-----------------------------------------------------------------------------
(* The inductive invariant *)

\* Where the loop is: the hops it has probed, and how it ended.
Progress ==
  /\ pc = "top" => probed = hop - 1
  /\ pc = "wait" => hop <= traceMaxHops /\ probed = hop
  /\ probed <= hop
  /\ result # "none" <=> pc = "ended"

\* A late or missing answer leaves the lines behind the hops, never ahead.
Behind ==
  /\ Tracing => Len(lines) < hop
  /\ \A k \in DOMAIN lines : lines[k].hop <= hop

\* The answers in the socket: to an echo that was sent, as far as the type says.
Genuine(p) ==
  /\ p \in arrived
  /\ p.seq \in 1 .. probed
  /\ p.word = p.seq + idRoutineDelta
  /\ p.type \in {"Echo", "EchoReply", "DestUnreach", "TimeExceeded"}
  /\ p.type = "EchoReply" => p.seq >= distance
  /\ p.type = "TimeExceeded" => p.seq < distance

\* No two of them answer the same echo, and none one that has its line already.
Fresh ==
  \A k \in DOMAIN socket : socket[k].type # "Echo" =>
    /\ \A l \in DOMAIN socket :
         (socket[l].type # "Echo" /\ k # l) => socket[l].seq # socket[k].seq
    /\ \A l \in DOMAIN lines : IsAnswerLine(l) => lines[l].id # socket[k].seq

\* A line comes from a packet that has arrived.
Backed(k) ==
  /\ lines[k].id \in 1 .. lines[k].hop
  /\ lines[k].what = "TimeExceeded" => lines[k].id < distance
  /\ lines[k].what = "EchoReply" => lines[k].id >= distance
  /\ \E p \in arrived : /\ p.type = lines[k].what
                        /\ p.type # "Echo"
                        /\ p.seq = lines[k].id
                        /\ p.word = p.seq + idRoutineDelta

Honest ==
  /\ \A k \in DOMAIN socket : Genuine(socket[k])
  /\ Fresh
  /\ \A k \in DOMAIN lines : IsAnswerLine(k) => Backed(k)
  /\ \A k, l \in DOMAIN lines :
       (IsAnswerLine(k) /\ IsAnswerLine(l) /\ k # l) => lines[l].id # lines[k].id

\* Undisturbed, the lines are those of the hops, one after the other.
InTurn ==
  Undisturbed => \A k \in DOMAIN lines : lines[k].id = k /\ lines[k].hop = k

\* The last line is what the verdict rests on.
Verdict ==
  /\ Tracing => \A k \in DOMAIN lines : lines[k].what \in {"timeout", "TimeExceeded"}
  /\ result = "success" =>
       lines # <<>> /\ lines[Len(lines)].what = "EchoReply"
  /\ result = "unreachable" =>
       lines # <<>> /\ lines[Len(lines)].what = "DestUnreach"
  /\ result = "cannotReach" =>
       /\ hop = traceMaxHops + 1
       /\ \A k \in DOMAIN lines : lines[k].what \in {"timeout", "TimeExceeded"}

TraceInv ==
  /\ TypeOK
  /\ Progress
  /\ Behind
  /\ Verdict
  /\ faults = 0 => Honest /\ InTurn

-----------------------------------------------------------------------------
(* Lemmas on the parts *)

LineSet == [hop : 1 .. traceMaxHops, id : Int, what : Types \cup {"timeout"}]

\* A line that has been printed names a hop.
LEMMA LineHops ==
  ASSUME lines \in Seq(LineSet)
  PROVE  \A k \in DOMAIN lines : lines[k].hop \in Nat
<1> SUFFICES ASSUME NEW k \in DOMAIN lines PROVE lines[k].hop \in Nat
  OBVIOUS
<1>1. lines[k] \in LineSet
  OBVIOUS
<1>2. lines[k].hop \in 1 .. traceMaxHops
  BY <1>1 DEF LineSet
<1> QED BY <1>2, TracerouteAssumption

LEMMA PacketFacts ==
  ASSUME NEW p \in Packets
  PROVE  ReqID(p) \in Int /\ p.type \in Types /\ p.seq \in Nat /\ p.word \in Nat
  BY DEF ReqID, Packets, idRoutineDelta

\* A genuine answer is known by the number of its echo.
LEMMA GenuineNumber ==
  ASSUME NEW p \in Packets, Genuine(p)
  PROVE  ReqID(p) = p.seq
  BY PacketFacts DEF Genuine, ReqID, idRoutineDelta

LEMMA AnswerTypes ==
  ASSUME TypeOK, NEW j \in Nat, NEW p \in Answers(j)
  PROVE  /\ p \in Packets
         /\ p.seq = j /\ p.word = j + idRoutineDelta
         /\ p.type \in {"Echo", "EchoReply", "DestUnreach", "TimeExceeded"}
         /\ p.type = "EchoReply" => p.seq >= distance
         /\ p.type = "TimeExceeded" => p.seq < distance
<1>1. j + idRoutineDelta \in Nat
  BY DEF idRoutineDelta
<1> QED BY <1>1 DEF Answers, Packet, Packets, Types, TypeOK

\* What is in the rest of a queue was in the queue, at another place.
LEMMA TailFacts ==
  ASSUME NEW S, NEW q \in Seq(S), q # <<>>
  PROVE  /\ Head(q) = q[1] /\ 1 \in DOMAIN q /\ Head(q) \in S
         /\ Tail(q) \in Seq(S)
         /\ \A k \in DOMAIN Tail(q) : k \in Nat /\ k + 1 \in DOMAIN q /\ Tail(q)[k] = q[k + 1]
  OBVIOUS

LEMMA AppendFacts ==
  ASSUME NEW S, NEW q \in Seq(S), NEW e \in S
  PROVE  /\ Append(q, e) \in Seq(S)
         /\ Len(Append(q, e)) = Len(q) + 1
         /\ Append(q, e)[Len(q) + 1] = e
         /\ DOMAIN Append(q, e) = DOMAIN q \cup {Len(q) + 1}
         /\ Len(q) + 1 \notin DOMAIN q
         /\ \A k \in DOMAIN q : k \in 1 .. Len(q) /\ Append(q, e)[k] = q[k]
         /\ Append(q, e) # <<>>
  OBVIOUS

\* Nothing that is honest becomes dishonest as long as no line is added.
LEMMA HonestStays ==
  ASSUME TypeOK, Honest, UNCHANGED <<lines, arrived, distance>>,
         probed' \in Nat, probed <= probed',
         socket' = socket \/ (socket # <<>> /\ socket' = Tail(socket))
  PROVE  Honest'
<1>1. ASSUME NEW k \in DOMAIN socket'
      PROVE  \E m \in DOMAIN socket : socket'[k] = socket[m] /\ m = IF socket' = socket THEN k ELSE k + 1
  <2>1. socket \in Seq(Packets)
    BY DEF TypeOK
  <2>2. CASE socket' = socket
    <3>1. k \in DOMAIN socket /\ socket'[k] = socket[k]
      BY <2>2
    <3> QED BY <2>2, <3>1
  <2>3. CASE socket' # socket
    <3>1. socket # <<>> /\ socket' = Tail(socket)
      BY <2>3
    <3>2. k + 1 \in DOMAIN socket /\ socket'[k] = socket[k + 1]
      BY <2>1, <3>1, TailFacts
    <3> QED BY <2>3, <3>2
  <2> QED BY <2>2, <2>3
<1>2. ASSUME NEW p, Genuine(p) PROVE Genuine(p)'
  BY <1>2 DEF Genuine, TypeOK
<1>3. \A k \in DOMAIN socket' : Genuine(socket[k])'
  BY <1>1, <1>2 DEF Honest
<1>4. Fresh'
  <2> SUFFICES ASSUME NEW k \in DOMAIN socket', socket'[k].type # "Echo"
               PROVE  /\ \A l \in DOMAIN socket' :
                           (socket'[l].type # "Echo" /\ k # l) => socket'[l].seq # socket'[k].seq
                      /\ \A l \in DOMAIN lines : IsAnswerLine(l) => lines[l].id # socket'[k].seq
    BY DEF Fresh, IsAnswerLine
  <2>1. PICK m \in DOMAIN socket : socket'[k] = socket[m] /\ m = IF socket' = socket THEN k ELSE k + 1
    BY <1>1
  <2>2. \A l \in DOMAIN lines : IsAnswerLine(l) => lines[l].id # socket'[k].seq
    BY <2>1 DEF Honest, Fresh
  <2>3. ASSUME NEW l \in DOMAIN socket', socket'[l].type # "Echo", k # l
        PROVE  socket'[l].seq # socket'[k].seq
    <3>1. PICK n \in DOMAIN socket : socket'[l] = socket[n] /\ n = IF socket' = socket THEN l ELSE l + 1
      BY <1>1
    <3>2. n # m
      <4>1. CASE socket' = socket
        BY <2>1, <2>3, <3>1, <4>1
      <4>2. CASE socket' # socket
        <5>1. m = k + 1 /\ n = l + 1
          BY <2>1, <3>1, <4>2
        <5>2. k \in Int /\ l \in Int
          <6>1. socket \in Seq(Packets) /\ socket # <<>> /\ socket' = Tail(socket)
            BY <4>2 DEF TypeOK
          <6> QED BY <6>1, <2>3, TailFacts
        <5> QED BY <5>1, <5>2, <2>3
      <4> QED BY <4>1, <4>2
    <3> QED BY <2>1, <2>3, <3>1, <3>2 DEF Honest, Fresh
  <2> QED BY <2>2, <2>3
<1>5. \A k \in DOMAIN lines' : IsAnswerLine(k)' => Backed(k)'
  BY DEF Honest, IsAnswerLine, Backed
<1>6. \A k, l \in DOMAIN lines' :
        (IsAnswerLine(k)' /\ IsAnswerLine(l)' /\ k # l) => lines'[l].id # lines'[k].id
  BY DEF Honest, IsAnswerLine
<1> QED BY <1>3, <1>4, <1>5, <1>6 DEF Honest

\* The same for the order of the lines: a hop that is used up without a line, or a step
\* that changes neither, does not make the trace undisturbed.
LEMMA InTurnStays ==
  ASSUME InTurn, UNCHANGED lines, Undisturbed' => Undisturbed
  PROVE  InTurn'
  BY DEF InTurn

LEMMA InitTraceInv == Init => TraceInv
<1> SUFFICES ASSUME Init PROVE TraceInv
  OBVIOUS
<1>1. <<>> \in Seq(LineSet) /\ <<>> \in Seq(Packets) /\ Len(<<>>) = 0
  OBVIOUS
<1>2. TypeOK
  <2>1. /\ 1 \in 1 .. traceMaxHops + 1 /\ 0 \in 0 .. traceMaxHops /\ 0 \in 0 .. MaxFaults
        /\ {} \in SUBSET Packets
    BY TracerouteAssumption
  <2> QED BY <1>1, <2>1, Zenon DEF Init, TypeOK, LineSet
<1>3. Progress /\ Behind /\ Verdict
  BY <1>1, TracerouteAssumption DEF Init, Progress, Behind, Verdict, Tracing
<1>4. Honest /\ InTurn
  BY DEF Init, Honest, Fresh, InTurn
<1> QED BY <1>2, <1>3, <1>4 DEF TraceInv

-----------------------------------------------------------------------------
(* The steps that print nothing *)

LEMMA TopKeeps == ASSUME TraceInv, Top PROVE TraceInv'
<1> USE DEF TraceInv
<1>1. /\ pc = "top" /\ probed = hop - 1
      /\ hop \in Nat /\ probed \in Nat
      /\ UNCHANGED <<lines, socket, appNeedClose, distance, arrived, faults, hop>>
  BY TracerouteAssumption DEF Top, Ends, Progress, TypeOK
<1>2. \/ /\ hop > traceMaxHops
         /\ pc' = "ended" /\ result' = "cannotReach" /\ probed' = probed
      \/ /\ pc' = "ended" /\ result' = "interrupted" /\ probed' = probed
      \/ /\ hop <= traceMaxHops
         /\ pc' = "wait" /\ result' = result /\ probed' = hop
  BY <1>1, TracerouteAssumption DEF Top, Ends, TypeOK
<1>3. TypeOK'
  BY <1>1, <1>2, TracerouteAssumption DEF TypeOK
<1>4. Progress'
  BY <1>1, <1>2, TracerouteAssumption DEF Progress, TypeOK
<1>5. Behind'
  BY <1>1, <1>2 DEF Behind, Tracing
<1>6. Verdict'
  BY <1>1, <1>2, TracerouteAssumption DEF Verdict, Tracing, TypeOK, Progress
<1>7. ASSUME faults' = 0 PROVE Honest' /\ InTurn'
  <2>1. Honest'
    BY <1>1, <1>2, <1>7, HonestStays
  <2>2. Undisturbed' => Undisturbed
    BY <1>1, <1>2, <1>7 DEF Undisturbed, IsAnswerLine
  <2> QED BY <1>1, <1>7, <2>1, <2>2, InTurnStays
<1> QED BY <1>3, <1>4, <1>5, <1>6, <1>7

LEMMA CallFailsKeeps == ASSUME TraceInv, CallFails PROVE TraceInv'
<1> USE DEF TraceInv, CallFails
<1>1. faults \in Nat /\ faults' # 0 /\ faults' \in 0 .. MaxFaults
  BY TracerouteAssumption DEF TypeOK
<1>2. TypeOK'
  BY <1>1 DEF TypeOK
<1>3. Progress' /\ Behind' /\ Verdict'
  BY DEF Progress, Behind, Verdict, Tracing
<1> QED BY <1>1, <1>2, <1>3

LEMMA InterruptKeeps == ASSUME TraceInv, Interrupt PROVE TraceInv'
<1> USE DEF TraceInv, Interrupt
<1>1. TypeOK'
  BY DEF TypeOK
<1>2. Progress' /\ Behind' /\ Verdict'
  BY DEF Progress, Behind, Verdict, Tracing
<1>3. ASSUME faults' = 0 PROVE Honest' /\ InTurn'
  <2>1. probed \in Nat
    BY TracerouteAssumption DEF TypeOK
  <2>2. Honest'
    BY <1>3, <2>1, HonestStays
  <2>3. Undisturbed' => Undisturbed
    BY DEF Undisturbed, IsAnswerLine
  <2> QED BY <1>3, <2>2, <2>3, InTurnStays
<1> QED BY <1>1, <1>2, <1>3

LEMMA StrangerArrivesKeeps == ASSUME TraceInv, StrangerArrives PROVE TraceInv'
<1> USE DEF TraceInv, StrangerArrives
<1>1. faults \in Nat /\ faults' # 0 /\ faults' \in 0 .. MaxFaults
  BY TracerouteAssumption DEF TypeOK
<1>2. socket' \in Seq(Packets)
  BY TracerouteAssumption DEF TypeOK
<1>3. TypeOK'
  BY <1>1, <1>2 DEF TypeOK
<1>4. Progress' /\ Behind' /\ Verdict'
  BY DEF Progress, Behind, Verdict, Tracing
<1> QED BY <1>1, <1>3, <1>4

LEMMA ArriveKeeps == ASSUME TraceInv, Arrive PROVE TraceInv'
<1>1. PICK j \in 1 .. probed : \E p \in Answers(j) :
        /\ IF Answered(p) THEN faults < MaxFaults /\ faults' = faults + 1
                          ELSE UNCHANGED faults
        /\ socket' = Append(socket, p)
        /\ arrived' = arrived \cup {p}
  BY DEF Arrive
<1>2. PICK p \in Answers(j) :
        /\ IF Answered(p) THEN faults < MaxFaults /\ faults' = faults + 1
                          ELSE UNCHANGED faults
        /\ socket' = Append(socket, p)
        /\ arrived' = arrived \cup {p}
  BY <1>1
<1>3. UNCHANGED <<pc, hop, lines, result, appNeedClose, distance, probed>>
  BY DEF Arrive
<1>4. TypeOK /\ j \in Nat /\ faults \in Nat
  BY TracerouteAssumption DEF TraceInv, TypeOK
<1>5. /\ p \in Packets
      /\ p.seq = j /\ p.word = j + idRoutineDelta
      /\ p.type \in {"Echo", "EchoReply", "DestUnreach", "TimeExceeded"}
      /\ p.type = "EchoReply" => p.seq >= distance
      /\ p.type = "TimeExceeded" => p.seq < distance
  BY <1>4, AnswerTypes
<1>6. TypeOK'
  <2>1. socket' \in Seq(Packets)
    BY <1>2, <1>5 DEF TraceInv, TypeOK
  <2>2. faults' \in 0 .. MaxFaults
    BY <1>2, TracerouteAssumption DEF TraceInv, TypeOK
  <2>3. arrived' \in SUBSET Packets
    BY <1>2, <1>5 DEF TraceInv, TypeOK
  <2> QED BY <1>3, <2>1, <2>2, <2>3 DEF TraceInv, TypeOK
<1>7. Progress' /\ Behind' /\ Verdict'
  BY <1>3 DEF TraceInv, Progress, Behind, Verdict, Tracing
<1>8. ASSUME faults' = 0 PROVE Honest' /\ InTurn'
  <2>1. ~Answered(p) /\ faults = 0
    BY <1>2, <1>4, <1>8
  <2>2. Honest /\ InTurn
    BY <2>1 DEF TraceInv
  <2>3. \A q \in arrived : (p.type # "Echo" /\ q.type # "Echo") => q.word # p.word
    BY <2>1 DEF Answered
  <2>4. /\ DOMAIN socket' = DOMAIN socket \cup {Len(socket) + 1}
        /\ Len(socket) + 1 \notin DOMAIN socket
        /\ socket'[Len(socket) + 1] = p
        /\ \A k \in DOMAIN socket : socket'[k] = socket[k]
    BY <1>2, <1>4, <1>5, AppendFacts DEF TypeOK
  <2> DEFINE n == Len(socket) + 1
  <2> HIDE DEF n
  <2>5. \A q : Genuine(q) => Genuine(q)'
    BY <1>2, <1>3 DEF Genuine
  <2>6. Genuine(p)'
    BY <1>2, <1>3, <1>5 DEF Genuine
  <2>7. \A k \in DOMAIN socket' : Genuine(socket[k])'
    BY <2>2, <2>4, <2>5, <2>6 DEF Honest
  <2>8. ASSUME NEW k \in DOMAIN socket, socket[k].type # "Echo", p.type # "Echo"
        PROVE  socket[k].seq # p.seq
    <3>1. Genuine(socket[k])
      BY <2>2 DEF Honest
    <3> QED BY <1>5, <2>3, <2>8, <3>1 DEF Genuine
  <2>9. ASSUME NEW l \in DOMAIN lines, IsAnswerLine(l), p.type # "Echo"
        PROVE  lines[l].id # p.seq
    <3>1. PICK q \in arrived : /\ q.type # "Echo" /\ q.seq = lines[l].id
                               /\ q.word = q.seq + idRoutineDelta
      BY <2>2, <2>9 DEF Honest, Backed
    <3> QED BY <1>5, <2>3, <2>9, <3>1
  <2>10. Fresh'
    <3> SUFFICES ASSUME NEW k \in DOMAIN socket', socket'[k].type # "Echo"
                 PROVE  /\ \A l \in DOMAIN socket' :
                             (socket'[l].type # "Echo" /\ k # l) => socket'[l].seq # socket'[k].seq
                        /\ \A l \in DOMAIN lines : IsAnswerLine(l) => lines[l].id # socket'[k].seq
      BY <1>3 DEF Fresh, IsAnswerLine
    <3>1. CASE k \in DOMAIN socket
      BY <2>2, <2>4, <2>8, <3>1 DEF Honest, Fresh
    <3>2. CASE k \notin DOMAIN socket
      BY <2>4, <2>8, <2>9, <3>2
    <3> QED BY <3>1, <3>2
  <2>11. \A k \in DOMAIN lines' : IsAnswerLine(k)' => Backed(k)'
    BY <1>2, <1>3, <2>2 DEF Honest, IsAnswerLine, Backed
  <2>12. \A k, l \in DOMAIN lines' :
           (IsAnswerLine(k)' /\ IsAnswerLine(l)' /\ k # l) => lines'[l].id # lines'[k].id
    BY <1>3, <2>2 DEF Honest, IsAnswerLine
  <2>13. Honest'
    BY <2>7, <2>10, <2>11, <2>12 DEF Honest
  <2>14. Undisturbed' => Undisturbed
    BY <1>3, <2>1 DEF Undisturbed, IsAnswerLine
  <2> QED BY <1>3, <2>2, <2>13, <2>14, InTurnStays
<1> QED BY <1>6, <1>7, <1>8 DEF TraceInv

-----------------------------------------------------------------------------
(* The steps that print a line *)

\* What a hop leaves when it is over: Continues, or the end of the trace.
LEMMA TimedOutKeeps == ASSUME TraceInv, TimedOut PROVE TraceInv'
<1> DEFINE e == Line(hop, hop, "timeout")
<1>1. /\ pc = "wait" /\ pc' = "top" /\ hop' = hop + 1
      /\ lines' = Append(lines, e)
      /\ UNCHANGED <<result, socket, appNeedClose, distance, probed, arrived, faults>>
  BY DEF TimedOut, Continues
<1>2. /\ TypeOK /\ hop \in 1 .. traceMaxHops /\ hop \in Nat /\ probed = hop
      /\ lines \in Seq(LineSet)
  BY <1>1, TracerouteAssumption DEF TraceInv, TypeOK, Progress, LineSet
<1>3. e \in LineSet /\ e.hop = hop /\ e.what = "timeout"
  BY <1>2 DEF Line, LineSet
<1> HIDE DEF e
<1>4. /\ lines' \in Seq(LineSet)
      /\ Len(lines') = Len(lines) + 1
      /\ DOMAIN lines' = DOMAIN lines \cup {Len(lines) + 1}
      /\ lines'[Len(lines) + 1] = e
      /\ \A k \in DOMAIN lines : lines'[k] = lines[k]
  BY <1>1, <1>2, <1>3, AppendFacts
<1>5. TypeOK'
  BY <1>1, <1>2, <1>4, TracerouteAssumption DEF TypeOK, LineSet
<1>6. Progress'
  BY <1>1, <1>2 DEF TraceInv, Progress
<1>7. Behind'
  <2>1. Len(lines) < hop /\ \A k \in DOMAIN lines : lines[k].hop <= hop
    BY <1>1 DEF TraceInv, Behind, Tracing
  <2>2. \A k \in DOMAIN lines : lines[k].hop \in Nat
    BY <1>2, LineHops
  <2> QED BY <1>1, <1>2, <1>3, <1>4, <2>1, <2>2 DEF Behind
<1>8. Verdict'
  BY <1>1, <1>3, <1>4 DEF TraceInv, Verdict, Tracing, Progress
<1>9. ASSUME faults' = 0 PROVE Honest' /\ InTurn'
  <2>1. Honest
    BY <1>1, <1>9 DEF TraceInv
  <2>2. \A k \in DOMAIN lines' : IsAnswerLine(k)' => k \in DOMAIN lines /\ IsAnswerLine(k)
    BY <1>3, <1>4 DEF IsAnswerLine
  <2>3. \A k \in DOMAIN socket' : Genuine(socket[k])'
    BY <1>1, <2>1 DEF Honest, Genuine
  <2>4. Fresh'
    BY <1>1, <1>4, <2>1, <2>2 DEF Honest, Fresh
  <2>5. \A k \in DOMAIN lines' : IsAnswerLine(k)' => Backed(k)'
    BY <1>1, <1>4, <2>1, <2>2 DEF Honest, Backed
  <2>6. \A k, l \in DOMAIN lines' :
          (IsAnswerLine(k)' /\ IsAnswerLine(l)' /\ k # l) => lines'[l].id # lines'[k].id
    BY <1>4, <2>1, <2>2 DEF Honest
  <2>7. ~Undisturbed'
    BY <1>3, <1>4 DEF Undisturbed, IsAnswerLine
  <2> QED BY <2>3, <2>4, <2>5, <2>6, <2>7 DEF Honest, InTurn
<1> QED BY <1>5, <1>6, <1>7, <1>8, <1>9 DEF TraceInv

\* The packet cannot be parsed, or uses up the hop without a line.
LEMMA ReadNothingKeeps ==
  ASSUME TraceInv, pc = "wait", socket # <<>>, socket' = Tail(socket),
         UNCHANGED <<lines, result, appNeedClose, distance, probed, arrived, faults>>,
         \/ pc' = "fatal" /\ hop' = hop
         \/ pc' = "top" /\ hop' = hop + 1
  PROVE  TraceInv'
<1>1. /\ TypeOK /\ hop \in 1 .. traceMaxHops /\ hop \in Nat /\ probed = hop /\ probed \in Nat
      /\ Len(lines) \in Nat /\ Len(lines) < hop
  BY TracerouteAssumption DEF TraceInv, TypeOK, Progress, Behind, Tracing
<1>2. socket' \in Seq(Packets)
  BY <1>1, TailFacts DEF TypeOK
<1>3. TypeOK'
  BY <1>1, <1>2, TracerouteAssumption DEF TypeOK
<1>4. Progress'
  BY <1>1 DEF TraceInv, Progress
<1>5. Behind'
  <2>0. lines \in Seq(LineSet)
    BY <1>1 DEF TypeOK, LineSet
  <2>1. \A k \in DOMAIN lines : lines[k].hop <= hop /\ lines[k].hop \in Nat
    BY <2>0, LineHops DEF TraceInv, Behind
  <2> QED BY <1>1, <2>1 DEF Behind, Tracing
<1>6. Verdict'
  BY DEF TraceInv, Verdict, Tracing, Progress
<1>7. ASSUME faults' = 0 PROVE Honest' /\ InTurn'
  <2>1. Honest'
    BY <1>1, <1>7, HonestStays DEF TraceInv
  <2>2. Undisturbed' => Undisturbed
    BY <1>1 DEF Undisturbed, IsAnswerLine
  <2> QED BY <1>7, <2>1, <2>2, InTurnStays DEF TraceInv
<1> QED BY <1>3, <1>4, <1>5, <1>6, <1>7 DEF TraceInv

\* An answer is printed: a new line, with the number of an echo that had none.
LEMMA AnswerIsHonest ==
  ASSUME TypeOK, Honest, pc = "wait", probed = hop, hop \in Nat,
         lines \in Seq(LineSet), socket # <<>>, socket' = Tail(socket),
         UNCHANGED <<distance, probed, arrived>>,
         NEW e \in LineSet,
         Head(socket).type # "Echo",
         e = Line(hop, ReqID(Head(socket)), Head(socket).type),
         lines' = Append(lines, e)
  PROVE  /\ Honest'
         /\ e.id \in 1 .. hop
         /\ \A k \in DOMAIN lines : IsAnswerLine(k) => lines[k].id # e.id
<1> DEFINE p == Head(socket)
           n == Len(lines) + 1
<1>1. p = socket[1] /\ 1 \in DOMAIN socket /\ p \in Packets
  BY TailFacts DEF TypeOK
<1>2. Genuine(p) /\ ReqID(p) = p.seq
  BY <1>1, GenuineNumber DEF Honest
<1>3. e.hop = hop /\ e.id = p.seq /\ e.what = p.type
  BY <1>2 DEF Line
<1>4. e.id \in 1 .. hop
  BY <1>2, <1>3 DEF Genuine
<1>5. /\ \A l \in DOMAIN lines : IsAnswerLine(l) => lines[l].id # p.seq
      /\ \A l \in DOMAIN socket : (socket[l].type # "Echo" /\ l # 1) => socket[l].seq # p.seq
  BY <1>1 DEF Honest, Fresh
<1>6. /\ DOMAIN lines' = DOMAIN lines \cup {n} /\ n \notin DOMAIN lines
      /\ lines'[n] = e
      /\ \A k \in DOMAIN lines : lines'[k] = lines[k]
  BY AppendFacts
<1> HIDE DEF p, n
<1>7. \A k \in DOMAIN socket' : k \in Nat /\ k >= 1 /\ k + 1 \in DOMAIN socket /\ socket'[k] = socket[k + 1]
  BY DEF TypeOK
<1>8. \A k \in DOMAIN socket' : Genuine(socket[k])'
  BY <1>7 DEF Honest, Genuine
<1>9. Fresh'
  <2> SUFFICES ASSUME NEW k \in DOMAIN socket', socket'[k].type # "Echo"
               PROVE  /\ \A l \in DOMAIN socket' :
                           (socket'[l].type # "Echo" /\ k # l) => socket'[l].seq # socket'[k].seq
                      /\ \A l \in DOMAIN lines' : IsAnswerLine(l)' => lines'[l].id # socket'[k].seq
    BY DEF Fresh
  <2>1. /\ k + 1 \in DOMAIN socket /\ socket'[k] = socket[k + 1]
        /\ k + 1 # 1 /\ k \in Nat
    BY <1>7
  <2>2. ASSUME NEW l \in DOMAIN socket', socket'[l].type # "Echo", k # l
        PROVE  socket'[l].seq # socket'[k].seq
    <3>1. /\ l + 1 \in DOMAIN socket /\ socket'[l] = socket[l + 1] /\ l + 1 # k + 1
      BY <1>7, <2>1, <2>2
    <3> QED BY <2>1, <2>2, <3>1 DEF Honest, Fresh
  <2>3. ASSUME NEW l \in DOMAIN lines', IsAnswerLine(l)'
        PROVE  lines'[l].id # socket'[k].seq
    <3>1. CASE l = n
      BY <1>3, <1>5, <1>6, <2>1, <3>1
    <3>2. CASE l # n
      BY <1>6, <2>1, <2>3, <3>2 DEF IsAnswerLine, Honest, Fresh
    <3> QED BY <3>1, <3>2
  <2> QED BY <2>2, <2>3
<1>10. ASSUME NEW k \in DOMAIN lines', IsAnswerLine(k)' PROVE Backed(k)'
  <2>1. CASE k = n
    <3>1. p \in arrived' /\ p.seq = e.id /\ p.type = e.what /\ p.word = p.seq + idRoutineDelta
          /\ p.type # "Echo"
      BY <1>2, <1>3 DEF Genuine, p
    <3>2. /\ e.what = "TimeExceeded" => e.id < distance
          /\ e.what = "EchoReply" => e.id >= distance
      BY <1>2, <1>3 DEF Genuine
    <3>3. lines'[k] = e /\ e.id \in 1 .. e.hop
      BY <1>3, <1>4, <1>6, <2>1
    <3>4. \E q \in arrived' : /\ q.type = lines'[k].what
                              /\ q.type # "Echo"
                              /\ q.seq = lines'[k].id
                              /\ q.word = q.seq + idRoutineDelta
      BY <3>1, <3>3
    <3>5. /\ lines'[k].what = "TimeExceeded" => lines'[k].id < distance'
          /\ lines'[k].what = "EchoReply" => lines'[k].id >= distance'
      BY <1>2, <1>3, <3>2, <3>3
    <3> QED BY <3>3, <3>4, <3>5 DEF Backed
  <2>2. CASE k # n
    <3>1. k \in DOMAIN lines /\ lines'[k] = lines[k] /\ IsAnswerLine(k)
      BY <1>6, <1>10, <2>2 DEF IsAnswerLine
    <3>2. Backed(k)
      BY <3>1 DEF Honest
    <3> QED BY <3>1, <3>2 DEF Backed
  <2> QED BY <2>1, <2>2
<1>11. ASSUME NEW k \in DOMAIN lines', NEW l \in DOMAIN lines', IsAnswerLine(k)', IsAnswerLine(l)', k # l
       PROVE  lines'[l].id # lines'[k].id
  BY <1>3, <1>5, <1>6, <1>11 DEF IsAnswerLine, Honest
<1> QED BY <1>3, <1>4, <1>5, <1>8, <1>9, <1>10, <1>11 DEF Honest

\* The hops before had their lines with the numbers 1 to hop - 1: only hop is left.
LEMMA AnswerIsInTurn ==
  ASSUME InTurn, hop \in Nat, lines \in Seq(LineSet), Len(lines) < hop, Tracing,
         NEW e \in LineSet, e.id \in 1 .. hop, e.hop = hop, e.what # "timeout",
         \A k \in DOMAIN lines : IsAnswerLine(k) => lines[k].id # e.id,
         lines' = Append(lines, e), UNCHANGED faults,
         \/ pc' = "ended" /\ result' \in {"success", "unreachable"} /\ hop' = hop
         \/ pc' = "top" /\ hop' = hop + 1
  PROVE  InTurn'
<1> DEFINE n == Len(lines) + 1
<1>1. /\ DOMAIN lines' = DOMAIN lines \cup {n}
      /\ lines'[n] = e
      /\ \A k \in DOMAIN lines : k \in 1 .. Len(lines) /\ lines'[k] = lines[k]
      /\ Len(lines') = n
  BY AppendFacts
<1> SUFFICES ASSUME Undisturbed'
             PROVE  \A k \in DOMAIN lines' : lines'[k].id = k /\ lines'[k].hop = k
  BY DEF InTurn
<1>2. n = hop
  BY <1>1 DEF Undisturbed
<1>3. Undisturbed
  <2>1. \A k \in DOMAIN lines : IsAnswerLine(k)
    BY <1>1 DEF Undisturbed, IsAnswerLine
  <2> QED BY <1>2, <2>1 DEF Undisturbed, Tracing
<1>4. \A k \in DOMAIN lines : lines[k].id = k /\ lines[k].hop = k /\ IsAnswerLine(k)
  BY <1>3 DEF InTurn, Undisturbed
<1>5. e.id = n
  <2> SUFFICES ASSUME e.id # n PROVE FALSE
    OBVIOUS
  <2>1. e.id \in DOMAIN lines
    BY <1>2
  <2> QED BY <1>4, <2>1
<1> HIDE DEF n
<1> QED BY <1>1, <1>2, <1>4, <1>5

LEMMA ReadAnswerKeeps ==
  ASSUME TraceInv, pc = "wait", socket # <<>>, socket' = Tail(socket),
         UNCHANGED <<appNeedClose, distance, probed, arrived, faults>>,
         Head(socket).type \in {"EchoReply", "DestUnreach", "TimeExceeded"},
         lines' = Append(lines, Line(hop, ReqID(Head(socket)), Head(socket).type)),
         \/ Head(socket).type = "EchoReply" /\ Ends("success")
         \/ Head(socket).type = "DestUnreach" /\ Ends("unreachable")
         \/ Head(socket).type = "TimeExceeded" /\ Continues
  PROVE  TraceInv'
<1> DEFINE p == Head(socket)
           e == Line(hop, ReqID(p), p.type)
<1>1. /\ TypeOK /\ hop \in 1 .. traceMaxHops /\ hop \in Nat /\ probed = hop
      /\ lines \in Seq(LineSet) /\ Len(lines) \in Nat /\ Len(lines) < hop
  BY TracerouteAssumption DEF TraceInv, TypeOK, Progress, Behind, Tracing, LineSet
<1>2. p \in Packets /\ socket' \in Seq(Packets)
  BY <1>1, TailFacts DEF TypeOK
<1>3. ReqID(p) \in Int /\ p.type \in Types
  BY <1>2, PacketFacts
<1>4. e \in LineSet /\ e.hop = hop /\ e.what = p.type
  BY <1>1, <1>3 DEF Line, LineSet
<1>5. lines' = Append(lines, e)
  OBVIOUS
<1>6. p.type \in {"EchoReply", "DestUnreach", "TimeExceeded"}
  OBVIOUS
<1>7. \/ p.type = "EchoReply" /\ pc' = "ended" /\ result' = "success" /\ hop' = hop
      \/ p.type = "DestUnreach" /\ pc' = "ended" /\ result' = "unreachable" /\ hop' = hop
      \/ p.type = "TimeExceeded" /\ pc' = "top" /\ result' = result /\ hop' = hop + 1
  BY DEF Ends, Continues
<1>8. /\ lines' \in Seq(LineSet)
      /\ Len(lines') = Len(lines) + 1
      /\ DOMAIN lines' = DOMAIN lines \cup {Len(lines) + 1}
      /\ lines'[Len(lines) + 1] = e
      /\ \A k \in DOMAIN lines : lines'[k] = lines[k]
      /\ lines' # <<>>
  BY <1>1, <1>4, <1>5, AppendFacts
<1>9. ASSUME faults' = 0 PROVE Honest' /\ InTurn'
  <2>1. Honest /\ InTurn
    BY <1>9 DEF TraceInv
  <2>2. /\ Honest'
        /\ e.id \in 1 .. hop
        /\ \A k \in DOMAIN lines : IsAnswerLine(k) => lines[k].id # e.id
    BY <1>1, <1>4, <2>1, AnswerIsHonest
  <2> HIDE DEF e, p
  <2>3. InTurn'
    BY <1>1, <1>4, <1>5, <1>6, <1>7, <2>1, <2>2, AnswerIsInTurn DEF Tracing
  <2> QED BY <2>2, <2>3
<1> HIDE DEF e, p
<1>10. TypeOK'
  BY <1>1, <1>2, <1>7, <1>8, TracerouteAssumption DEF TypeOK, LineSet
<1>11. Progress'
  BY <1>1, <1>7 DEF TraceInv, Progress
<1>12. Behind'
  <2>1. \A k \in DOMAIN lines : lines[k].hop <= hop /\ lines[k].hop \in Nat
    BY <1>1, LineHops DEF TraceInv, Behind
  <2>2. \A k \in DOMAIN lines' : lines'[k].hop <= hop'
    BY <1>1, <1>4, <1>7, <1>8, <2>1
  <2>3. Tracing' => Len(lines') < hop'
    BY <1>1, <1>7, <1>8 DEF Tracing
  <2> QED BY <2>2, <2>3 DEF Behind
<1>13. Verdict'
  <2>1. result = "none"
    BY DEF TraceInv, Progress
  <2>2. \A k \in DOMAIN lines : lines[k].what \in {"timeout", "TimeExceeded"}
    BY DEF TraceInv, Verdict, Tracing
  <2> QED BY <1>4, <1>7, <1>8, <2>1, <2>2 DEF Verdict, Tracing
<1> QED BY <1>9, <1>10, <1>11, <1>12, <1>13 DEF TraceInv

LEMMA ReadFromKeeps == ASSUME TraceInv, ReadFrom PROVE TraceInv'
<1> DEFINE p == Head(socket)
<1>1. /\ pc = "wait" /\ socket # <<>> /\ socket' = Tail(socket)
      /\ UNCHANGED <<appNeedClose, distance, probed, arrived, faults>>
  BY DEF ReadFrom
<1>2. p \in Packets /\ p.type \in Types
  BY <1>1, TailFacts, PacketFacts DEF TraceInv, TypeOK
<1>3. CASE Fatal(p)
  <2>1. pc' = "fatal" /\ UNCHANGED <<hop, result, lines>>
    BY <1>3 DEF ReadFrom
  <2> QED BY <1>1, <2>1, ReadNothingKeeps
<1>4. CASE ~Fatal(p) /\ (Unwaited(p) \/ p.type = "Echo")
  <2>1. Continues /\ UNCHANGED lines
    BY <1>4 DEF ReadFrom
  <2> QED BY <1>1, <2>1, ReadNothingKeeps DEF Continues
<1>5. CASE ~Fatal(p) /\ ~(Unwaited(p) \/ p.type = "Echo")
  <2>1. /\ lines' = Append(lines, Line(hop, ReqID(p), p.type))
        /\ CASE p.type = "EchoReply"    -> Ends("success")
             [] p.type = "DestUnreach"  -> Ends("unreachable")
             [] p.type = "TimeExceeded" -> Continues
    BY <1>5 DEF ReadFrom
  <2>2. p.type \in {"EchoReply", "DestUnreach", "TimeExceeded"}
    BY <1>2, <1>5 DEF Types, Fatal
  <2>3. \/ p.type = "EchoReply" /\ Ends("success")
        \/ p.type = "DestUnreach" /\ Ends("unreachable")
        \/ p.type = "TimeExceeded" /\ Continues
    BY <2>1, <2>2
  <2> QED BY <1>1, <2>1, <2>2, <2>3, ReadAnswerKeeps
<1> QED BY <1>3, <1>4, <1>5

LEMMA NextTraceInv == TraceInv /\ [Next]_vars => TraceInv'
<1> SUFFICES ASSUME TraceInv, [Next]_vars PROVE TraceInv'
  OBVIOUS
<1>1. CASE UNCHANGED vars
  <2>1. TypeOK' /\ Progress' /\ Behind' /\ Verdict'
    BY <1>1 DEF TraceInv, vars, TypeOK, Progress, Behind, Verdict, Tracing
  <2>2. ASSUME faults' = 0 PROVE Honest' /\ InTurn'
    BY <1>1, <2>2 DEF TraceInv, vars, Honest, Genuine, Fresh, Backed, InTurn, Undisturbed,
                      IsAnswerLine
  <2> QED BY <2>1, <2>2 DEF TraceInv
<1> QED
  BY <1>1, TopKeeps, TimedOutKeeps, ReadFromKeeps, CallFailsKeeps, InterruptKeeps,
     ArriveKeeps, StrangerArrivesKeeps DEF Next

LEMMA Inductive == Spec => []TraceInv
  BY InitTraceInv, NextTraceInv, PTL DEF Spec

-----------------------------------------------------------------------------
\* The state keeps its shape: no hop beyond the last is probed or printed
\* (main.go:372 to 436).
THEOREM TraceTypeCorrect == Spec => []TypeOK
<1>1. TraceInv => TypeOK
  BY DEF TraceInv
<1> QED BY <1>1, Inductive, PTL

\* A line carries the number of the echo that was answered, one that has been sent and
\* had no line yet, and, as long as every hop was answered, the number of the hop itself
\* (main.go:408 to 431).
THEOREM LinesAreOwn == Spec => []LinesOwn
<1>1. TraceInv => LinesOwn
  <2> SUFFICES ASSUME TraceInv PROVE LinesOwn
    OBVIOUS
  <2>1. Undisturbed => \A k \in DOMAIN lines : lines[k].id = lines[k].hop
    BY DEF TraceInv, InTurn, Undisturbed
  <2>2. faults = 0 =>
          \A k, l \in DOMAIN lines :
            IsAnswerLine(k) =>
              /\ lines[k].id \in 1 .. lines[k].hop
              /\ (IsAnswerLine(l) /\ k # l) => lines[l].id # lines[k].id
    BY DEF TraceInv, Honest, Backed
  <2> QED BY <2>1, <2>2 DEF LinesOwn
<1> QED BY <1>1, Inductive, PTL

\* The trace says "success", "unreachable" or "cannot reach" only when that is so, for
\* any distance of the destination (main.go:420 to 431, 438).
THEOREM VerdictIsTrue == Spec => []VerdictTrue
<1>1. TraceInv => VerdictTrue
  <2> SUFFICES ASSUME TraceInv, faults = 0
               PROVE  LET last == lines[Len(lines)] IN
                      /\ result = "success" =>
                           /\ last.id >= distance
                           /\ \E p \in arrived : p.type = "EchoReply" /\ p.seq = last.id
                      /\ result = "unreachable" =>
                           \E p \in arrived : p.type = "DestUnreach" /\ p.seq = last.id
                      /\ (result = "cannotReach" /\ Undisturbed) => distance > traceMaxHops
    BY DEF VerdictTrue
  <2> DEFINE n == Len(lines)
  <2>1. lines \in Seq(LineSet) /\ n \in Nat
    BY DEF TraceInv, TypeOK, LineSet
  <2>2. lines # <<>> => n \in DOMAIN lines
    BY <2>1
  <2>3. \A k \in DOMAIN lines : IsAnswerLine(k) => Backed(k)
    BY DEF TraceInv, Honest
  <2>4. result \in {"success", "unreachable"} =>
          /\ Backed(n)
          /\ lines[n].what = IF result = "success" THEN "EchoReply" ELSE "DestUnreach"
    BY <2>2, <2>3 DEF TraceInv, Verdict, IsAnswerLine
  <2>5. ASSUME result = "cannotReach", Undisturbed PROVE distance > traceMaxHops
    <3>1. /\ hop = traceMaxHops + 1 /\ n = traceMaxHops /\ n \in Nat \ {0}
      BY <2>5, TracerouteAssumption DEF TraceInv, Verdict, Undisturbed
    <3>2. n \in DOMAIN lines /\ IsAnswerLine(n)
      BY <2>1, <2>5, <3>1 DEF Undisturbed
    <3>3. lines[n].what = "TimeExceeded" /\ lines[n].id = n
      BY <2>5, <3>2 DEF TraceInv, Verdict, InTurn, IsAnswerLine
    <3>4. n < distance
      BY <2>3, <3>2, <3>3 DEF Backed
    <3> QED BY <3>1, <3>4, TracerouteAssumption DEF TraceInv, TypeOK
  <2> HIDE DEF n
  <2> QED BY <2>4, <2>5 DEF Backed, n
<1> QED BY <1>1, Inductive, PTL
=============================================================================
