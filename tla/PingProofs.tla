----------------------------- MODULE PingProofs -----------------------------
(***************************************************************************)
(* No send meets a closed channel, and no message is lost between the      *)
(* main goroutine and the statistics: for any number of addresses, any     *)
(* capacity of the channels and any packets.                               *)
(***************************************************************************)
EXTENDS PingSwitch, FiniteSetTheorems, TLAPS

\* The deferred loop still has a channel to close.
ClosingRest == main = "closing" => closed < N

PingInv == TypeOK /\ ClosingRest /\ StatsComplete

LEMMA RoutinesAreNumbers ==
  ASSUME NEW i \in Routines
  PROVE  i \in Nat /\ i < N
  BY PingAssumption DEF Routines

LEMMA ReqIDType ==
  ASSUME NEW p \in Packets
  PROVE  ReqID(p) \in Int
  BY DEF ReqID, Packets, idRoutineDelta

\* A packet is handed over only with the number of a channel.
LEMMA AfterReadType ==
  ASSUME NEW p \in Packets
  PROVE  /\ AfterRead(p) \in {"fatal", "poll", "panic", "send"}
         /\ AfterRead(p) = "send" => ReqID(p) \in Routines
<1>1. ReqID(p) \in Int
  BY ReqIDType
<1>2. AfterRead(p) = "send" => ReqID(p) < N /\ ReqID(p) >= 0
  BY <1>1, PingAssumption DEF AfterRead
<1> QED BY <1>1, <1>2, PingAssumption DEF AfterRead, Routines

LEMMA NoPacketType == NoPacket \in Packets
  BY DEF NoPacket, Packet, Packets, Types

LEMMA AnswersType ==
  ASSUME NEW i \in Routines, NEW s \in Nat, NEW p \in Answers(i, s)
  PROVE  p \in Packets
<1>1. i + idRoutineDelta \in Nat
  BY RoutinesAreNumbers DEF idRoutineDelta
<1> QED BY <1>1 DEF Answers, Packet, Packets, Types

LEMMA InitInv == Init => PingInv
<1> SUFFICES ASSUME Init PROVE PingInv
  OBVIOUS
<1>1. <<>> \in Seq(Packets) /\ Len(<<>>) = 0
  OBVIOUS
<1>2. TypeOK
  <2>1. Started \in Goroutines
    BY DEF Started, Goroutines
  <2>2. routine \in [Routines -> Goroutines]
    BY <2>1 DEF Init
  <2>3. channel \in [Routines -> Seq(Packets)] /\ sent \in [Routines -> Nat]
    BY <1>1 DEF Init
  <2>4. \A i \in Routines : Len(channel[i]) <= switchBuffSize
    BY <1>1, PingAssumption DEF Init
  <2>5. holding \in Packets /\ socket \in Seq(Packets)
    BY NoPacketType DEF Init
  <2>6. closed \in 0 .. N /\ faults \in 0 .. MaxFaults
    BY PingAssumption DEF Init
  <2> QED BY <2>2, <2>3, <2>4, <2>5, <2>6 DEF Init, TypeOK
<1>3. ClosingRest
  BY PingAssumption DEF Init, ClosingRest
<1>4. StatsComplete
  BY <1>1, PingAssumption DEF Init, StatsComplete, NoSendAfterClose, NothingDropped, Started
<1> QED BY <1>2, <1>3, <1>4 DEF PingInv

-----------------------------------------------------------------------------
(* The main goroutine *)

LEMMA PollKeeps == ASSUME PingInv, Poll PROVE PingInv'
<1> USE DEF PingInv, Poll
<1>1. TypeOK'
  BY DEF TypeOK
<1>2. ClosingRest'
  BY PingAssumption DEF TypeOK, ClosingRest, StatsComplete, NoSendAfterClose
<1>3. StatsComplete'
  BY DEF TypeOK, StatsComplete, NoSendAfterClose, NothingDropped
<1> QED BY <1>1, <1>2, <1>3

LEMMA ReadFromKeeps == ASSUME PingInv, ReadFrom PROVE PingInv'
<1> USE DEF PingInv
<1>1. Head(socket) \in Packets /\ Tail(socket) \in Seq(Packets)
  BY DEF TypeOK, ReadFrom
<1>2. /\ AfterRead(Head(socket)) \in {"fatal", "poll", "panic", "send"}
      /\ AfterRead(Head(socket)) = "send" => ReqID(Head(socket)) \in Routines
  BY <1>1, AfterReadType
<1>3. closed = 0
  BY DEF TypeOK, StatsComplete, NoSendAfterClose, ReadFrom
<1>4. TypeOK'
  BY <1>1, <1>2, NoPacketType DEF TypeOK, ReadFrom
<1>5. ClosingRest'
  BY <1>2 DEF ReadFrom, ClosingRest
<1>6. StatsComplete'
  BY <1>2, <1>3 DEF ReadFrom, StatsComplete, NoSendAfterClose, NothingDropped
<1> QED BY <1>4, <1>5, <1>6

LEMMA SendKeeps == ASSUME PingInv, Send PROVE PingInv'
<1> USE DEF PingInv
<1> DEFINE i == ReqID(holding)
           q == Append(channel[i], holding)
<1>1. i \in Routines /\ holding \in Packets /\ channel[i] \in Seq(Packets)
  BY DEF TypeOK, Send
<1>2. closed = 0 /\ i \in Nat
  BY <1>1, RoutinesAreNumbers DEF TypeOK, StatsComplete, NoSendAfterClose, Send
<1>3. q \in Seq(Packets) /\ Len(q) = Len(channel[i]) + 1 /\ Len(channel[i]) \in Nat
  BY <1>1
<1>4. /\ Len(channel[i]) < switchBuffSize
      /\ channel' = [channel EXCEPT ![i] = q]
      /\ sent' = [sent EXCEPT ![i] = @ + 1]
      /\ main' = "poll"
      /\ holding' = NoPacket
      /\ UNCHANGED <<socket, appNeedClose, closed, routine, arrived, faults>>
  BY <1>2 DEF Send
<1> HIDE DEF i, q
<1>5. TypeOK'
  BY <1>1, <1>3, <1>4, NoPacketType, PingAssumption DEF TypeOK
<1>6. ClosingRest'
  BY <1>4 DEF ClosingRest
<1>7. NothingDropped'
  <2> SUFFICES ASSUME NEW j \in Routines
               PROVE  sent'[j] = routine'[j].rtt + routine'[j].other + Len(channel'[j])
    BY DEF NothingDropped
  <2>1. sent[j] = routine[j].rtt + routine[j].other + Len(channel[j])
    BY DEF StatsComplete, NothingDropped
  <2>2. routine[j].rtt \in Nat /\ routine[j].other \in Nat /\ sent[j] \in Nat
    BY DEF TypeOK, Goroutines
  <2>3. CASE j = i
    BY <1>3, <1>4, <2>1, <2>2, <2>3 DEF TypeOK
  <2>4. CASE j # i
    BY <1>4, <2>1, <2>4 DEF TypeOK
  <2> QED BY <2>3, <2>4
<1>8. StatsComplete'
  BY <1>1, <1>2, <1>4, <1>7, RoutinesAreNumbers DEF TypeOK, StatsComplete, NoSendAfterClose
<1> QED BY <1>5, <1>6, <1>8

LEMMA CloseKeeps == ASSUME PingInv, Close PROVE PingInv'
<1> USE DEF PingInv, Close
<1>1. closed \in Nat /\ closed < N
  BY PingAssumption DEF TypeOK, ClosingRest
<1>2. TypeOK'
  BY <1>1, PingAssumption DEF TypeOK
<1>3. ClosingRest'
  BY <1>1, PingAssumption DEF ClosingRest
<1>4. StatsComplete'
  BY <1>1, RoutinesAreNumbers DEF TypeOK, StatsComplete, NoSendAfterClose, NothingDropped
<1> QED BY <1>2, <1>3, <1>4

LEMMA WaitEndsKeeps == ASSUME PingInv, WaitEnds PROVE PingInv'
  BY DEF PingInv, WaitEnds, TypeOK, ClosingRest, StatsComplete, NoSendAfterClose,
         NothingDropped

-----------------------------------------------------------------------------
(* The routines *)

LEMMA DialKeeps == ASSUME PingInv, NEW i \in Routines, Dial(i) PROVE PingInv'
<1> USE DEF PingInv, Dial, mainVars
<1>1. TypeOK'
  BY DEF TypeOK, Goroutines
<1>2. ClosingRest'
  BY DEF ClosingRest
<1>3. StatsComplete'
  BY DEF TypeOK, Goroutines, StatsComplete, NoSendAfterClose, NothingDropped, Running
<1> QED BY <1>1, <1>2, <1>3

LEMMA CallFailsKeeps == ASSUME PingInv, NEW i \in Routines, CallFails(i) PROVE PingInv'
<1> USE DEF PingInv, CallFails
<1>1. TypeOK'
  BY PingAssumption DEF TypeOK
<1>2. ClosingRest'
  BY DEF ClosingRest
<1>3. StatsComplete'
  BY DEF TypeOK, StatsComplete, NoSendAfterClose, NothingDropped
<1> QED BY <1>1, <1>2, <1>3

LEMMA TickKeeps == ASSUME PingInv, NEW i \in Routines, Tick(i) PROVE PingInv'
<1> USE DEF PingInv, Tick, mainVars
<1>1. TypeOK'
  <2> DEFINE g == routine[i]
             r == [g EXCEPT !.transmitted = g.transmitted + 1]
  <2>1. g \in Goroutines
    BY DEF TypeOK
  <2>2. r \in Goroutines
    BY <2>1 DEF Goroutines
  <2>3. routine' = [routine EXCEPT ![i] = r]
    OBVIOUS
  <2> HIDE DEF g, r
  <2> QED BY <2>2, <2>3 DEF TypeOK
<1>2. ClosingRest'
  BY DEF ClosingRest
<1>3. StatsComplete'
  BY DEF TypeOK, Goroutines, StatsComplete, NoSendAfterClose, NothingDropped, Running
<1> QED BY <1>1, <1>2, <1>3

\* A message that leaves the channel is counted.
LEMMA MovedBalances ==
  ASSUME NEW s \in Nat, NEW a \in Nat, NEW b \in Nat, NEW l \in Nat,
         NEW c \in Nat, NEW d \in Nat, s = a + b + l, c + d = a + b + 1
  PROVE  s = c + d + (l - 1)
  OBVIOUS

LEMMA TakeKeeps == ASSUME PingInv, NEW i \in Routines, Take(i) PROVE PingInv'
<1> USE DEF PingInv
<1> DEFINE q == Tail(channel[i])
           counted == Counts(Head(channel[i]))
<1>1. channel[i] \in Seq(Packets) /\ channel[i] # <<>>
  BY DEF TypeOK, Take
<1>2. q \in Seq(Packets) /\ Len(q) = Len(channel[i]) - 1 /\ Len(channel[i]) \in Nat
  BY <1>1
<1>3. /\ routine[i].pc = "run"
      /\ channel' = [channel EXCEPT ![i] = q]
      /\ routine' = [routine EXCEPT
           ![i].rtt = IF counted THEN @ + 1 ELSE @,
           ![i].other = IF counted THEN @ ELSE @ + 1]
      /\ UNCHANGED mainVars
      /\ UNCHANGED <<arrived, faults>>
      /\ Running
  BY DEF Take
<1> HIDE DEF q, counted
<1>4. routine' \in [Routines -> Goroutines]
  <2> DEFINE g == routine[i]
             m == IF counted THEN g.rtt + 1 ELSE g.rtt
             n == IF counted THEN g.other ELSE g.other + 1
             r == [g EXCEPT !.rtt = m, !.other = n]
  <2>1. g \in Goroutines
    BY DEF TypeOK
  <2>4. m \in Nat /\ n \in Nat
    BY <2>1 DEF Goroutines
  <2>2. r \in Goroutines
    <3> HIDE DEF m, n, g
    <3> QED BY <2>1, <2>4 DEF Goroutines
  <2>3. routine' = [routine EXCEPT ![i] = r]
    BY <1>3
  <2> HIDE DEF g, r
  <2> QED BY <2>2, <2>3 DEF TypeOK
<1>5. TypeOK'
  <2>1. channel' \in [Routines -> Seq(Packets)]
    BY <1>2, <1>3 DEF TypeOK
  <2>2. \A j \in Routines : Len(channel'[j]) <= switchBuffSize
    BY <1>2, <1>3, PingAssumption DEF TypeOK
  <2> QED BY <1>3, <1>4, <2>1, <2>2 DEF TypeOK, mainVars
<1>6. ClosingRest'
  BY <1>3 DEF ClosingRest, mainVars
<1>7. NothingDropped'
  <2> SUFFICES ASSUME NEW j \in Routines
               PROVE  sent'[j] = routine'[j].rtt + routine'[j].other + Len(channel'[j])
    BY DEF NothingDropped
  <2>1. sent[j] = routine[j].rtt + routine[j].other + Len(channel[j]) /\ sent'[j] = sent[j]
    BY <1>3 DEF StatsComplete, NothingDropped, mainVars
  <2>2. routine[j].rtt \in Nat /\ routine[j].other \in Nat
    BY DEF TypeOK, Goroutines
  <2>3. CASE j # i
    BY <1>3, <2>1, <2>3 DEF TypeOK
  <2>4. CASE j = i
    <3>1. Len(channel'[j]) = Len(channel[j]) - 1
      BY <1>2, <1>3, <2>4 DEF TypeOK
    <3>2. routine'[j].rtt + routine'[j].other = routine[j].rtt + routine[j].other + 1
      BY <1>3, <2>2, <2>4 DEF TypeOK, Goroutines
    <3>3. Len(channel[j]) \in Nat
      BY <1>2, <2>4
    <3>4. routine'[j].rtt \in Nat /\ routine'[j].other \in Nat
      BY <1>4 DEF Goroutines
    <3>5. sent[j] \in Nat
      BY DEF TypeOK
    <3>6. sent[j] = routine'[j].rtt + routine'[j].other + (Len(channel[j]) - 1)
      <4> DEFINE a == routine[j].rtt
                 b == routine[j].other
                 l == Len(channel[j])
                 c == routine'[j].rtt
                 d == routine'[j].other
      <4>1. /\ a \in Nat /\ b \in Nat /\ l \in Nat /\ c \in Nat /\ d \in Nat
            /\ sent[j] = a + b + l /\ c + d = a + b + 1
        BY <2>1, <2>2, <3>2, <3>3, <3>4
      <4> HIDE DEF a, b, c, d, l
      <4>2. sent[j] = c + d + (l - 1)
        BY <4>1, <3>5, MovedBalances
      <4> QED BY <4>2 DEF c, d, l
    <3> QED BY <2>1, <3>1, <3>6
  <2> QED BY <2>3, <2>4
<1>8. StatsComplete'
  BY <1>3, <1>7 DEF TypeOK, StatsComplete, NoSendAfterClose, mainVars, Running
<1> QED BY <1>5, <1>6, <1>8

LEMMA ReturnKeeps == ASSUME PingInv, NEW i \in Routines, Return(i) PROVE PingInv'
<1> USE DEF PingInv, Return, mainVars
<1>1. TypeOK'
  <2> DEFINE g == routine[i]
             n == IF g.transmitted = 0 THEN 1 ELSE g.transmitted
             r == [g EXCEPT !.pc = "done", !.transmitted = n]
  <2>1. g \in Goroutines
    BY DEF TypeOK
  <2>2. n \in Nat
    BY <2>1 DEF Goroutines
  <2>3. r \in Goroutines
    <3> HIDE DEF n, g
    <3> QED BY <2>1, <2>2 DEF Goroutines
  <2>4. routine' = [routine EXCEPT ![i] = r]
    OBVIOUS
  <2> HIDE DEF g, n, r
  <2> QED BY <2>3, <2>4 DEF TypeOK
<1>2. ClosingRest'
  BY DEF ClosingRest
<1>3. StatsComplete'
  BY DEF TypeOK, StatsComplete, NoSendAfterClose, NothingDropped, SeesClose, Running
<1> QED BY <1>1, <1>2, <1>3

-----------------------------------------------------------------------------
(* The host and the network *)

LEMMA InterruptKeeps == ASSUME PingInv, Interrupt PROVE PingInv'
  BY DEF PingInv, Interrupt, TypeOK, ClosingRest, StatsComplete, NoSendAfterClose,
         NothingDropped

LEMMA ArriveKeeps == ASSUME PingInv, NEW i \in Routines, Arrive(i) PROVE PingInv'
<1> USE DEF PingInv
<1>1. PICK s \in 1 .. routine[i].transmitted : \E p \in Answers(i, s) :
        /\ IF Answered(p)
             THEN faults < MaxFaults /\ faults' = faults + 1
             ELSE Cardinality(arrived) < MaxArrivals /\ UNCHANGED faults
        /\ socket' = Append(socket, p)
        /\ arrived' = arrived \cup {p}
  BY DEF Arrive
<1>2. PICK p \in Answers(i, s) :
        /\ IF Answered(p)
             THEN faults < MaxFaults /\ faults' = faults + 1
             ELSE Cardinality(arrived) < MaxArrivals /\ UNCHANGED faults
        /\ socket' = Append(socket, p)
        /\ arrived' = arrived \cup {p}
  BY <1>1
<1>3. p \in Packets
  BY <1>2, AnswersType DEF TypeOK
<1>4. TypeOK'
  BY <1>2, <1>3, PingAssumption DEF TypeOK, Arrive
<1>5. ClosingRest' /\ StatsComplete'
  BY DEF Arrive, ClosingRest, StatsComplete, NoSendAfterClose, NothingDropped
<1> QED BY <1>4, <1>5

LEMMA StrangerArrivesKeeps == ASSUME PingInv, StrangerArrives PROVE PingInv'
<1> USE DEF PingInv, StrangerArrives
<1>1. TypeOK'
  BY PingAssumption DEF TypeOK
<1>2. ClosingRest' /\ StatsComplete'
  BY DEF ClosingRest, StatsComplete, NoSendAfterClose, NothingDropped
<1> QED BY <1>1, <1>2

LEMMA NextInv == PingInv /\ [Next]_vars => PingInv'
<1> SUFFICES ASSUME PingInv, [Next]_vars PROVE PingInv'
  OBVIOUS
<1>1. CASE UNCHANGED vars
  BY <1>1 DEF vars, PingInv, TypeOK, ClosingRest, StatsComplete, NoSendAfterClose,
              NothingDropped
<1>2. CASE Poll
  BY <1>2, PollKeeps
<1>3. CASE ReadFrom
  BY <1>3, ReadFromKeeps
<1>4. CASE Send
  BY <1>4, SendKeeps
<1>5. CASE Close
  BY <1>5, CloseKeeps
<1>6. CASE WaitEnds
  BY <1>6, WaitEndsKeeps
<1>7. ASSUME NEW i \in Routines,
             Dial(i) \/ CallFails(i) \/ Tick(i) \/ Take(i) \/ Return(i) \/ Arrive(i)
      PROVE  PingInv'
  BY <1>7, DialKeeps, CallFailsKeeps, TickKeeps, TakeKeeps, ReturnKeeps, ArriveKeeps
<1>8. CASE Interrupt
  BY <1>8, InterruptKeeps
<1>9. CASE StrangerArrives
  BY <1>9, StrangerArrivesKeeps
<1> QED BY <1>1, <1>2, <1>3, <1>4, <1>5, <1>6, <1>7, <1>8, <1>9 DEF Next

LEMMA Inductive == Spec => []PingInv
  BY InitInv, NextInv, PTL DEF Spec

-----------------------------------------------------------------------------
(* What is in a channel *)

\* p is what routine i may be handed.
For(p, i) == p.word = i + idRoutineDelta \/ (p.type = "TimeExceeded" /\ p.seq = i)

LEMMA StraysAre ==
  OnlyTimeExceededStrays <=>
    \A i \in Routines : \A k \in DOMAIN channel[i] : For(channel[i][k], i)
  BY DEF OnlyTimeExceededStrays, For

LEMMA RoutedFor ==
  ASSUME NEW p \in Packets, ReqID(p) \in Routines
  PROVE  For(p, ReqID(p))
<1>1. p.word \in Nat /\ p.seq \in Nat
  BY DEF Packets
<1> QED BY <1>1 DEF For, ReqID, idRoutineDelta

LEMMA InitStrays == Init => OnlyTimeExceededStrays
  BY DEF Init, OnlyTimeExceededStrays

LEMMA SendStrays ==
  ASSUME PingInv, OnlyTimeExceededStrays, Send
  PROVE  OnlyTimeExceededStrays'
<1> DEFINE h == ReqID(holding)
<1>1. /\ h \in Routines /\ holding \in Packets
      /\ channel' = [channel EXCEPT ![h] = Append(@, holding)]
  BY DEF PingInv, TypeOK, Send
<1>2. For(holding, h)
  BY <1>1, RoutedFor
<1> HIDE DEF h
<1> SUFFICES ASSUME NEW i \in Routines, NEW k \in DOMAIN channel'[i]
             PROVE  For(channel'[i][k], i)
  BY DEF OnlyTimeExceededStrays, For
<1>3. channel[i] \in Seq(Packets)
  BY DEF PingInv, TypeOK
<1>4. CASE i # h
  BY <1>1, <1>4, StraysAre DEF PingInv, TypeOK
<1>5. CASE i = h
  <2>1. channel'[i] = Append(channel[i], holding)
    BY <1>1, <1>5 DEF PingInv, TypeOK
  <2>2. CASE k \in DOMAIN channel[i]
    <3>1. channel'[i][k] = channel[i][k]
      BY <1>3, <2>1, <2>2
    <3> QED BY <2>2, <3>1, StraysAre
  <2>3. CASE k \notin DOMAIN channel[i]
    <3>1. channel'[i][k] = holding
      BY <1>3, <2>1, <2>3
    <3> QED BY <1>2, <1>5, <3>1
  <2> QED BY <2>2, <2>3
<1> QED BY <1>4, <1>5

LEMMA TakeStrays ==
  ASSUME PingInv, OnlyTimeExceededStrays, NEW j \in Routines, Take(j)
  PROVE  OnlyTimeExceededStrays'
<1> SUFFICES ASSUME NEW i \in Routines, NEW k \in DOMAIN channel'[i]
             PROVE  For(channel'[i][k], i)
  BY DEF OnlyTimeExceededStrays, For
<1>1. channel[i] \in Seq(Packets)
  BY DEF PingInv, TypeOK
<1>2. CASE i # j
  BY <1>2, StraysAre DEF PingInv, TypeOK, Take
<1>3. CASE i = j
  <2>1. channel'[i] = Tail(channel[i]) /\ channel[i] # <<>>
    BY <1>3 DEF PingInv, TypeOK, Take
  <2>2. k + 1 \in DOMAIN channel[i] /\ channel'[i][k] = channel[i][k + 1]
    BY <1>1, <2>1
  <2> QED BY <2>2, StraysAre
<1> QED BY <1>2, <1>3

\* Only two actions change a channel.
LEMMA NextStrays ==
  ASSUME PingInv, OnlyTimeExceededStrays, [Next]_vars
  PROVE  OnlyTimeExceededStrays'
<1>1. CASE Send
  BY <1>1, SendStrays
<1>2. CASE \E i \in Routines : Take(i)
  BY <1>2, TakeStrays
<1>3. CASE UNCHANGED channel
  BY <1>3 DEF OnlyTimeExceededStrays
<1> QED
  BY <1>1, <1>2, <1>3
     DEF Next, vars, Poll, ReadFrom, Close, WaitEnds, Dial, CallFails, Tick, Return,
         Arrive, Interrupt, StrangerArrives

-----------------------------------------------------------------------------
(* Counting the replies *)

Bit(b) == IF b THEN 1 ELSE 0

\* The places of the replies to routine i in a queue.
Places(seq, i) == {k \in DOMAIN seq : IsReplyTo(seq[k], i)}

LEMMA PlacesFinite ==
  ASSUME NEW seq \in Seq(Packets), NEW i
  PROVE  /\ IsFiniteSet(Places(seq, i))
         /\ RepliesIn(seq, i) = Cardinality(Places(seq, i))
         /\ RepliesIn(seq, i) \in Nat
<1>1. IsFiniteSet(1 .. Len(seq))
  BY FS_Interval
<1>2. Places(seq, i) \in SUBSET (1 .. Len(seq))
  BY DEF Places
<1>3. IsFiniteSet(Places(seq, i))
  BY <1>1, <1>2, FS_Subset
<1>4. RepliesIn(seq, i) = Cardinality(Places(seq, i))
  BY DEF RepliesIn, Places
<1> QED BY <1>3, <1>4, FS_CardinalityType

\* One more at the end of a queue counts if it is a reply.
LEMMA RepliesAppend ==
  ASSUME NEW seq \in Seq(Packets), NEW p \in Packets, NEW i
  PROVE  RepliesIn(Append(seq, p), i) = RepliesIn(seq, i) + Bit(IsReplyTo(p, i))
<1> DEFINE more == Append(seq, p)
           n == Len(seq) + 1
<1>1. /\ more \in Seq(Packets) /\ Len(more) = n /\ more[n] = p
      /\ \A k \in DOMAIN seq : more[k] = seq[k]
      /\ DOMAIN more = DOMAIN seq \cup {n} /\ n \notin DOMAIN seq
  OBVIOUS
<1> HIDE DEF more, n
<1>2. Places(more, i) = Places(seq, i) \cup (IF IsReplyTo(p, i) THEN {n} ELSE {})
  BY <1>1 DEF Places
<1>3. n \notin Places(seq, i)
  BY <1>1 DEF Places
<1>4. CASE IsReplyTo(p, i)
  <2>1. Cardinality(Places(more, i)) = Cardinality(Places(seq, i)) + 1
    <3>1. IsFiniteSet(Places(seq, i))
      BY PlacesFinite
    <3>2. Places(more, i) = Places(seq, i) \cup {n}
      BY <1>2, <1>4
    <3> QED BY <3>1, <3>2, <1>3, FS_AddElement
  <2> QED BY <1>1, <1>4, <2>1, PlacesFinite DEF Bit, more
<1>5. CASE ~IsReplyTo(p, i)
  <2>1. Places(more, i) = Places(seq, i)
    BY <1>2, <1>5
  <2>2. RepliesIn(more, i) = RepliesIn(seq, i) /\ RepliesIn(seq, i) \in Nat
    BY <1>1, <2>1, PlacesFinite
  <2> QED BY <1>5, <2>2 DEF Bit, more
<1> QED BY <1>4, <1>5

\* The head of a queue is counted, or the rest has as many replies.
LEMMA RepliesTail ==
  ASSUME NEW seq \in Seq(Packets), seq # <<>>, NEW i
  PROVE  RepliesIn(seq, i) = RepliesIn(Tail(seq), i) + Bit(IsReplyTo(Head(seq), i))
<1> DEFINE rest == Tail(seq)
           S == Places(rest, i)
           T == Places(seq, i) \ {1}
           f == [k \in S |-> k + 1]
<1>1. /\ rest \in Seq(Packets) /\ Head(seq) = seq[1] /\ 1 \in DOMAIN seq
      /\ \A k \in DOMAIN rest : k \in Nat /\ k >= 1 /\ k + 1 \in DOMAIN seq
                                /\ rest[k] = seq[k + 1]
      /\ \A k \in DOMAIN seq : k # 1 => k - 1 \in DOMAIN rest
      /\ \A k \in DOMAIN seq : k \in Nat /\ k >= 1
  OBVIOUS
<1> HIDE DEF rest
<1>2. f \in Bijection(S, T)
  <2>1. \A k \in S : k \in Nat /\ f[k] = k + 1 /\ f[k] \in T
    BY <1>1 DEF Places
  <2>2. f \in Injection(S, T)
    BY <2>1 DEF Injection, IsInjective
  <2>3. ASSUME NEW m \in T PROVE \E k \in S : f[k] = m
    <3>1. m - 1 \in S /\ m \in Nat
      BY <1>1, <2>3 DEF Places
    <3> QED BY <2>1, <3>1
  <2>4. f \in Surjection(S, T)
    BY <2>1, <2>3 DEF Surjection
  <2> QED BY <2>2, <2>4 DEF Bijection
<1>3. IsFiniteSet(S) /\ Cardinality(S) = RepliesIn(rest, i) /\ RepliesIn(rest, i) \in Nat
  BY <1>1, PlacesFinite
<1>4. Cardinality(T) = Cardinality(S)
  <2> HIDE DEF f, S, T
  <2>1. ExistsBijection(S, T)
    BY <1>2 DEF ExistsBijection
  <2> QED BY <1>3, <2>1, FS_Bijection
<1>5. Cardinality(T) = RepliesIn(seq, i) - Bit(IsReplyTo(Head(seq), i))
  <2>1. 1 \in Places(seq, i) <=> IsReplyTo(Head(seq), i)
    BY <1>1 DEF Places
  <2>2. Cardinality(T) = IF 1 \in Places(seq, i) THEN Cardinality(Places(seq, i)) - 1
                                                 ELSE Cardinality(Places(seq, i))
    BY PlacesFinite, FS_RemoveElement
  <2>3. RepliesIn(seq, i) = Cardinality(Places(seq, i)) /\ RepliesIn(seq, i) \in Nat
    BY PlacesFinite
  <2> QED BY <2>1, <2>2, <2>3 DEF Bit
<1>6. RepliesIn(seq, i) \in Nat
  BY PlacesFinite
<1> QED BY <1>3, <1>4, <1>5, <1>6 DEF Bit, rest

-----------------------------------------------------------------------------
(* Every reply that arrived is under way, in a channel or counted. *)

\* The replies in the socket parse, unless a stranger or a duplicate spoils it.
Clean ==
  \A k \in DOMAIN socket : socket[k].type = "EchoReply" => socket[k].body = "whole"

UnderWay(i) ==
  routine[i].rtt + RepliesIn(channel[i], i) + RepliesIn(socket, i)
    + Bit(main = "send" /\ IsReplyTo(holding, i))

Arrivals(i) == {p \in arrived : IsReplyTo(p, i)}

Counted ==
  faults = 0 => Clean /\ \A i \in Routines : UnderWay(i) = Cardinality(Arrivals(i))

CountInv == IsFiniteSet(arrived) /\ Counted

LEMMA CountImplies == CountInv => CountedOnce
  BY DEF CountInv, Counted, CountedOnce, UnderWay, Arrivals, Bit

LEMMA UnderWayTypes ==
  ASSUME PingInv, NEW i \in Routines
  PROVE  /\ routine[i].rtt \in Nat
         /\ RepliesIn(channel[i], i) \in Nat
         /\ RepliesIn(socket, i) \in Nat
         /\ channel[i] \in Seq(Packets)
<1>1. socket \in Seq(Packets) /\ channel[i] \in Seq(Packets) /\ routine[i] \in Goroutines
  BY DEF PingInv, TypeOK
<1> QED BY <1>1, PlacesFinite DEF Goroutines

LEMMA InitCount == Init => CountInv
<1> SUFFICES ASSUME Init PROVE CountInv
  OBVIOUS
<1>1. IsFiniteSet(arrived)
  BY FS_EmptySet DEF Init
<1>2. ASSUME NEW i \in Routines PROVE UnderWay(i) = Cardinality(Arrivals(i))
  <2>1. {k \in DOMAIN <<>> : IsReplyTo(<<>>[k], i)} = {}
    OBVIOUS
  <2>2. RepliesIn(<<>>, i) = 0
    BY <2>1, FS_EmptySet DEF RepliesIn
  <2>3. Arrivals(i) = {}
    BY DEF Init, Arrivals
  <2> QED BY <2>2, <2>3, FS_EmptySet DEF Init, UnderWay, Started, Bit
<1>3. Clean
  BY DEF Init, Clean
<1> QED BY <1>1, <1>2, <1>3 DEF CountInv, Counted

\* The main goroutine routes a reply to the routine whose number it carries.
LEMMA ReplyIsRouted ==
  ASSUME NEW p \in Packets, NEW i \in Routines, IsReplyTo(p, i), p.body = "whole"
  PROVE  AfterRead(p) = "send" /\ ReqID(p) = i
<1>1. i \in Nat /\ i < N
  BY RoutinesAreNumbers
<1> QED BY <1>1, PingAssumption
        DEF IsReplyTo, AfterRead, ReqID, Fatal, Unwaited, idRoutineDelta

LEMMA ReadFromCounts ==
  ASSUME PingInv, CountInv, ReadFrom
  PROVE  CountInv'
<1> DEFINE p == Head(socket)
<1>1. /\ socket \in Seq(Packets) /\ socket # <<>> /\ socket' = Tail(socket)
      /\ p \in Packets /\ main = "read" /\ main' = AfterRead(p)
      /\ holding' = IF AfterRead(p) = "send" THEN p ELSE NoPacket
      /\ UNCHANGED <<channel, routine, arrived, faults>>
  BY DEF PingInv, TypeOK, ReadFrom
<1>2. p = socket[1] /\ 1 \in DOMAIN socket
  BY <1>1
<1> HIDE DEF p
<1> SUFFICES ASSUME faults = 0 PROVE Counted'
  BY <1>1 DEF CountInv, Counted
<1>3. Clean /\ \A i \in Routines : UnderWay(i) = Cardinality(Arrivals(i))
  BY DEF CountInv, Counted
<1>4. Clean'
  <2> SUFFICES ASSUME NEW k \in DOMAIN socket', socket'[k].type = "EchoReply"
               PROVE  socket'[k].body = "whole"
    BY DEF Clean
  <2>1. k + 1 \in DOMAIN socket /\ socket'[k] = socket[k + 1]
    BY <1>1
  <2> QED BY <1>3, <2>1 DEF Clean
<1>5. ASSUME NEW i \in Routines PROVE UnderWay(i)' = Cardinality(Arrivals(i))'
  <2>1. RepliesIn(socket, i) = RepliesIn(socket', i) + Bit(IsReplyTo(p, i))
    BY <1>1, RepliesTail DEF p
  <2>2. (main' = "send" /\ IsReplyTo(holding', i)) <=> IsReplyTo(p, i)
    <3>1. CASE IsReplyTo(p, i)
      <4>1. p.body = "whole"
        BY <1>2, <1>3, <3>1 DEF Clean, IsReplyTo
      <4> QED BY <1>1, <3>1, <4>1, ReplyIsRouted
    <3>2. CASE ~IsReplyTo(p, i)
      BY <1>1, <3>2
    <3> QED BY <3>1, <3>2
  <2>3. UnderWay(i)' = UnderWay(i)
    <3> socket' \in Seq(Packets)
      BY <1>1
    <3>1. RepliesIn(socket, i) \in Nat /\ RepliesIn(socket', i) \in Nat
      BY <1>1, PlacesFinite
    <3>2. routine[i].rtt \in Nat /\ RepliesIn(channel[i], i) \in Nat
      BY UnderWayTypes
    <3> DEFINE u == routine[i].rtt
               c == RepliesIn(channel[i], i)
               b == Bit(IsReplyTo(p, i))
    <3>3. /\ UnderWay(i) = u + c + RepliesIn(socket, i) + 0
          /\ UnderWay(i)' = u + c + RepliesIn(socket', i) + b
      BY <1>1, <2>2 DEF UnderWay, Bit
    <3>4. b \in Nat
      BY DEF Bit
    <3> HIDE DEF u, c, b
    <3>5. u \in Nat /\ c \in Nat
      BY <3>2 DEF u, c
    <3>6. RepliesIn(socket, i) = RepliesIn(socket', i) + b
      BY <2>1 DEF b
    <3> QED BY <3>1, <3>3, <3>4, <3>5, <3>6
  <2>4. Arrivals(i)' = Arrivals(i)
    BY <1>1 DEF Arrivals
  <2> QED BY <1>3, <2>3, <2>4
<1> QED BY <1>4, <1>5 DEF Counted

LEMMA SendCounts ==
  ASSUME PingInv, CountInv, Send
  PROVE  CountInv'
<1> DEFINE h == ReqID(holding)
<1>1. /\ h \in Routines /\ holding \in Packets /\ main = "send"
      /\ channel' = [channel EXCEPT ![h] = Append(@, holding)]
      /\ UNCHANGED <<socket, routine, arrived, faults>>
  BY DEF PingInv, TypeOK, Send
<1>2. main' \in {"poll", "panic"}
  BY DEF Send
<1> HIDE DEF h
<1> SUFFICES ASSUME faults = 0, NEW i \in Routines
             PROVE  UnderWay(i)' = Cardinality(Arrivals(i))'
  BY <1>1 DEF CountInv, Counted, Clean
<1>3. UnderWay(i) = Cardinality(Arrivals(i))
  BY DEF CountInv, Counted
<1>4. channel[i] \in Seq(Packets)
  BY UnderWayTypes
<1>5. RepliesIn(channel'[i], i) = RepliesIn(channel[i], i) + Bit(IsReplyTo(holding, i))
  <2>1. CASE i = h
    <3>1. channel'[i] = Append(channel[i], holding)
      BY <1>1, <2>1 DEF PingInv, TypeOK
    <3> QED BY <1>1, <1>4, <3>1, RepliesAppend
  <2>2. CASE i # h
    <3>1. channel'[i] = channel[i]
      BY <1>1, <2>2 DEF PingInv, TypeOK
    <3>2. ~IsReplyTo(holding, i)
      <4>1. i \in Nat
        BY RoutinesAreNumbers
      <4> QED BY <1>1, <2>2, <4>1 DEF h, IsReplyTo, ReqID, idRoutineDelta, Packets
    <3>3. RepliesIn(channel[i], i) \in Nat
      BY UnderWayTypes
    <3> QED BY <3>1, <3>2, <3>3 DEF Bit
  <2> QED BY <2>1, <2>2
<1>6. UnderWay(i)' = UnderWay(i)
  <2> DEFINE u == routine[i].rtt
             c == RepliesIn(channel[i], i)
             s == RepliesIn(socket, i)
             b == Bit(IsReplyTo(holding, i))
  <2>1. u \in Nat /\ c \in Nat /\ s \in Nat /\ b \in Nat
    BY UnderWayTypes DEF Bit
  <2>2. UnderWay(i) = u + c + s + b
    BY <1>1 DEF UnderWay, Bit
  <2>3. UnderWay(i)' = u + (c + b) + s + 0
    BY <1>1, <1>2, <1>5 DEF UnderWay, Bit
  <2> HIDE DEF u, c, s, b
  <2> QED BY <2>1, <2>2, <2>3
<1>7. Arrivals(i)' = Arrivals(i)
  BY <1>1 DEF Arrivals
<1> QED BY <1>3, <1>6, <1>7

LEMMA TakeCounts ==
  ASSUME PingInv, OnlyTimeExceededStrays, CountInv, NEW j \in Routines, Take(j)
  PROVE  CountInv'
<1> DEFINE p == Head(channel[j])
<1>1. /\ channel[j] \in Seq(Packets) /\ channel[j] # <<>>
      /\ channel' = [channel EXCEPT ![j] = Tail(@)]
      /\ routine'[j].rtt = routine[j].rtt + Bit(Counts(p))
      /\ \A i \in Routines : i # j => routine'[i] = routine[i]
      /\ UNCHANGED <<main, holding, socket, arrived, faults>>
  <2>1. /\ channel[j] \in Seq(Packets) /\ routine \in [Routines -> Goroutines]
        /\ routine[j].rtt \in Nat
    BY DEF PingInv, TypeOK, Goroutines
  <2>2. routine'[j].rtt = IF Counts(p) THEN routine[j].rtt + 1 ELSE routine[j].rtt
    BY <2>1 DEF Take, Goroutines
  <2> QED BY <2>1, <2>2 DEF Take, mainVars, Bit
<1>2. p = channel[j][1] /\ 1 \in DOMAIN channel[j]
  BY <1>1
<1>3. Counts(p) <=> IsReplyTo(p, j)
  BY <1>2 DEF OnlyTimeExceededStrays, Counts, IsReplyTo
<1> HIDE DEF p
<1> SUFFICES ASSUME faults = 0, NEW i \in Routines
             PROVE  UnderWay(i)' = Cardinality(Arrivals(i))'
  BY <1>1 DEF CountInv, Counted, Clean
<1>4. UnderWay(i) = Cardinality(Arrivals(i))
  BY DEF CountInv, Counted
<1>5. UnderWay(i)' = UnderWay(i)
  <2>1. CASE i # j
    <3>1. channel'[i] = channel[i] /\ routine'[i] = routine[i]
      BY <1>1, <2>1 DEF PingInv, TypeOK
    <3> QED BY <1>1, <3>1 DEF UnderWay
  <2>2. CASE i = j
    <3> DEFINE u == routine[i].rtt
               c == RepliesIn(channel'[i], i)
               s == RepliesIn(socket, i)
               b == Bit(Counts(p))
               h == Bit(main = "send" /\ IsReplyTo(holding, i))
    <3>1. channel'[i] = Tail(channel[i])
      BY <1>1, <2>2 DEF PingInv, TypeOK
    <3>2. RepliesIn(channel[i], i) = c + b
      BY <1>1, <1>3, <2>2, <3>1, RepliesTail DEF p, Bit
    <3>3. channel'[i] \in Seq(Packets)
      BY <1>1, <2>2, <3>1
    <3>4. u \in Nat /\ c \in Nat /\ s \in Nat /\ b \in Nat /\ h \in Nat
      BY <3>3, UnderWayTypes, PlacesFinite DEF Bit
    <3>5. UnderWay(i) = u + (c + b) + s + h
      BY <3>2 DEF UnderWay
    <3>6. UnderWay(i)' = (u + b) + c + s + h
      BY <1>1, <2>2 DEF UnderWay
    <3> HIDE DEF u, c, s, b, h
    <3> QED BY <3>4, <3>5, <3>6
  <2> QED BY <2>1, <2>2
<1>6. Arrivals(i)' = Arrivals(i)
  BY <1>1 DEF Arrivals
<1> QED BY <1>4, <1>5, <1>6

LEMMA ArriveCounts ==
  ASSUME PingInv, CountInv, NEW j \in Routines, Arrive(j)
  PROVE  CountInv'
<1>1. PICK s \in 1 .. routine[j].transmitted : \E p \in Answers(j, s) :
        /\ IF Answered(p)
             THEN faults < MaxFaults /\ faults' = faults + 1
             ELSE Cardinality(arrived) < MaxArrivals /\ UNCHANGED faults
        /\ socket' = Append(socket, p)
        /\ arrived' = arrived \cup {p}
  BY DEF Arrive
<1>2. PICK p \in Answers(j, s) :
        /\ IF Answered(p)
             THEN faults < MaxFaults /\ faults' = faults + 1
             ELSE Cardinality(arrived) < MaxArrivals /\ UNCHANGED faults
        /\ socket' = Append(socket, p)
        /\ arrived' = arrived \cup {p}
  BY <1>1
<1>3. p \in Packets /\ socket \in Seq(Packets) /\ faults \in Nat
  BY <1>2, AnswersType, PingAssumption DEF PingInv, TypeOK
<1>4. UNCHANGED <<main, holding, channel, routine>>
  BY DEF Arrive
<1>5. IsFiniteSet(arrived')
  BY <1>2, FS_AddElement DEF CountInv
<1> SUFFICES ASSUME faults' = 0 PROVE Counted'
  BY <1>5 DEF CountInv, Counted
<1>6. ~Answered(p) /\ faults = 0
  BY <1>2, <1>3
<1>7. p \notin arrived
  BY <1>6 DEF Answered
<1>8. Clean /\ \A i \in Routines : UnderWay(i) = Cardinality(Arrivals(i))
  BY <1>6 DEF CountInv, Counted
<1>9. Clean'
  <2>1. p.type = "EchoReply" => p.body = "whole"
    BY <1>2 DEF Answers, Packet
  <2> SUFFICES ASSUME NEW k \in DOMAIN socket', socket'[k].type = "EchoReply"
               PROVE  socket'[k].body = "whole"
    BY DEF Clean
  <2>2. CASE k \in DOMAIN socket
    <3>1. socket'[k] = socket[k]
      BY <1>2, <1>3, <2>2
    <3> QED BY <1>8, <2>2, <3>1 DEF Clean
  <2>3. CASE k \notin DOMAIN socket
    <3>1. socket'[k] = p
      BY <1>2, <1>3, <2>3
    <3> QED BY <2>1, <3>1
  <2> QED BY <2>2, <2>3
<1>10. ASSUME NEW i \in Routines PROVE UnderWay(i)' = Cardinality(Arrivals(i))'
  <2> DEFINE u == routine[i].rtt
             c == RepliesIn(channel[i], i)
             q == RepliesIn(socket, i)
             b == Bit(IsReplyTo(p, i))
             h == Bit(main = "send" /\ IsReplyTo(holding, i))
  <2>1. u \in Nat /\ c \in Nat /\ q \in Nat /\ b \in Nat /\ h \in Nat
    BY UnderWayTypes DEF Bit
  <2>2. UnderWay(i) = u + c + q + h
    BY DEF UnderWay
  <2>3. RepliesIn(socket', i) = q + b
    BY <1>2, <1>3, RepliesAppend
  <2>4. UnderWay(i)' = u + c + (q + b) + h
    BY <1>4, <2>3 DEF UnderWay
  <2>5. Cardinality(Arrivals(i)') = Cardinality(Arrivals(i)) + b
    <3>1. IsFiniteSet(Arrivals(i)) /\ Cardinality(Arrivals(i)) \in Nat
      BY FS_Subset, FS_CardinalityType DEF CountInv, Arrivals
    <3>2. CASE IsReplyTo(p, i)
      <4>1. Arrivals(i)' = Arrivals(i) \cup {p} /\ p \notin Arrivals(i)
        BY <1>2, <1>7, <3>2 DEF Arrivals
      <4>2. Cardinality(Arrivals(i)') = Cardinality(Arrivals(i)) + 1
        BY <3>1, <4>1, FS_AddElement
      <4> QED BY <3>2, <4>2 DEF Bit
    <3>3. CASE ~IsReplyTo(p, i)
      <4>1. Arrivals(i)' = Arrivals(i)
        BY <1>2, <3>3 DEF Arrivals
      <4> QED BY <3>1, <3>3, <4>1 DEF Bit
    <3> QED BY <3>2, <3>3
  <2>6. Cardinality(Arrivals(i)) = u + c + q + h
    BY <1>8, <2>2
  <2> HIDE DEF u, c, q, b, h
  <2> QED BY <2>1, <2>4, <2>5, <2>6
<1> QED BY <1>9, <1>10 DEF Counted

\* Every other step leaves what is counted alone, or is a fault.
LEMMA OtherCounts ==
  ASSUME CountInv, UNCHANGED arrived,
         \/ /\ UNCHANGED <<socket, channel, holding, faults>>
            /\ main' = "send" <=> main = "send"
            /\ \A i \in Routines : routine'[i].rtt = routine[i].rtt
         \/ faults \in Nat /\ faults' = faults + 1
  PROVE  CountInv'
<1>1. IsFiniteSet(arrived')
  BY DEF CountInv
<1> SUFFICES ASSUME faults' = 0 PROVE Counted'
  BY <1>1 DEF CountInv, Counted
<1>2. /\ UNCHANGED <<socket, channel, holding, faults>>
      /\ main' = "send" <=> main = "send"
      /\ \A i \in Routines : routine'[i].rtt = routine[i].rtt
  OBVIOUS
<1>3. Clean' /\ \A i \in Routines : UnderWay(i) = Cardinality(Arrivals(i))
  BY <1>2 DEF CountInv, Counted, Clean
<1>4. ASSUME NEW i \in Routines
      PROVE  UnderWay(i)' = UnderWay(i) /\ Arrivals(i)' = Arrivals(i)
  BY <1>2 DEF UnderWay, Arrivals
<1> QED BY <1>3, <1>4 DEF Counted

LEMMA NextCounts ==
  ASSUME PingInv, OnlyTimeExceededStrays, CountInv, [Next]_vars
  PROVE  CountInv'
<1>1. CASE ReadFrom
  BY <1>1, ReadFromCounts
<1>2. CASE Send
  BY <1>2, SendCounts
<1>3. CASE \E i \in Routines : Take(i)
  BY <1>3, TakeCounts
<1>4. CASE \E i \in Routines : Arrive(i)
  BY <1>4, ArriveCounts
<1>5. CASE Poll \/ Close \/ WaitEnds \/ Interrupt \/ UNCHANGED vars
  BY <1>5, OtherCounts DEF Poll, Close, WaitEnds, Interrupt, vars
<1>6. ASSUME NEW i \in Routines, Dial(i) \/ Tick(i) \/ Return(i)
      PROVE  CountInv'
  <2>1. \A j \in Routines : routine'[j].rtt = routine[j].rtt
    <3>1. routine \in [Routines -> Goroutines]
      BY DEF PingInv, TypeOK
    <3>2. CASE Dial(i)
      BY <3>1, <3>2 DEF Dial, Goroutines
    <3>3. CASE Tick(i)
      BY <3>1, <3>3 DEF Tick, Goroutines
    <3>4. CASE Return(i)
      BY <3>1, <3>4 DEF Return, Goroutines
    <3> QED BY <1>6, <3>2, <3>3, <3>4
  <2>2. UNCHANGED <<mainVars, channel, arrived, faults>>
    BY <1>6 DEF Dial, Tick, Return
  <2> QED BY <2>1, <2>2, OtherCounts DEF mainVars
<1>7. CASE StrangerArrives \/ \E i \in Routines : CallFails(i)
  <2>1. faults \in Nat
    BY PingAssumption DEF PingInv, TypeOK
  <2> QED BY <1>7, <2>1, OtherCounts DEF StrangerArrives, CallFails
<1> QED BY <1>1, <1>2, <1>3, <1>4, <1>5, <1>6, <1>7 DEF Next

-----------------------------------------------------------------------------
\* The state keeps its shape: the channels their capacity, and a packet about to be
\* sent the number of a channel (main.go:106 indexes the slice with it).
THEOREM PingTypeCorrect == Spec => []TypeOK
<1>1. PingInv => TypeOK
  BY DEF PingInv
<1> QED BY <1>1, Inductive, PTL

\* The channels are closed after the last send, and a routine's statistics count
\* every message it was sent (main.go:91 to 112 and 174 to 179).
THEOREM PingStatsComplete == Spec => []StatsComplete
<1>1. PingInv => StatsComplete
  BY DEF PingInv
<1> QED BY <1>1, Inductive, PTL

\* A routine is handed packets about its own echoes, and besides only time-exceeded
\* messages with its number for a sequence number (main.go:105 to 111 and 268 to 300).
THEOREM StraysAreTimeExceeded == Spec => []OnlyTimeExceededStrays
<1>1. PingInv /\ OnlyTimeExceededStrays /\ [Next]_vars => OnlyTimeExceededStrays'
  BY NextStrays
<1> QED BY <1>1, InitStrays, Inductive, PTL DEF Spec

\* An echo reply is counted once by the routine that sent the echo, for any number of
\* routines, answers and messages of other kinds (main.go:105 to 111 and 174 to 188).
THEOREM RepliesCountedOnce == Spec => []CountedOnce
<1>1. PingInv /\ OnlyTimeExceededStrays /\ CountInv /\ [Next]_vars => CountInv'
  BY NextCounts
<1> QED BY <1>1, InitCount, CountImplies, StraysAreTimeExceeded, Inductive, PTL DEF Spec
=============================================================================
