------------------------- MODULE FileTransferProofs --------------------------
(***************************************************************************)
(* Theorems about FileTransfer, for every size of the file, either         *)
(* initiator and any number of attempts and faults: its types, its         *)
(* inductive invariant with the safety properties that follow from it, and *)
(* that it implements Copy.                                                *)
(***************************************************************************)
EXTENDS FileTransfer, FiniteSetTheorems, TLAPS

USE DEF Command, Answer, LastReceived, Size, Packet, Reply

-----------------------------------------------------------------------------
(* 1. Types *)

LEMMA MessageTypes ==
  /\ Command \in Messages
  /\ \A ok \in BOOLEAN : Answer(ok) \in Messages
  /\ \A n \in Nat : LastReceived(n) \in Messages
  /\ \A k \in Nat : Size(k) \in Messages /\ Packet(k) \in Messages
  /\ \A r \in Results \cup {"garbled"} : Reply(r) \in Messages
BY DEF Messages

LEMMA FileTypes ==
  /\ NoFile \in Files /\ EarlierFile \in Files /\ TruncatedFile \in Files
  /\ \A f \in Files, s \in SUBSET Sectors :
       /\ Flushed(f, s) \in Files /\ Dropped(f, s) \in Files
       /\ Closed(f, s) \subseteq Files
<1>1. {} \in SUBSET Sectors
  OBVIOUS
<1>2. NoFile \in Files /\ EarlierFile \in Files /\ TruncatedFile \in Files
  BY <1>1 DEF NoFile, EarlierFile, TruncatedFile, Files
<1>3. ASSUME NEW f \in Files, NEW s \in SUBSET Sectors
      PROVE  Flushed(f, s) \in Files /\ Dropped(f, s) \in Files
  <2>1. /\ f.written \cup s \in SUBSET Sectors /\ f.lost \ s \in SUBSET Sectors
        /\ f.lost \cup (s \ f.written) \in SUBSET Sectors
    BY DEF Files
  <2>2. ASSUME NEW w \in SUBSET Sectors, NEW l \in SUBSET Sectors
        PROVE  /\ [f EXCEPT !.written = w, !.lost = l] \in Files
               /\ [f EXCEPT !.lost = l] \in Files
    BY DEF Files
  <2>3. /\ Flushed(f, s) = [f EXCEPT !.written = f.written \cup s, !.lost = f.lost \ s]
        /\ Dropped(f, s) = [f EXCEPT !.lost = f.lost \cup (s \ f.written)]
    BY DEF Flushed, Dropped
  <2> QED BY <2>1, <2>2, <2>3
<1>4. ASSUME NEW f \in Files, NEW s \in SUBSET Sectors
      PROVE  Closed(f, s) \subseteq Files
  BY <1>3 DEF Closed
<1> QED BY <1>2, <1>3, <1>4

\* An end whose process has just started.
LEMMA AtRest ==
  /\ UpAtRest \in [pc : UpPCs, handle : BOOLEAN, my_answer : BOOLEAN,
                   buffered : SUBSET Sectors, res : Results]
  /\ UpAtRest.pc = "idle" /\ ~UpAtRest.handle /\ UpAtRest.buffered = {}
  /\ UpAtRest.res = "none"
BY DEF UpAtRest, UpPCs, Results

LEMMA SendType ==
  ASSUME NEW q \in Seq(Messages), NEW m \in Messages
  PROVE  Send(q, m) \in Seq(Messages)
BY DEF Send

LEMMA ReceivedType ==
  ASSUME NEW q \in Seq(Messages), q # <<>>
  PROVE  /\ Received(q) \in Seq(Messages)
         /\ Head(q) \in Messages
         /\ Tail(q) \in Seq(Messages)
         /\ AnswerRead(q) \subseteq BOOLEAN
         /\ LastRead(q) \in Nat
<1>1. Head(q) \in Messages /\ Tail(q) \in Seq(Messages)
  OBVIOUS
<1>2. Reply("garbled") \in Messages
  BY MessageTypes
<1>3. Received(q) \in Seq(Messages)
  <2>1. [q EXCEPT ![1] = Reply("garbled")] \in Seq(Messages)
    BY <1>2
  <2> QED BY <1>1, <2>1 DEF Received
<1>4. AnswerRead(q) \subseteq BOOLEAN
  BY <1>1 DEF AnswerRead, Messages
<1>5. LastRead(q) \in Nat
  BY <1>1, FileTransferAssumption DEF LastRead, Messages
<1> QED BY <1>1, <1>3, <1>4, <1>5

LEMMA PrefixType ==
  ASSUME NEW q \in Seq(Messages), NEW p \in Prefixes(q)
  PROVE  p \in Seq(Messages)
BY DEF Prefixes

-----------------------------------------------------------------------------
\* What an end's return leaves behind.
LEMMA UpReturnType ==
  ASSUME TypeOK, NEW q \in Seq(Messages), NEW res \in Results,
         NEW aborted \in BOOLEAN, NEW handle \in BOOLEAN,
         UpReturn(q, res, aborted, handle)
  PROVE  /\ up' \in [pc : UpPCs, handle : BOOLEAN, my_answer : BOOLEAN,
                     buffered : SUBSET Sectors, res : Results]
         /\ toDown' \in Seq(Messages)
         /\ alive' \in BOOLEAN
<1>1. Reply(res) \in Messages
  BY MessageTypes
<1>2. Returned("up", q, res) \in Seq(Messages)
  BY <1>1, SendType DEF Returned
<1>3. AfterReturn("up", aborted) \subseteq UpPCs
  BY DEF AfterReturn, UpPCs
<1> QED BY <1>2, <1>3 DEF UpReturn, StillOpen, TypeOK

LEMMA DownReturnType ==
  ASSUME TypeOK, NEW q \in Seq(Messages), NEW res \in Results,
         NEW aborted \in BOOLEAN, NEW handle \in BOOLEAN,
         DownReturn(q, res, aborted, handle)
  PROVE  /\ down' \in [pc : DownPCs, handle : BOOLEAN, my_answer : BOOLEAN,
                       next : Nat, res : Results]
         /\ toUp' \in Seq(Messages)
         /\ alive' \in BOOLEAN
<1>1. Reply(res) \in Messages
  BY MessageTypes
<1>2. Returned("down", q, res) \in Seq(Messages)
  BY <1>1, SendType DEF Returned
<1>3. AfterReturn("down", aborted) \subseteq DownPCs
  BY DEF AfterReturn, DownPCs
<1> QED BY <1>2, <1>3 DEF DownReturn, StillOpen, TypeOK

LEMMA UpRefuseType ==
  ASSUME TypeOK, NEW q \in Seq(Messages), NEW f \in Files, UpRefuse(q, f)
  PROVE  /\ up' \in [pc : UpPCs, handle : BOOLEAN, my_answer : BOOLEAN,
                     buffered : SUBSET Sectors, res : Results]
         /\ toDown' \in Seq(Messages)
         /\ alive' \in BOOLEAN
         /\ file' \in Files
<1>1. UpReturn(q, "Bad handshake", FALSE, FALSE) /\ file' \in {NoFile, f}
  BY DEF UpRefuse
<1>2. "Bad handshake" \in Results
  BY DEF Results
<1> QED BY <1>1, <1>2, UpReturnType, FileTypes

LEMMA FaultType ==
  ASSUME faults \in 0 .. MaxFaults, Fault
  PROVE  faults' \in 0 .. MaxFaults
BY FileTransferAssumption DEF Fault

LEMMA RecvFailsType ==
  ASSUME NEW q, NEW silent, faults \in 0 .. MaxFaults, RecvFails(q, silent)
  PROVE  faults' \in 0 .. MaxFaults
BY FaultType DEF RecvFails

LEMMA LineType ==
  ASSUME NEW q \in Seq(Messages), NEW n \in LineEnds(q)
  PROVE  /\ n \in 1 .. Len(q)
         /\ Line(q, n) \in Results \cup {"garbled"}
         /\ SubSeq(q, n + 1, Len(q)) \in Seq(Messages)
<1>1. n \in 1 .. Len(q)
  BY DEF LineEnds
<1>2. Line(q, n) \in Results \cup {"garbled"}
  BY <1>1 DEF Line, Messages
<1>3. SubSeq(q, n + 1, Len(q)) \in Seq(Messages)
  BY <1>1
<1> QED BY <1>1, <1>2, <1>3

-----------------------------------------------------------------------------
LEMMA InitType == Init => TypeOK
<1> SUFFICES ASSUME Init PROVE TypeOK
  OBVIOUS
<1>1. toUp \in Seq(Messages) /\ toDown \in Seq(Messages)
  BY DEF Init
<1>2. file \in Files
  BY FileTypes DEF Init
<1>3. up \in [pc : UpPCs, handle : BOOLEAN, my_answer : BOOLEAN,
              buffered : SUBSET Sectors, res : Results]
  BY AtRest DEF Init
<1>4. down \in [pc : DownPCs, handle : BOOLEAN, my_answer : BOOLEAN,
                next : Nat, res : Results]
  BY DEF Init, DownPCs, Results
<1>5. received_info \in Results \cup {"garbled"}
  BY DEF Init, Results
<1>6. attempts \in 0 .. MaxAttempts /\ faults \in 0 .. MaxFaults
  BY FileTransferAssumption DEF Init
<1> QED BY <1>1, <1>2, <1>3, <1>4, <1>5, <1>6 DEF Init, TypeOK

LEMMA StepType == TypeOK /\ [Next]_vars => TypeOK'
<1> SUFFICES ASSUME TypeOK, [Next]_vars PROVE TypeOK'
  OBVIOUS
<1> USE FileTransferAssumption
<1>1. CASE GiveCommand
  <2>1. toUp' \in Seq(Messages) /\ toDown' \in Seq(Messages)
    BY <1>1, MessageTypes DEF GiveCommand
  <2>2. up' \in [pc : UpPCs, handle : BOOLEAN, my_answer : BOOLEAN,
                 buffered : SUBSET Sectors, res : Results]
    BY <1>1, AtRest DEF GiveCommand, UpPCs
  <2>3. down' \in [pc : DownPCs, handle : BOOLEAN, my_answer : BOOLEAN,
                   next : Nat, res : Results]
    BY <1>1 DEF GiveCommand, DownPCs, Results
  <2>4. received_info' \in Results \cup {"garbled"}
    BY <1>1 DEF GiveCommand, Results
  <2>5. attempts' \in 0 .. MaxAttempts
    BY <1>1 DEF GiveCommand, TypeOK
  <2> QED BY <1>1, <2>1, <2>2, <2>3, <2>4, <2>5 DEF GiveCommand, TypeOK
<1>2. CASE UpOpen
  <2>1. toUp' \in Seq(Messages)
    BY <1>2, ReceivedType DEF UpOpen, TypeOK
  <2>2. session_next' \in Nat
    BY <1>2 DEF UpOpen, ResumePoint, TypeOK
  <2>3. PICK opened \in BOOLEAN :
          LET f == IF opened /\ ~is_continue THEN TruncatedFile ELSE file
          IN \/ /\ toDown' = Send(toDown, Answer(opened))
                /\ up' = [up EXCEPT !.pc = "answer", !.handle = opened,
                                    !.my_answer = opened]
                /\ file' = f
                /\ UNCHANGED alive
             \/ ~alive /\ UpRefuse(toDown, f)
    BY <1>2 DEF UpOpen
  <2> DEFINE f == IF opened /\ ~is_continue THEN TruncatedFile ELSE file
  <2>4. f \in Files
    BY FileTypes DEF TypeOK
  <2>5. CASE /\ toDown' = Send(toDown, Answer(opened))
             /\ up' = [up EXCEPT !.pc = "answer", !.handle = opened,
                                 !.my_answer = opened]
             /\ file' = f
             /\ UNCHANGED alive
    <3>1. toDown' \in Seq(Messages)
      BY <2>5, SendType, MessageTypes DEF TypeOK
    <3> QED BY <1>2, <2>1, <2>2, <2>4, <2>5, <3>1 DEF UpOpen, TypeOK, UpPCs
  <2>6. CASE ~alive /\ UpRefuse(toDown, f)
    <3>1. /\ up' \in [pc : UpPCs, handle : BOOLEAN, my_answer : BOOLEAN,
                      buffered : SUBSET Sectors, res : Results]
          /\ toDown' \in Seq(Messages)
          /\ alive' \in BOOLEAN
          /\ file' \in Files
      BY <2>4, <2>6, UpRefuseType DEF TypeOK
    <3> QED BY <1>2, <2>1, <2>2, <3>1 DEF UpOpen, TypeOK
  <2> QED BY <2>3, <2>5, <2>6
<1>3. CASE UpAnswer
  <2>1. toUp' \in Seq(Messages)
    BY <1>3, ReceivedType DEF UpAnswer, TypeOK
  <2>2. PICK other \in AnswerRead(toUp) :
          LET agreed == Agreed(up.my_answer, other)
              sent == Send(toDown, Answer(agreed))
          IN \/ ~agreed /\ UpRefuse(sent, file)
             \/ ~alive /\ UpRefuse(toDown, file)
             \/ /\ agreed
                /\ toDown' = IF is_continue THEN Send(sent, LastReceived(session_next))
                             ELSE sent
                /\ up' = [up EXCEPT !.pc = "size", !.my_answer = agreed]
                /\ UNCHANGED <<alive, file>>
             \/ /\ agreed /\ is_continue /\ ~alive
                /\ UpReturn(sent, "Bad handshake 2", FALSE, up.handle)
                /\ UNCHANGED file
    BY <1>3 DEF UpAnswer
  <2> DEFINE agreed == Agreed(up.my_answer, other)
             sent == Send(toDown, Answer(agreed))
  <2>3. agreed \in BOOLEAN
    BY <1>3, ReceivedType DEF UpAnswer, Agreed, TypeOK
  <2>4. sent \in Seq(Messages)
    BY <2>3, MessageTypes, SendType DEF TypeOK
  <2>5. /\ up' \in [pc : UpPCs, handle : BOOLEAN, my_answer : BOOLEAN,
                    buffered : SUBSET Sectors, res : Results]
        /\ toDown' \in Seq(Messages)
        /\ alive' \in BOOLEAN
        /\ file' \in Files
    <3> HIDE DEF agreed, sent
    <3>1. CASE UpRefuse(sent, file)
      BY <2>4, <3>1, UpRefuseType DEF TypeOK
    <3>2. CASE UpRefuse(toDown, file)
      BY <3>2, UpRefuseType DEF TypeOK
    <3>3. CASE /\ toDown' = IF is_continue THEN Send(sent, LastReceived(session_next))
                            ELSE sent
               /\ up' = [up EXCEPT !.pc = "size", !.my_answer = agreed]
               /\ UNCHANGED <<alive, file>>
      <4>1. toDown' \in Seq(Messages)
        BY <2>4, <3>3, MessageTypes, SendType DEF TypeOK
      <4> QED BY <2>3, <3>3, <4>1 DEF TypeOK, UpPCs
    <3>4. CASE UpReturn(sent, "Bad handshake 2", FALSE, up.handle) /\ UNCHANGED file
      <4>1. "Bad handshake 2" \in Results /\ up.handle \in BOOLEAN
        BY DEF Results, TypeOK
      <4>2. UpReturn(sent, "Bad handshake 2", FALSE, up.handle)
        BY <3>4
      <4>3. file' \in Files
        BY <3>4 DEF TypeOK
      <4> QED BY <2>4, <4>1, <4>2, <4>3, UpReturnType
    <3> QED BY <2>2, <3>1, <3>2, <3>3, <3>4 DEF agreed, sent
  <2> QED BY <1>3, <2>1, <2>5 DEF UpAnswer, TypeOK
<1>4. CASE UpAnswerLost
  <2>1. faults' \in 0 .. MaxFaults /\ toUp' \in Seq(Messages)
    BY <1>4, RecvFailsType DEF UpAnswerLost, UpRecvFails, TypeOK
  <2>2. /\ up' \in [pc : UpPCs, handle : BOOLEAN, my_answer : BOOLEAN,
                    buffered : SUBSET Sectors, res : Results]
        /\ toDown' \in Seq(Messages)
        /\ alive' \in BOOLEAN
        /\ file' \in Files
    BY <1>4, UpRefuseType DEF UpAnswerLost, TypeOK
  <2> QED BY <1>4, <2>1, <2>2 DEF UpAnswerLost, TypeOK
<1>5. CASE UpSize
  <2>1. toUp' \in Seq(Messages)
    BY <1>5, ReceivedType DEF UpSize, TypeOK
  <2> QED BY <1>5, <2>1 DEF UpSize, TypeOK, UpPCs
<1>6. CASE UpSizeLost
  <2>1. faults' \in 0 .. MaxFaults /\ toUp' \in Seq(Messages)
    BY <1>6, RecvFailsType DEF UpSizeLost, UpRecvFails, TypeOK
  <2>2. "Error receiving size" \in Results
    BY DEF Results
  <2>3. /\ up' \in [pc : UpPCs, handle : BOOLEAN, my_answer : BOOLEAN,
                    buffered : SUBSET Sectors, res : Results]
        /\ toDown' \in Seq(Messages)
        /\ alive' \in BOOLEAN
    BY <1>6, <2>2, UpReturnType DEF UpSizeLost, TypeOK
  <2>4. file' \in Files
    BY <1>6, FileTypes DEF UpSizeLost, TypeOK
  <2> QED BY <1>6, <2>1, <2>3, <2>4 DEF UpSizeLost, TypeOK
<1>7. CASE UpPacket
  <2> DEFINE k == Head(toUp).sector
  <2>1. toUp' \in Seq(Messages) /\ k \in Nat
    BY <1>7, ReceivedType DEF UpPacket, TypeOK, Messages
  <2>2. Flushed(file, up.buffered) \in Files /\ {k} \cap Sectors \in SUBSET Sectors
    BY FileTypes DEF TypeOK
  <2>3. "Completed" \in Results
    BY DEF Results
  <2>4. /\ up' \in [pc : UpPCs, handle : BOOLEAN, my_answer : BOOLEAN,
                    buffered : SUBSET Sectors, res : Results]
        /\ toDown' \in Seq(Messages)
        /\ alive' \in BOOLEAN
        /\ file' \in Files
        /\ faults' \in 0 .. MaxFaults
    <3>1. CASE /\ UpReturn(toDown, "Completed", FALSE, FALSE)
               /\ file' \in Closed(Flushed(file, up.buffered), {k} \cap Sectors)
               /\ UNCHANGED faults \/ Fault
      <4>1. faults' \in 0 .. MaxFaults
        BY <3>1, FaultType DEF TypeOK
      <4>2. file' \in Files
        BY <2>2, <3>1, FileTypes
      <4> QED BY <2>3, <3>1, <4>1, <4>2, UpReturnType DEF TypeOK
    <3>2. CASE /\ up' = [up EXCEPT !.pc = "size", !.buffered = {k} \cap Sectors]
               /\ file' = Flushed(file, up.buffered)
               /\ UNCHANGED <<alive, toDown, faults>>
      BY <2>2, <3>2 DEF TypeOK, UpPCs
    <3> QED BY <1>7, <3>1, <3>2 DEF UpPacket
  <2>5. session_next' \in Nat
    BY <1>7 DEF UpPacket, TypeOK
  <2> QED BY <1>7, <2>1, <2>4, <2>5 DEF UpPacket, TypeOK
<1>8. CASE UpWriteError
  <2>1. faults' \in 0 .. MaxFaults /\ toUp' \in Seq(Messages)
    BY <1>8, FaultType, ReceivedType DEF UpWriteError, TypeOK
  <2>2. "Error writing" \in Results
    BY DEF Results
  <2>3. /\ up' \in [pc : UpPCs, handle : BOOLEAN, my_answer : BOOLEAN,
                    buffered : SUBSET Sectors, res : Results]
        /\ toDown' \in Seq(Messages)
        /\ alive' \in BOOLEAN
    BY <1>8, <2>2, UpReturnType DEF UpWriteError, TypeOK
  <2>4. file' \in Files
    BY <1>8, FileTypes DEF UpWriteError, TypeOK
  <2> QED BY <1>8, <2>1, <2>3, <2>4 DEF UpWriteError, TypeOK
<1>9. CASE UpPacketLost
  <2>1. faults' \in 0 .. MaxFaults /\ toUp' \in Seq(Messages)
    BY <1>9, RecvFailsType, FaultType, ReceivedType DEF UpPacketLost, UpRecvFails, TypeOK
  <2>2. "Error receiving packet" \in Results
    BY DEF Results
  <2>3. /\ up' \in [pc : UpPCs, handle : BOOLEAN, my_answer : BOOLEAN,
                    buffered : SUBSET Sectors, res : Results]
        /\ toDown' \in Seq(Messages)
        /\ alive' \in BOOLEAN
    BY <1>9, <2>2, UpReturnType DEF UpPacketLost, TypeOK
  <2>4. file' \in Files
    BY <1>9, FileTypes DEF UpPacketLost, TypeOK
  <2> QED BY <1>9, <2>1, <2>3, <2>4 DEF UpPacketLost, TypeOK
<1>10. CASE UpReadReply
  <2>1. PICK n \in LineEnds(toUp) :
          /\ received_info' = Line(toUp, n)
          /\ toUp' = SubSeq(toUp, n + 1, Len(toUp))
    BY <1>10 DEF UpReadReply
  <2>2. received_info' \in Results \cup {"garbled"} /\ toUp' \in Seq(Messages)
    BY <2>1, LineType DEF TypeOK
  <2> QED BY <1>10, <2>2 DEF UpReadReply, TypeOK, UpPCs
<1>11. CASE UpReplyLost
  <2>1. faults' \in 0 .. MaxFaults
    BY <1>11, RecvFailsType DEF UpReplyLost, TypeOK
  <2>2. toUp' \in Seq(Messages)
    BY <1>11 DEF UpReplyLost
  <2> QED BY <1>11, <2>1, <2>2, AtRest DEF UpReplyLost, UpEnds, TypeOK
<1>12. CASE DownOpen
  <2>1. toDown' \in Seq(Messages)
    BY <1>12, ReceivedType DEF DownOpen, TypeOK
  <2> QED BY <1>12, <2>1 DEF DownOpen, TypeOK, DownPCs
<1>13. CASE DownFirst
  <2>1. toDown' \in Seq(Messages)
    BY <1>13, ReceivedType DEF DownFirst, TypeOK
  <2>2. PICK other \in AnswerRead(toDown) :
          LET agreed == Agreed(down.my_answer, other)
          IN \/ /\ toUp' = Send(toUp, Answer(agreed))
                /\ down' = [down EXCEPT !.pc = "confirm", !.my_answer = agreed]
                /\ UNCHANGED alive
             \/ ~alive /\ DownReturn(toUp, "Bad handshake", FALSE, FALSE)
    BY <1>13 DEF DownFirst
  <2> DEFINE agreed == Agreed(down.my_answer, other)
  <2>3. agreed \in BOOLEAN
    BY <1>13, ReceivedType DEF DownFirst, Agreed, TypeOK
  <2>4. /\ down' \in [pc : DownPCs, handle : BOOLEAN, my_answer : BOOLEAN,
                      next : Nat, res : Results]
        /\ toUp' \in Seq(Messages)
        /\ alive' \in BOOLEAN
    <3> HIDE DEF agreed
    <3>1. CASE /\ toUp' = Send(toUp, Answer(agreed))
               /\ down' = [down EXCEPT !.pc = "confirm", !.my_answer = agreed]
               /\ UNCHANGED alive
      <4>1. toUp' \in Seq(Messages)
        BY <2>3, <3>1, MessageTypes, SendType DEF TypeOK
      <4> QED BY <2>3, <3>1, <4>1 DEF TypeOK, DownPCs
    <3>2. CASE DownReturn(toUp, "Bad handshake", FALSE, FALSE)
      <4>1. "Bad handshake" \in Results
        BY DEF Results
      <4> QED BY <3>2, <4>1, DownReturnType DEF TypeOK
    <3> QED BY <2>2, <3>1, <3>2 DEF agreed
  <2> QED BY <1>13, <2>1, <2>4 DEF DownFirst, TypeOK
<1>14. CASE DownConfirm
  <2>1. toDown' \in Seq(Messages)
    BY <1>14, ReceivedType DEF DownConfirm, TypeOK
  <2>2. /\ down' \in [pc : DownPCs, handle : BOOLEAN, my_answer : BOOLEAN,
                      next : Nat, res : Results]
        /\ toUp' \in Seq(Messages)
        /\ alive' \in BOOLEAN
    <3>1. CASE /\ down' = [down EXCEPT !.pc = IF is_continue THEN "last" ELSE "send"]
               /\ UNCHANGED <<alive, toUp>>
      BY <3>1 DEF TypeOK, DownPCs
    <3>2. CASE DownReturn(toUp, "Bad handshake", FALSE, FALSE)
      <4>1. "Bad handshake" \in Results
        BY DEF Results
      <4> QED BY <3>2, <4>1, DownReturnType DEF TypeOK
    <3> QED BY <1>14, <3>1, <3>2 DEF DownConfirm
  <2> QED BY <1>14, <2>1, <2>2 DEF DownConfirm, TypeOK
<1>15. CASE DownAnswerLost
  <2>1. faults' \in 0 .. MaxFaults /\ toDown' \in Seq(Messages)
    BY <1>15, RecvFailsType DEF DownAnswerLost, DownRecvFails, TypeOK
  <2>2. "Bad handshake" \in Results
    BY DEF Results
  <2>3. /\ down' \in [pc : DownPCs, handle : BOOLEAN, my_answer : BOOLEAN,
                      next : Nat, res : Results]
        /\ toUp' \in Seq(Messages)
        /\ alive' \in BOOLEAN
    BY <1>15, <2>2, DownReturnType DEF DownAnswerLost, TypeOK
  <2> QED BY <1>15, <2>1, <2>3 DEF DownAnswerLost, TypeOK
<1>16. CASE DownLast
  <2>1. toDown' \in Seq(Messages) /\ LastRead(toDown) \in Nat
    BY <1>16, ReceivedType DEF DownLast, TypeOK
  <2> QED BY <1>16, <2>1 DEF DownLast, TypeOK, DownPCs
<1>17. CASE DownLastLost
  <2>1. faults' \in 0 .. MaxFaults /\ toDown' \in Seq(Messages)
    BY <1>17, RecvFailsType DEF DownLastLost, DownRecvFails, TypeOK
  <2>2. "Bad handshake 2" \in Results /\ down.handle \in BOOLEAN
    BY DEF Results, TypeOK
  <2>3. /\ down' \in [pc : DownPCs, handle : BOOLEAN, my_answer : BOOLEAN,
                      next : Nat, res : Results]
        /\ toUp' \in Seq(Messages)
        /\ alive' \in BOOLEAN
    <3>1. DownReturn(toUp, "Bad handshake 2", FALSE, down.handle)
      BY <1>17 DEF DownLastLost
    <3>2. toUp \in Seq(Messages)
      BY DEF TypeOK
    <3> QED BY <2>2, <3>1, <3>2, DownReturnType
  <2> QED BY <1>17, <2>1, <2>3 DEF DownLastLost, TypeOK
<1>18. CASE DownSend
  <2> DEFINE k == down.next
             sent == Send(Send(toUp, Size(k)), Packet(k))
  <2>1. k \in Nat
    BY DEF TypeOK
  <2>2. sent \in Seq(Messages)
    <3>1. Size(k) \in Messages /\ Packet(k) \in Messages
      BY <2>1, MessageTypes
    <3>2. Send(toUp, Size(k)) \in Seq(Messages)
      BY <3>1, SendType DEF TypeOK
    <3> QED BY <3>1, <3>2, SendType
  <2>3. "Completed" \in Results
    BY DEF Results
  <2>4. /\ down' \in [pc : DownPCs, handle : BOOLEAN, my_answer : BOOLEAN,
                      next : Nat, res : Results]
        /\ toUp' \in Seq(Messages)
        /\ alive' \in BOOLEAN
    <3> HIDE DEF sent
    <3>1. CASE DownReturn(sent, "Completed", FALSE, FALSE)
      BY <2>2, <2>3, <3>1, DownReturnType
    <3>2. CASE /\ toUp' = sent
               /\ down' = [down EXCEPT !.next = k + 1]
               /\ UNCHANGED alive
      <4>1. down' \in [pc : DownPCs, handle : BOOLEAN, my_answer : BOOLEAN,
                       next : Nat, res : Results]
        BY <2>1, <3>2 DEF TypeOK
      <4>2. alive' \in BOOLEAN
        BY <3>2 DEF TypeOK
      <4> QED BY <2>2, <3>2, <4>1, <4>2
    <3> QED BY <1>18, <3>1, <3>2 DEF DownSend, sent
  <2> QED BY <1>18, <2>4 DEF DownSend, TypeOK
<1>19. CASE DownSendFails
  <2>1. faults' \in 0 .. MaxFaults
    BY <1>19, FaultType DEF DownSendFails, TypeOK
  <2>2. PICK q \in {toUp, Send(toUp, Size(down.next))} :
          DownReturn(q, "Completed", TRUE, FALSE)
    BY <1>19 DEF DownSendFails
  <2>3. q \in Seq(Messages)
    <3>1. Size(down.next) \in Messages
      BY MessageTypes DEF TypeOK
    <3>2. toUp \in Seq(Messages)
      BY DEF TypeOK
    <3>3. Send(toUp, Size(down.next)) \in Seq(Messages)
      BY <3>1, <3>2, SendType
    <3> QED BY <2>2, <3>2, <3>3
  <2>4. "Completed" \in Results
    BY DEF Results
  <2>5. /\ down' \in [pc : DownPCs, handle : BOOLEAN, my_answer : BOOLEAN,
                      next : Nat, res : Results]
        /\ toUp' \in Seq(Messages)
        /\ alive' \in BOOLEAN
    BY <2>2, <2>3, <2>4, DownReturnType
  <2> QED BY <1>19, <2>1, <2>5 DEF DownSendFails, TypeOK
<1>20. CASE DownReadError
  <2>1. faults' \in 0 .. MaxFaults
    BY <1>20, FaultType DEF DownReadError, TypeOK
  <2>2. "Error reading" \in Results
    BY DEF Results
  <2>3. /\ down' \in [pc : DownPCs, handle : BOOLEAN, my_answer : BOOLEAN,
                      next : Nat, res : Results]
        /\ toUp' \in Seq(Messages)
        /\ alive' \in BOOLEAN
    BY <1>20, <2>2, DownReturnType DEF DownReadError, TypeOK
  <2> QED BY <1>20, <2>1, <2>3 DEF DownReadError, TypeOK
<1>21. CASE DownReadReply
  <2>1. PICK n \in LineEnds(toDown) :
          /\ received_info' = Line(toDown, n)
          /\ toDown' = SubSeq(toDown, n + 1, Len(toDown))
    BY <1>21 DEF DownReadReply
  <2>2. received_info' \in Results \cup {"garbled"} /\ toDown' \in Seq(Messages)
    BY <2>1, LineType DEF TypeOK
  <2> QED BY <1>21, <2>2 DEF DownReadReply, TypeOK, DownPCs
<1>22. CASE DownReplyLost
  <2>1. faults' \in 0 .. MaxFaults
    BY <1>22, RecvFailsType DEF DownReplyLost, TypeOK
  <2>2. toDown' \in Seq(Messages)
    BY <1>22 DEF DownReplyLost
  <2> QED BY <1>22, <2>1, <2>2 DEF DownReplyLost, TypeOK, DownPCs
<1>23. CASE NoCommand
  BY <1>23 DEF NoCommand, TypeOK, UpPCs, DownPCs
<1>24. CASE Cut
  <2>1. toUp' \in Seq(Messages) /\ toDown' \in Seq(Messages)
    BY <1>24, PrefixType DEF Cut, TypeOK
  <2>2. faults' \in 0 .. MaxFaults
    BY <1>24, FaultType DEF Cut, TypeOK
  <2> QED BY <1>24, <2>1, <2>2 DEF Cut, TypeOK
<1>25. CASE UpCrash
  <2>1. toUp' \in Seq(Messages) /\ toDown' \in Seq(Messages)
    BY <1>25, PrefixType DEF UpCrash, TypeOK
  <2>2. faults' \in 0 .. MaxFaults
    BY <1>25, FaultType DEF UpCrash, TypeOK
  <2> QED BY <1>25, <2>1, <2>2, AtRest DEF UpCrash, UpEnds, TypeOK
<1>26. CASE DownCrash
  <2>1. toUp' \in Seq(Messages) /\ toDown' \in Seq(Messages)
    BY <1>26, PrefixType DEF DownCrash, TypeOK
  <2>2. faults' \in 0 .. MaxFaults
    BY <1>26, FaultType DEF DownCrash, TypeOK
  <2>3. down' \in [pc : DownPCs, handle : BOOLEAN, my_answer : BOOLEAN,
                   next : Nat, res : Results]
    BY <1>26 DEF DownCrash, TypeOK, DownPCs, Results
  <2> QED BY <1>26, <2>1, <2>2, <2>3 DEF DownCrash, TypeOK
<1>27. CASE HangUp
  <2>1. toUp' \in Seq(Messages) /\ toDown' \in Seq(Messages)
    BY <1>27 DEF HangUp
  <2>2. /\ up' \in [pc : UpPCs, handle : BOOLEAN, my_answer : BOOLEAN,
                    buffered : SUBSET Sectors, res : Results]
        /\ session_next' \in Nat
    BY <1>27, AtRest DEF HangUp, UpEnds, TypeOK
  <2> QED BY <1>27, <2>1, <2>2 DEF HangUp, TypeOK
<1>28. CASE UNCHANGED vars
  BY <1>28 DEF vars, TypeOK
<1> QED
  BY <1>1, <1>2, <1>3, <1>4, <1>5, <1>6, <1>7, <1>8, <1>9, <1>10, <1>11,
     <1>12, <1>13, <1>14, <1>15, <1>16, <1>17, <1>18, <1>19, <1>20, <1>21,
     <1>22, <1>23, <1>24, <1>25, <1>26, <1>27, <1>28 DEF Next, UpStep, DownStep

\* Every variable keeps its type: queues hold only the messages the two ends
\* send, counters stay within their bounds.
THEOREM TypeCorrect == Spec => []TypeOK
<1>1. Init => TypeOK
  BY InitType
<1>2. TypeOK /\ [Next]_vars => TypeOK'
  BY StepType
<1> QED BY <1>1, <1>2, PTL DEF Spec

-----------------------------------------------------------------------------
(* 2. What each action does, queue elements spelled out: the form in which the
   proofs of the invariant use the actions. *)

\* r is q with m appended.
Added(q, r, m) ==
  /\ Len(r) = Len(q) + 1
  /\ \A i \in 1 .. Len(q) : r[i] = q[i]
  /\ r[Len(q) + 1] = m

\* r is q, perhaps followed by an answer line.
ReplyAdded(q, r) ==
  /\ Len(r) \in {Len(q), Len(q) + 1}
  /\ \A i \in 1 .. Len(q) : r[i] = q[i]
  /\ Len(r) = Len(q) + 1 => r[Len(q) + 1].type = "reply"

\* r is q without its first message.
Taken(q, r) ==
  /\ Len(q) > 0
  /\ Len(r) = Len(q) - 1
  /\ \A i \in 1 .. Len(r) : r[i] = q[i + 1]

\* r is q after Socket_Recv: an answer line stays, with its beginning eaten.
TakenIn(q, r) ==
  /\ Len(q) > 0
  /\ q[1].type # "reply" => Taken(q, r)
  /\ q[1].type = "reply" =>
       /\ Len(r) = Len(q)
       /\ r[1] = Reply("garbled")
       /\ \A i \in 2 .. Len(r) : r[i] = q[i]

\* r is a prefix of q.
CutFrom(q, r) ==
  /\ Len(r) \in 0 .. Len(q)
  /\ \A i \in 1 .. Len(r) : r[i] = q[i]

\* No answer line "Completed" is in r that was not in q.
NoNewCompleted(q, r) ==
  \A i \in 1 .. Len(r) :
    r[i].type = "reply" =>
      \/ i <= Len(q) /\ r[i] = q[i]
      \/ r[i].res # "Completed"

LEMMA Lengths ==
  ASSUME NEW q \in Seq(Messages)
  PROVE  Len(q) \in Nat /\ (q = <<>> <=> Len(q) = 0)
OBVIOUS

LEMMA AppendAdds ==
  ASSUME NEW q \in Seq(Messages), NEW m \in Messages
  PROVE  Added(q, Append(q, m), m)
BY DEF Added

LEMMA SendAdds ==
  ASSUME NEW q \in Seq(Messages), NEW m \in Messages
  PROVE  /\ ~alive => Send(q, m) = q
         /\ alive => Added(q, Send(q, m), m)
BY DEF Send, Added

LEMMA TailTakes ==
  ASSUME NEW q \in Seq(Messages), q # <<>>
  PROVE  Taken(q, Tail(q)) /\ Head(q) = q[1] /\ q[1] \in Messages
BY DEF Taken

LEMMA ReceivedTakes ==
  ASSUME NEW q \in Seq(Messages), q # <<>>
  PROVE  TakenIn(q, Received(q)) /\ Head(q) = q[1] /\ q[1] \in Messages
BY DEF TakenIn, Taken, Received

LEMMA PrefixCuts ==
  ASSUME NEW q \in Seq(Messages), NEW p \in Prefixes(q)
  PROVE  CutFrom(q, p)
BY DEF CutFrom, Prefixes

LEMMA ReplyAdds ==
  ASSUME NEW q \in Seq(Messages), NEW r, NEW res,
         r = q \/ Added(q, r, Reply(res))
  PROVE  ReplyAdded(q, r)
<1>1. Len(q) \in Nat
  OBVIOUS
<1> QED BY <1>1 DEF Added, ReplyAdded

\* Anything but a line "Completed" may be added.
LEMMA AddedHarmless ==
  ASSUME NEW q \in Seq(Messages), NEW r, NEW m, Added(q, r, m),
         m.type = "reply" => m.res # "Completed"
  PROVE  NoNewCompleted(q, r)
<1>1. Len(q) \in Nat
  OBVIOUS
<1> QED BY <1>1 DEF Added, NoNewCompleted

LEMMA SameHarmless ==
  ASSUME NEW q \in Seq(Messages)
  PROVE  NoNewCompleted(q, q)
<1>1. Len(q) \in Nat
  OBVIOUS
<1> QED BY <1>1 DEF NoNewCompleted

LEMMA HarmlessTwice ==
  ASSUME NEW q \in Seq(Messages), NEW r \in Seq(Messages), NEW t,
         NoNewCompleted(q, r), NoNewCompleted(r, t)
  PROVE  NoNewCompleted(q, t)
<1>1. Len(q) \in Nat /\ Len(r) \in Nat
  OBVIOUS
<1> QED BY <1>1 DEF NoNewCompleted

-----------------------------------------------------------------------------
\* The two functions return.
LEMMA UpReturns ==
  ASSUME TypeOK, NEW q \in Seq(Messages), NEW res \in Results,
         NEW aborted \in BOOLEAN, NEW handle, UpReturn(q, res, aborted, handle)
  PROVE  /\ up'.pc \in {"idle", "reply"} /\ up'.buffered = {}
         /\ up'.handle = handle /\ up'.res = res /\ up'.my_answer = up.my_answer
         /\ Initiator = "down" => up'.pc = "idle"
         /\ toDown' = q \/ (Initiator = "down" /\ Added(q, toDown', Reply(res)))
         /\ ~alive => toDown' = q
         /\ alive' => alive
<1>1. Reply(res) \in Messages
  BY MessageTypes
<1>2. Added(q, Append(q, Reply(res)), Reply(res))
  BY <1>1, AppendAdds
<1>3. /\ up'.pc \in {"idle", "reply"} /\ up'.buffered = {}
      /\ up'.handle = handle /\ up'.res = res /\ up'.my_answer = up.my_answer
      /\ Initiator = "down" => up'.pc = "idle"
      /\ toDown' = q \/ (Initiator = "down" /\ toDown' = Append(q, Reply(res)))
      /\ ~alive => toDown' = q
      /\ alive' => alive
  BY FileTransferAssumption
     DEF UpReturn, AfterReturn, Returned, StillOpen, Send, TypeOK
<1> QED BY <1>2, <1>3

LEMMA DownReturns ==
  ASSUME TypeOK, NEW q \in Seq(Messages), NEW res \in Results,
         NEW aborted \in BOOLEAN, NEW handle, DownReturn(q, res, aborted, handle)
  PROVE  /\ down'.pc \in {"idle", "reply"}
         /\ down'.handle = handle /\ down'.res = res
         /\ down'.my_answer = down.my_answer
         /\ Initiator = "up" => down'.pc = "idle"
         /\ toUp' = q \/ (Initiator = "up" /\ Added(q, toUp', Reply(res)))
         /\ ~alive => toUp' = q
         /\ alive' => alive
<1>1. Reply(res) \in Messages
  BY MessageTypes
<1>2. Added(q, Append(q, Reply(res)), Reply(res))
  BY <1>1, AppendAdds
<1>3. /\ down'.pc \in {"idle", "reply"}
      /\ down'.handle = handle /\ down'.res = res
      /\ down'.my_answer = down.my_answer
      /\ Initiator = "up" => down'.pc = "idle"
      /\ toUp' = q \/ (Initiator = "up" /\ toUp' = Append(q, Reply(res)))
      /\ ~alive => toUp' = q
      /\ alive' => alive
  BY FileTransferAssumption
     DEF DownReturn, AfterReturn, Returned, StillOpen, Send, TypeOK
<1> QED BY <1>2, <1>3

\* The result names, as the provers need them.
LEMMA ResultNames ==
  {"none", "Completed", "Bad handshake", "Bad handshake 2",
   "Error receiving size", "Error receiving packet", "Error writing",
   "Error reading"} = Results
BY DEF Results

LEMMA UpRefuses ==
  ASSUME TypeOK, NEW q \in Seq(Messages), NEW f, UpRefuse(q, f)
  PROVE  /\ up'.pc \in {"idle", "reply"} /\ up'.buffered = {}
         /\ up'.handle = FALSE /\ up'.res = "Bad handshake"
         /\ Initiator = "down" => up'.pc = "idle"
         /\ toDown' = q \/ (Initiator = "down" /\ Added(q, toDown', Reply("Bad handshake")))
         /\ ~alive => toDown' = q
         /\ alive' => alive
         /\ file' \in {NoFile, f}
<1>1. UpReturn(q, "Bad handshake", FALSE, FALSE)
  BY DEF UpRefuse
<1>2. "Bad handshake" \in Results /\ FALSE \in BOOLEAN
  BY ResultNames
<1>3. /\ up'.pc \in {"idle", "reply"} /\ up'.buffered = {}
      /\ up'.handle = FALSE /\ up'.res = "Bad handshake"
      /\ Initiator = "down" => up'.pc = "idle"
      /\ toDown' = q \/ (Initiator = "down" /\ Added(q, toDown', Reply("Bad handshake")))
      /\ ~alive => toDown' = q
      /\ alive' => alive
  BY <1>1, <1>2, UpReturns
<1>4. file' \in {NoFile, f}
  BY DEF UpRefuse
<1> QED BY <1>3, <1>4

-----------------------------------------------------------------------------
LEMMA UpOpenCases ==
  ASSUME TypeOK, UpOpen
  PROVE  /\ up.pc = "start"
         /\ Initiator = "down" => Taken(toUp, toUp')
         /\ Initiator = "up" => toUp' = toUp
         /\ session_next' = IF is_continue THEN session_next ELSE 0
         /\ UNCHANGED <<is_continue, down, received_info>>
         /\ file' \in {file, NoFile} \/ (~is_continue /\ file' = TruncatedFile)
         /\ \/ /\ up'.pc = "answer" /\ up'.res = up.res
               /\ up'.buffered = up.buffered
               /\ up'.handle \in BOOLEAN /\ up'.my_answer = up'.handle
               /\ file' = file \/ (~is_continue /\ file' = TruncatedFile)
               /\ up'.handle => \/ is_continue /\ file.exists /\ file' = file
                                \/ ~is_continue /\ file' = TruncatedFile
               /\ alive => Added(toDown, toDown', Answer(up'.my_answer))
               /\ ~alive => toDown' = toDown
               /\ alive' = alive
            \/ /\ ~alive /\ ~alive'
               /\ up'.pc \in {"idle", "reply"} /\ up'.buffered = {}
               /\ up'.handle = FALSE /\ up'.res = "Bad handshake"
               /\ Initiator = "down" => up'.pc = "idle"
               /\ toDown' = toDown
<1>1. PICK opened \in BOOLEAN :
        /\ opened /\ is_continue => file.exists
        /\ LET f == IF opened /\ ~is_continue THEN TruncatedFile ELSE file
           IN \/ /\ toDown' = Send(toDown, Answer(opened))
                 /\ up' = [up EXCEPT !.pc = "answer", !.handle = opened,
                                     !.my_answer = opened]
                 /\ file' = f
                 /\ UNCHANGED alive
              \/ ~alive /\ UpRefuse(toDown, f)
  BY DEF UpOpen
<1> DEFINE f == IF opened /\ ~is_continue THEN TruncatedFile ELSE file
<1>2. /\ up.pc = "start"
      /\ Initiator = "down" => Taken(toUp, toUp')
      /\ Initiator = "up" => toUp' = toUp
      /\ session_next' = IF is_continue THEN session_next ELSE 0
      /\ UNCHANGED <<is_continue, down, received_info>>
  BY FileTransferAssumption, TailTakes DEF UpOpen, ResumePoint, TypeOK
<1>3. CASE /\ toDown' = Send(toDown, Answer(opened))
           /\ up' = [up EXCEPT !.pc = "answer", !.handle = opened,
                               !.my_answer = opened]
           /\ file' = f
           /\ UNCHANGED alive
  <2>1. /\ up'.pc = "answer" /\ up'.res = up.res /\ up'.buffered = up.buffered
        /\ up'.handle = opened /\ up'.my_answer = opened
    BY <1>3 DEF TypeOK
  <2>2. /\ alive => Added(toDown, toDown', Answer(opened))
        /\ ~alive => toDown' = toDown
    <3>1. Answer(opened) \in Messages /\ toDown \in Seq(Messages)
      BY MessageTypes DEF TypeOK
    <3>2. toDown' = Send(toDown, Answer(opened))
      BY <1>3
    <3> QED BY <3>1, <3>2, SendAdds
  <2> QED BY <1>1, <1>2, <1>3, <2>1, <2>2
<1>4. CASE ~alive /\ UpRefuse(toDown, f)
  <2>1. /\ up'.pc \in {"idle", "reply"} /\ up'.buffered = {}
        /\ up'.handle = FALSE /\ up'.res = "Bad handshake"
        /\ Initiator = "down" => up'.pc = "idle"
        /\ ~alive => toDown' = toDown
        /\ alive' => alive
        /\ file' \in {NoFile, f}
    BY <1>4, UpRefuses DEF TypeOK
  <2> QED BY <1>2, <1>4, <2>1
<1> QED BY <1>1, <1>3, <1>4

LEMMA UpAnswerCases ==
  ASSUME TypeOK, UpAnswer
  PROVE  /\ up.pc = "answer" /\ TakenIn(toUp, toUp')
         /\ UNCHANGED <<is_continue, down, session_next, received_info>>
         /\ \/ /\ up'.pc \in {"idle", "reply"} /\ up'.buffered = {}
               /\ Initiator = "down" => up'.pc = "idle"
               /\ \/ up'.res = "Bad handshake" /\ up'.handle = FALSE
                  \/ up'.res = "Bad handshake 2" /\ file' = file
               /\ file' \in {NoFile, file}
               /\ NoNewCompleted(toDown, toDown')
            \/ /\ up'.pc = "size" /\ up'.handle = up.handle
               /\ up'.res = up.res /\ up'.my_answer /\ up.my_answer
               /\ up'.buffered = up.buffered
               /\ toUp[1].type = "answer" => toUp[1].ok
               /\ ~alive => toDown' = toDown
               /\ alive /\ ~is_continue => Added(toDown, toDown', Answer(TRUE))
               /\ alive /\ is_continue =>
                    /\ Len(toDown') = Len(toDown) + 2
                    /\ \A i \in 1 .. Len(toDown) : toDown'[i] = toDown[i]
                    /\ toDown'[Len(toDown) + 1] = Answer(TRUE)
                    /\ toDown'[Len(toDown) + 2] = LastReceived(session_next)
               /\ UNCHANGED <<alive, file>>
<1>1. PICK other \in AnswerRead(toUp) :
        LET agreed == Agreed(up.my_answer, other)
            sent == Send(toDown, Answer(agreed))
        IN \/ ~agreed /\ UpRefuse(sent, file)
           \/ ~alive /\ UpRefuse(toDown, file)
           \/ /\ agreed
              /\ toDown' = IF is_continue THEN Send(sent, LastReceived(session_next))
                           ELSE sent
              /\ up' = [up EXCEPT !.pc = "size", !.my_answer = agreed]
              /\ UNCHANGED <<alive, file>>
           \/ /\ agreed /\ is_continue /\ ~alive
              /\ UpReturn(sent, "Bad handshake 2", FALSE, up.handle)
              /\ UNCHANGED file
  BY DEF UpAnswer
<1> DEFINE agreed == Agreed(up.my_answer, other)
           sent == Send(toDown, Answer(agreed))
<1>2. /\ up.pc = "answer" /\ TakenIn(toUp, toUp')
      /\ UNCHANGED <<is_continue, down, session_next, received_info>>
      /\ Head(toUp) = toUp[1]
  BY ReceivedTakes DEF UpAnswer, TypeOK
<1>3. /\ up.my_answer \in BOOLEAN /\ other \in BOOLEAN
      /\ toUp[1].type = "answer" => other = toUp[1].ok
  BY <1>2, ReceivedType DEF UpAnswer, AnswerRead, TypeOK
<1>4. agreed \in BOOLEAN /\ (agreed => up.my_answer /\ other)
  BY <1>3 DEF Agreed
<1>5. toDown \in Seq(Messages) /\ Len(toDown) \in Nat /\ Answer(agreed) \in Messages
  BY <1>4, MessageTypes DEF TypeOK
<1>6. /\ sent \in Seq(Messages)
      /\ ~alive => sent = toDown
      /\ alive => Added(toDown, sent, Answer(agreed))
  BY <1>5, SendAdds, SendType
<1> HIDE DEF sent
<1>7. CASE UpRefuse(sent, file) \/ UpRefuse(toDown, file)
  <2>1. PICK q \in {sent, toDown} : UpRefuse(q, file)
    BY <1>7
  <2>2. /\ up'.pc \in {"idle", "reply"} /\ up'.buffered = {}
        /\ up'.handle = FALSE /\ up'.res = "Bad handshake"
        /\ Initiator = "down" => up'.pc = "idle"
        /\ toDown' = q \/ Added(q, toDown', Reply("Bad handshake"))
        /\ file' \in {NoFile, file}
    BY <1>5, <1>6, <2>1, UpRefuses
  <2>3. Len(q) \in Nat /\ (q = toDown \/ Added(toDown, q, Answer(agreed)))
    BY <1>5, <1>6, <2>1
  <2>4. q \in Seq(Messages) /\ NoNewCompleted(toDown, q)
    BY <1>5, <1>6, <2>3, AddedHarmless, SameHarmless
  <2>5. NoNewCompleted(q, toDown')
    BY <2>2, <2>4, AddedHarmless, SameHarmless
  <2>6. NoNewCompleted(toDown, toDown')
    BY <1>5, <2>4, <2>5, HarmlessTwice
  <2> QED BY <1>2, <2>2, <2>6
<1>8. CASE /\ agreed
           /\ toDown' = IF is_continue THEN Send(sent, LastReceived(session_next))
                        ELSE sent
           /\ up' = [up EXCEPT !.pc = "size", !.my_answer = agreed]
           /\ UNCHANGED <<alive, file>>
  <2>1. agreed = TRUE
    BY <1>4, <1>8
  <2>2. /\ up'.pc = "size" /\ up'.handle = up.handle
        /\ up'.res = up.res /\ up'.my_answer = agreed /\ up'.buffered = up.buffered
    BY <1>8 DEF TypeOK
  <2>3. LastReceived(session_next) \in Messages
    BY MessageTypes DEF TypeOK
  <2> DEFINE both == Send(sent, LastReceived(session_next))
  <2>4. /\ ~alive => both = sent
        /\ alive => Added(sent, both, LastReceived(session_next))
    BY <1>6, <2>3, SendAdds
  <2>5. toDown' = IF is_continue THEN both ELSE sent
    BY <1>8
  <2> HIDE DEF both, agreed
  <2>6. alive /\ ~is_continue => Added(toDown, toDown', Answer(TRUE))
    BY <1>6, <2>1, <2>5
  <2>7. alive /\ is_continue =>
          /\ Len(toDown') = Len(toDown) + 2
          /\ \A i \in 1 .. Len(toDown) : toDown'[i] = toDown[i]
          /\ toDown'[Len(toDown) + 1] = Answer(TRUE)
          /\ toDown'[Len(toDown) + 2] = LastReceived(session_next)
    <3> SUFFICES ASSUME alive, is_continue
                 PROVE  /\ Len(both) = Len(toDown) + 2
                        /\ \A i \in 1 .. Len(toDown) : both[i] = toDown[i]
                        /\ both[Len(toDown) + 1] = Answer(TRUE)
                        /\ both[Len(toDown) + 2] = LastReceived(session_next)
      BY <2>5
    <3>1. /\ Len(sent) = Len(toDown) + 1
          /\ \A i \in 1 .. Len(toDown) : sent[i] = toDown[i]
          /\ sent[Len(toDown) + 1] = Answer(TRUE)
      BY <1>6, <2>1 DEF Added
    <3>2. /\ Len(both) = Len(sent) + 1
          /\ \A i \in 1 .. Len(sent) : both[i] = sent[i]
          /\ both[Len(sent) + 1] = LastReceived(session_next)
      BY <2>4 DEF Added
    <3> QED BY <1>5, <3>1, <3>2
  <2>8. ~alive => toDown' = toDown
    BY <1>6, <2>4, <2>5
  <2>9. toUp[1].type = "answer" => toUp[1].ok
    BY <1>3, <1>4, <2>1
  <2> QED BY <1>2, <1>4, <1>8, <2>1, <2>2, <2>6, <2>7, <2>8, <2>9
<1>9. CASE UpReturn(sent, "Bad handshake 2", FALSE, up.handle) /\ UNCHANGED file
  <2>1. /\ up'.pc \in {"idle", "reply"} /\ up'.res = "Bad handshake 2"
        /\ up'.buffered = {}
        /\ Initiator = "down" => up'.pc = "idle"
        /\ toDown' = sent \/ Added(sent, toDown', Reply("Bad handshake 2"))
    BY <1>6, <1>9, UpReturns, ResultNames
  <2>2. NoNewCompleted(toDown, sent)
    BY <1>5, <1>6, AddedHarmless, SameHarmless
  <2>3. NoNewCompleted(sent, toDown')
    BY <1>6, <2>1, AddedHarmless, SameHarmless
  <2>4. NoNewCompleted(toDown, toDown')
    BY <1>5, <1>6, <2>2, <2>3, HarmlessTwice
  <2> QED BY <1>2, <1>9, <2>1, <2>4
<1> QED BY <1>1, <1>7, <1>8, <1>9 DEF sent

LEMMA UpSizeCases ==
  ASSUME TypeOK, UpSize
  PROVE  /\ up.pc = "size" /\ TakenIn(toUp, toUp')
         /\ up'.pc = "packet" /\ up'.handle = up.handle
         /\ up'.my_answer = up.my_answer /\ up'.res = up.res
         /\ up'.buffered = up.buffered
         /\ UNCHANGED <<is_continue, alive, toDown, down, session_next, file,
                        received_info>>
BY ReceivedTakes DEF UpSize, TypeOK

LEMMA UpPacketCases ==
  ASSUME TypeOK, UpPacket
  PROVE  /\ up.pc = "packet" /\ Taken(toUp, toUp')
         /\ toUp[1].type = "packet" /\ toUp[1].sector \in Nat
         /\ session_next' = session_next + 1
         /\ UNCHANGED <<is_continue, down, received_info>>
         /\ \/ /\ IsLast(toUp[1].sector)
               /\ up'.pc \in {"idle", "reply"} /\ up'.handle = FALSE
               /\ up'.res = "Completed" /\ up'.buffered = {}
               /\ file' \in Closed(Flushed(file, up.buffered),
                                 {toUp[1].sector} \cap Sectors)
               /\ Initiator = "down" => up'.pc = "idle"
               /\ \/ toDown' = toDown
                  \/ /\ Initiator = "down"
                     /\ Added(toDown, toDown', Reply("Completed"))
               /\ alive' => alive
            \/ /\ ~IsLast(toUp[1].sector)
               /\ up'.pc = "size" /\ up'.handle = up.handle
               /\ up'.my_answer = up.my_answer /\ up'.res = up.res
               /\ up'.buffered = {toUp[1].sector} \cap Sectors
               /\ file' = Flushed(file, up.buffered)
               /\ UNCHANGED <<alive, toDown>>
<1>1. toUp # <<>> /\ Head(toUp) = toUp[1] /\ toUp[1] \in Messages
      /\ Taken(toUp, Tail(toUp))
  BY TailTakes DEF UpPacket, TypeOK
<1>2. /\ up.pc = "packet" /\ toUp' = Tail(toUp) /\ toUp[1].type = "packet"
      /\ session_next' = session_next + 1
      /\ UNCHANGED <<is_continue, down, received_info>>
      /\ \/ /\ IsLast(toUp[1].sector)
            /\ UpReturn(toDown, "Completed", FALSE, FALSE)
            /\ file' \in Closed(Flushed(file, up.buffered),
                              {toUp[1].sector} \cap Sectors)
         \/ /\ ~IsLast(toUp[1].sector)
            /\ up' = [up EXCEPT !.pc = "size",
                               !.buffered = {toUp[1].sector} \cap Sectors]
            /\ file' = Flushed(file, up.buffered)
            /\ UNCHANGED <<alive, toDown>>
  BY <1>1 DEF UpPacket
<1>3. toUp[1].sector \in Nat
  BY <1>1, <1>2 DEF Messages
<1>4. CASE /\ IsLast(toUp[1].sector)
           /\ UpReturn(toDown, "Completed", FALSE, FALSE)
           /\ file' \in Closed(Flushed(file, up.buffered),
                             {toUp[1].sector} \cap Sectors)
  <2>1. /\ up'.pc \in {"idle", "reply"} /\ up'.handle = FALSE
        /\ up'.res = "Completed" /\ up'.buffered = {}
        /\ Initiator = "down" => up'.pc = "idle"
        /\ \/ toDown' = toDown
           \/ Initiator = "down" /\ Added(toDown, toDown', Reply("Completed"))
        /\ alive' => alive
    BY <1>4, UpReturns, ResultNames DEF TypeOK
  <2> QED BY <1>1, <1>2, <1>3, <1>4, <2>1
<1>5. CASE /\ ~IsLast(toUp[1].sector)
           /\ up' = [up EXCEPT !.pc = "size",
                              !.buffered = {toUp[1].sector} \cap Sectors]
           /\ file' = Flushed(file, up.buffered)
           /\ UNCHANGED <<alive, toDown>>
  <2>1. /\ up'.pc = "size" /\ up'.handle = up.handle
        /\ up'.my_answer = up.my_answer /\ up'.res = up.res
        /\ up'.buffered = {toUp[1].sector} \cap Sectors
    BY <1>5 DEF TypeOK
  <2> QED BY <1>1, <1>2, <1>3, <1>5, <2>1
<1> QED BY <1>2, <1>4, <1>5

\* The four ways in which a read or a write of the receiver fails.
LEMMA UpLostCases ==
  ASSUME TypeOK, UpAnswerLost \/ UpSizeLost \/ UpWriteError \/ UpPacketLost
  PROVE  /\ up.pc \in {"answer", "size", "packet"}
         /\ up'.pc \in {"idle", "reply"} /\ up'.handle = FALSE
         /\ up'.res \notin {"none", "Completed"} /\ up'.buffered = {}
         /\ Initiator = "down" => up'.pc = "idle"
         /\ NoNewCompleted(toDown, toDown')
         /\ up.pc = "answer" => file' \in {file, NoFile}
         /\ UpMoving => \/ file' \in Closed(file, up.buffered)
                        \/ file' = Dropped(file, up.buffered) /\ Fault
         /\ UNCHANGED <<is_continue, down, session_next, received_info>>
<1>1. toDown \in Seq(Messages) /\ Len(toDown) \in Nat /\ FALSE \in BOOLEAN
      /\ TRUE \in BOOLEAN
  BY DEF TypeOK
<1>2. CASE UpAnswerLost
  <2>1. /\ UpRefuse(toDown, file) /\ up.pc = "answer"
        /\ UNCHANGED <<is_continue, down, session_next, received_info>>
    BY <1>2 DEF UpAnswerLost
  <2>2. /\ up'.pc \in {"idle", "reply"}
        /\ up'.handle = FALSE /\ up'.res = "Bad handshake" /\ up'.buffered = {}
        /\ Initiator = "down" => up'.pc = "idle"
        /\ toDown' = toDown \/ Added(toDown, toDown', Reply("Bad handshake"))
        /\ file' \in {NoFile, file}
    BY <1>1, <2>1, UpRefuses
  <2>3. NoNewCompleted(toDown, toDown')
    BY <1>1, <2>2, AddedHarmless, SameHarmless
  <2> QED BY <2>1, <2>2, <2>3 DEF UpMoving
<1>3. CASE UpSizeLost \/ UpWriteError \/ UpPacketLost
  <2>1. /\ up.pc \in {"size", "packet"}
        /\ \/ file' \in Closed(file, up.buffered)
           \/ file' = Dropped(file, up.buffered) /\ Fault
        /\ UNCHANGED <<is_continue, down, session_next, received_info>>
    BY <1>3 DEF UpSizeLost, UpWriteError, UpPacketLost, Closed
  <2>2. PICK res \in Results \ {"none", "Completed"}, aborted \in BOOLEAN :
          UpReturn(toDown, res, aborted, FALSE)
    BY <1>1, <1>3 DEF UpSizeLost, UpWriteError, UpPacketLost, Results
  <2>3. /\ up'.pc \in {"idle", "reply"}
        /\ up'.handle = FALSE /\ up'.res = res /\ up'.buffered = {}
        /\ Initiator = "down" => up'.pc = "idle"
        /\ toDown' = toDown \/ Added(toDown, toDown', Reply(res))
    BY <1>1, <2>2, UpReturns
  <2>4. NoNewCompleted(toDown, toDown')
    BY <1>1, <2>2, <2>3, AddedHarmless, SameHarmless
  <2> QED BY <2>1, <2>2, <2>3, <2>4
<1> QED BY <1>2, <1>3

-----------------------------------------------------------------------------
LEMMA DownOpenCases ==
  ASSUME TypeOK, DownOpen
  PROVE  /\ down.pc = "start"
         /\ Initiator = "up" => Taken(toDown, toDown')
         /\ Initiator = "down" => toDown' = toDown
         /\ down'.pc = "first" /\ down'.handle \in BOOLEAN
         /\ down'.my_answer = down'.handle /\ down'.next = down.next
         /\ UNCHANGED <<is_continue, alive, toUp, up, session_next, file,
                        received_info>>
<1>1. Initiator = "up" => Taken(toDown, toDown')
  BY TailTakes DEF DownOpen, TypeOK
<1>2. /\ Initiator = "down" => toDown' = toDown
      /\ down.pc = "start"
      /\ UNCHANGED <<is_continue, alive, toUp, up, session_next, file,
                     received_info>>
  BY DEF DownOpen
<1>3. /\ down'.pc = "first" /\ down'.handle \in BOOLEAN
      /\ down'.my_answer = down'.handle /\ down'.next = down.next
  BY DEF DownOpen, TypeOK
<1> QED BY <1>1, <1>2, <1>3

LEMMA DownFirstCases ==
  ASSUME TypeOK, DownFirst
  PROVE  /\ down.pc = "first" /\ TakenIn(toDown, toDown')
         /\ UNCHANGED <<is_continue, up, session_next, file, received_info>>
         /\ down'.next = down.next
         /\ \/ /\ down'.pc = "confirm" /\ down'.handle = down.handle
               /\ down'.my_answer \in BOOLEAN
               /\ down'.my_answer => down.my_answer
               /\ toDown[1].type = "answer" =>
                    down'.my_answer = (down.my_answer /\ toDown[1].ok)
               /\ alive => Added(toUp, toUp', Answer(down'.my_answer))
               /\ ~alive => toUp' = toUp
               /\ alive' = alive
            \/ /\ ~alive /\ ~alive'
               /\ down'.pc \in {"idle", "reply"} /\ down'.handle = FALSE
               /\ Initiator = "up" => down'.pc = "idle"
               /\ toUp' = toUp
<1>1. PICK other \in AnswerRead(toDown) :
        LET agreed == Agreed(down.my_answer, other)
        IN \/ /\ toUp' = Send(toUp, Answer(agreed))
              /\ down' = [down EXCEPT !.pc = "confirm", !.my_answer = agreed]
              /\ UNCHANGED alive
           \/ ~alive /\ DownReturn(toUp, "Bad handshake", FALSE, FALSE)
  BY DEF DownFirst
<1> DEFINE agreed == Agreed(down.my_answer, other)
<1>2. /\ down.pc = "first" /\ TakenIn(toDown, toDown')
      /\ UNCHANGED <<is_continue, up, session_next, file, received_info>>
      /\ Head(toDown) = toDown[1]
  BY ReceivedTakes DEF DownFirst, TypeOK
<1>3. /\ down.my_answer \in BOOLEAN /\ other \in BOOLEAN
      /\ toDown[1].type = "answer" => other = toDown[1].ok
  BY <1>2, ReceivedType DEF DownFirst, AnswerRead, TypeOK
<1>4. agreed \in BOOLEAN /\ agreed = (down.my_answer /\ other)
  BY <1>3 DEF Agreed
<1>5. toUp \in Seq(Messages) /\ Answer(agreed) \in Messages
  BY <1>4, MessageTypes DEF TypeOK
<1>6. CASE /\ toUp' = Send(toUp, Answer(agreed))
           /\ down' = [down EXCEPT !.pc = "confirm", !.my_answer = agreed]
           /\ UNCHANGED alive
  <2>1. /\ down'.pc = "confirm" /\ down'.handle = down.handle
        /\ down'.my_answer = agreed /\ down'.next = down.next
    BY <1>6 DEF TypeOK
  <2>2. /\ alive => Added(toUp, toUp', Answer(agreed))
        /\ ~alive => toUp' = toUp
    BY <1>5, <1>6, SendAdds
  <2> HIDE DEF agreed
  <2>3. /\ down'.my_answer \in BOOLEAN
        /\ down'.my_answer => down.my_answer
        /\ toDown[1].type = "answer" =>
             down'.my_answer = (down.my_answer /\ toDown[1].ok)
    BY <1>3, <1>4, <2>1
  <2> QED BY <1>2, <1>6, <2>1, <2>2, <2>3
<1>7. CASE ~alive /\ DownReturn(toUp, "Bad handshake", FALSE, FALSE)
  <2>1. /\ down'.pc \in {"idle", "reply"} /\ down'.handle = FALSE
        /\ Initiator = "up" => down'.pc = "idle"
        /\ toUp' = toUp /\ (alive' => alive)
    BY <1>5, <1>7, DownReturns, ResultNames
  <2>2. down'.next = down.next
    BY <1>7 DEF DownReturn, TypeOK
  <2> QED BY <1>2, <1>7, <2>1, <2>2
<1> QED BY <1>1, <1>6, <1>7

LEMMA DownConfirmCases ==
  ASSUME TypeOK, DownConfirm
  PROVE  /\ down.pc = "confirm" /\ TakenIn(toDown, toDown')
         /\ UNCHANGED <<is_continue, up, session_next, file, received_info>>
         /\ down'.next = down.next
         /\ \/ /\ down.my_answer /\ down'.my_answer
               /\ down'.pc = IF is_continue THEN "last" ELSE "send"
               /\ down'.handle = down.handle
               /\ UNCHANGED <<alive, toUp>>
            \/ /\ ~down.my_answer
               /\ down'.pc \in {"idle", "reply"} /\ down'.handle = FALSE
               /\ Initiator = "up" => down'.pc = "idle"
               /\ ReplyAdded(toUp, toUp')
               /\ Initiator = "down" => toUp' = toUp
               /\ alive' => alive
<1>1. /\ down.pc = "confirm" /\ TakenIn(toDown, toDown')
      /\ UNCHANGED <<is_continue, up, session_next, file, received_info>>
  BY ReceivedTakes DEF DownConfirm, TypeOK
<1>2. CASE /\ down.my_answer
           /\ down' = [down EXCEPT !.pc = IF is_continue THEN "last" ELSE "send"]
           /\ UNCHANGED <<alive, toUp>>
  <2>1. /\ down'.pc = IF is_continue THEN "last" ELSE "send"
        /\ down'.handle = down.handle /\ down'.next = down.next
        /\ down'.my_answer = down.my_answer
    BY <1>2 DEF TypeOK
  <2> QED BY <1>1, <1>2, <2>1
<1>3. CASE /\ ~down.my_answer
           /\ DownReturn(toUp, "Bad handshake", FALSE, FALSE)
  <2>1. toUp \in Seq(Messages)
    BY DEF TypeOK
  <2>2. /\ down'.pc \in {"idle", "reply"} /\ down'.handle = FALSE
        /\ Initiator = "up" => down'.pc = "idle"
        /\ \/ toUp' = toUp
           \/ Initiator = "up" /\ Added(toUp, toUp', Reply("Bad handshake"))
        /\ alive' => alive
    BY <1>3, <2>1, DownReturns, ResultNames
  <2>3. ReplyAdded(toUp, toUp')
    BY <2>1, <2>2, ReplyAdds
  <2>4. down'.next = down.next
    BY <1>3 DEF DownReturn, TypeOK
  <2>5. Initiator = "down" => toUp' = toUp
    BY <2>2
  <2> QED BY <1>1, <1>3, <2>2, <2>3, <2>4, <2>5
<1> QED BY <1>2, <1>3 DEF DownConfirm

LEMMA DownLastCases ==
  ASSUME TypeOK, DownLast
  PROVE  /\ down.pc = "last" /\ TakenIn(toDown, toDown')
         /\ down'.pc = "send" /\ down'.handle = down.handle
         /\ down'.my_answer = down.my_answer
         /\ toDown[1].type = "last" => down'.next = toDown[1].part
         /\ UNCHANGED <<is_continue, alive, toUp, up, session_next, file,
                        received_info>>
<1>1. TakenIn(toDown, toDown') /\ Head(toDown) = toDown[1]
  BY ReceivedTakes DEF DownLast, TypeOK
<1>2. /\ down.pc = "last"
      /\ down'.pc = "send" /\ down'.handle = down.handle
      /\ down'.my_answer = down.my_answer /\ down'.next = LastRead(toDown)
      /\ UNCHANGED <<is_continue, alive, toUp, up, session_next, file,
                     received_info>>
  BY DEF DownLast, TypeOK
<1> QED BY <1>1, <1>2 DEF LastRead

\* The three ways in which a read of the sender, or of its file, fails.
LEMMA DownLostCases ==
  ASSUME TypeOK, DownAnswerLost \/ DownLastLost \/ DownReadError
  PROVE  /\ down.pc \in {"first", "confirm", "last", "send"}
         /\ down'.pc \in {"idle", "reply"}
         /\ down'.res = "Bad handshake 2" \/ down'.handle = FALSE
         /\ Initiator = "up" => down'.pc = "idle"
         /\ ReplyAdded(toUp, toUp')
         /\ Initiator = "down" => toUp' = toUp
         /\ alive' => alive
         /\ UNCHANGED <<is_continue, toDown, up, session_next, file,
                        received_info>>
<1>1. toUp \in Seq(Messages)
  BY DEF TypeOK
<1>2. /\ down.pc \in {"first", "confirm", "last", "send"}
      /\ UNCHANGED <<is_continue, toDown, up, session_next, file,
                     received_info>>
  BY DEF DownAnswerLost, DownLastLost, DownReadError, DownRecvFails
<1>3. PICK res \in Results, handle \in BOOLEAN :
        /\ DownReturn(toUp, res, FALSE, handle)
        /\ res = "Bad handshake 2" \/ handle = FALSE
  BY ResultNames DEF DownAnswerLost, DownLastLost, DownReadError, TypeOK
<1>4. /\ down'.pc \in {"idle", "reply"}
      /\ down'.handle = handle /\ down'.res = res
      /\ Initiator = "up" => down'.pc = "idle"
      /\ toUp' = toUp \/ (Initiator = "up" /\ Added(toUp, toUp', Reply(res)))
      /\ alive' => alive
  BY <1>1, <1>3, DownReturns
<1>5. ReplyAdded(toUp, toUp')
  BY <1>1, <1>4, ReplyAdds
<1>6. Initiator = "down" => toUp' = toUp
  BY <1>4
<1> QED BY <1>2, <1>3, <1>4, <1>5, <1>6

\* Over a dead connection nothing is added; otherwise a size, its packet and,
\* from a server that is done, the answer line.
LEMMA DownSendCases ==
  ASSUME TypeOK, DownSend
  PROVE  /\ down.pc = "send" /\ down.next \in Nat
         /\ UNCHANGED <<is_continue, toDown, up, session_next, file,
                        received_info>>
         /\ alive' => alive
         /\ ~alive => toUp' = toUp
         /\ alive =>
              /\ Len(toUp') \in {Len(toUp) + 2, Len(toUp) + 3}
              /\ \A i \in 1 .. Len(toUp) : toUp'[i] = toUp[i]
              /\ toUp'[Len(toUp) + 1] = Size(down.next)
              /\ toUp'[Len(toUp) + 2] = Packet(down.next)
              /\ Len(toUp') = Len(toUp) + 3 => toUp'[Len(toUp) + 3].type = "reply"
         /\ \/ /\ down'.pc \in {"idle", "reply"} /\ down'.handle = FALSE
               /\ Initiator = "up" => down'.pc = "idle"
            \/ /\ down'.pc = "send" /\ down'.next = down.next + 1
               /\ down'.handle = down.handle /\ down'.my_answer = down.my_answer
               /\ UNCHANGED alive
               /\ alive => Len(toUp') = Len(toUp) + 2
<1> DEFINE k == down.next
           one == Send(toUp, Size(k))
           sent == Send(one, Packet(k))
<1>1. k \in Nat /\ toUp \in Seq(Messages) /\ Len(toUp) \in Nat
  BY DEF TypeOK
<1>2. Size(k) \in Messages /\ Packet(k) \in Messages
  BY <1>1, MessageTypes
<1>3. one \in Seq(Messages) /\ sent \in Seq(Messages)
  BY <1>1, <1>2, SendType
<1>4. ~alive => sent = toUp
  BY DEF Send
<1>5. alive => Added(toUp, one, Size(k)) /\ Added(one, sent, Packet(k))
  BY <1>1, <1>2, <1>3, SendAdds
<1>6. /\ down.pc = "send"
      /\ UNCHANGED <<is_continue, toDown, up, session_next, file,
                     received_info>>
      /\ \/ DownReturn(sent, "Completed", FALSE, FALSE)
         \/ /\ toUp' = sent
            /\ down' = [down EXCEPT !.next = k + 1]
            /\ UNCHANGED alive
  BY DEF DownSend
<1> HIDE DEF one, sent
<1>7. alive => /\ Len(sent) = Len(toUp) + 2
               /\ \A i \in 1 .. Len(toUp) : sent[i] = toUp[i]
               /\ sent[Len(toUp) + 1] = Size(k)
               /\ sent[Len(toUp) + 2] = Packet(k)
  BY <1>1, <1>5 DEF Added
<1>8. CASE DownReturn(sent, "Completed", FALSE, FALSE)
  <2>1. /\ down'.pc \in {"idle", "reply"} /\ down'.handle = FALSE
        /\ Initiator = "up" => down'.pc = "idle"
        /\ toUp' = sent \/ Added(sent, toUp', Reply("Completed"))
        /\ ~alive => toUp' = sent
        /\ alive' => alive
    BY <1>3, <1>8, DownReturns, ResultNames
  <2>2. /\ Len(toUp') \in {Len(sent), Len(sent) + 1}
        /\ \A i \in 1 .. Len(sent) : toUp'[i] = sent[i]
        /\ Len(toUp') = Len(sent) + 1 => toUp'[Len(sent) + 1].type = "reply"
    BY <1>3, <2>1, ReplyAdds DEF ReplyAdded
  <2>3. alive =>
          /\ Len(toUp') \in {Len(toUp) + 2, Len(toUp) + 3}
          /\ \A i \in 1 .. Len(toUp) : toUp'[i] = toUp[i]
          /\ toUp'[Len(toUp) + 1] = Size(k)
          /\ toUp'[Len(toUp) + 2] = Packet(k)
          /\ Len(toUp') = Len(toUp) + 3 => toUp'[Len(toUp) + 3].type = "reply"
    BY <1>1, <1>7, <2>2
  <2> QED BY <1>1, <1>4, <1>6, <2>1, <2>3
<1>9. CASE /\ toUp' = sent
           /\ down' = [down EXCEPT !.next = k + 1]
           /\ UNCHANGED alive
  <2>1. /\ down'.pc = down.pc /\ down'.next = k + 1
        /\ down'.handle = down.handle /\ down'.my_answer = down.my_answer
    BY <1>9 DEF TypeOK
  <2>2. alive =>
          /\ Len(toUp') = Len(toUp) + 2
          /\ \A i \in 1 .. Len(toUp) : toUp'[i] = toUp[i]
          /\ toUp'[Len(toUp) + 1] = Size(k)
          /\ toUp'[Len(toUp) + 2] = Packet(k)
    BY <1>7, <1>9
  <2> QED BY <1>1, <1>4, <1>6, <1>9, <2>1, <2>2
<1> QED BY <1>6, <1>8, <1>9

\* Nothing, a size, an answer line, or both.
LEMMA DownSendFailsCases ==
  ASSUME TypeOK, DownSendFails
  PROVE  /\ down.pc = "send" /\ down.next \in Nat
         /\ UNCHANGED <<is_continue, toDown, up, session_next, file,
                        received_info>>
         /\ down'.pc \in {"idle", "reply"} /\ down'.handle = FALSE
         /\ Initiator = "up" => down'.pc = "idle"
         /\ alive' => alive
         /\ ~alive => toUp' = toUp
         /\ Len(toUp') \in Len(toUp) .. Len(toUp) + 2
         /\ \A i \in 1 .. Len(toUp) : toUp'[i] = toUp[i]
         /\ \A i \in Len(toUp) + 1 .. Len(toUp') :
              \/ toUp'[i].type = "reply"
              \/ /\ i = Len(toUp) + 1 /\ toUp'[i] = Size(down.next)
                 /\ alive
<1> DEFINE one == Send(toUp, Size(down.next))
<1>1. down.next \in Nat /\ toUp \in Seq(Messages) /\ Len(toUp) \in Nat
  BY DEF TypeOK
<1>2. Size(down.next) \in Messages
  BY <1>1, MessageTypes
<1>3. one \in Seq(Messages) /\ (~alive => one = toUp)
  BY <1>1, <1>2, SendType DEF Send
<1>4. alive => Added(toUp, one, Size(down.next))
  BY <1>1, <1>2, SendAdds
<1>5. PICK q \in {toUp, one} : DownReturn(q, "Completed", TRUE, FALSE)
  BY DEF DownSendFails
<1>6. /\ down.pc = "send"
      /\ UNCHANGED <<is_continue, toDown, up, session_next, file,
                     received_info>>
  BY DEF DownSendFails
<1> HIDE DEF one
<1>7. q \in Seq(Messages) /\ (~alive => q = toUp)
  BY <1>1, <1>3, <1>5
<1>8. /\ down'.pc \in {"idle", "reply"} /\ down'.handle = FALSE
      /\ Initiator = "up" => down'.pc = "idle"
      /\ toUp' = q \/ Added(q, toUp', Reply("Completed"))
      /\ ~alive => toUp' = q
      /\ alive' => alive
  BY <1>5, <1>7, DownReturns, ResultNames
<1>9. /\ Len(toUp') \in {Len(q), Len(q) + 1}
      /\ \A i \in 1 .. Len(q) : toUp'[i] = q[i]
      /\ Len(toUp') = Len(q) + 1 => toUp'[Len(q) + 1].type = "reply"
  BY <1>7, <1>8, ReplyAdds DEF ReplyAdded
<1>10. CASE q = toUp
  BY <1>1, <1>6, <1>7, <1>8, <1>9, <1>10
<1>11. CASE alive /\ q = one
  <2>1. /\ Len(q) = Len(toUp) + 1
        /\ \A i \in 1 .. Len(toUp) : q[i] = toUp[i]
        /\ q[Len(toUp) + 1] = Size(down.next)
    BY <1>4, <1>11 DEF Added
  <2>2. /\ Len(toUp') \in Len(toUp) .. Len(toUp) + 2
        /\ \A i \in 1 .. Len(toUp) : toUp'[i] = toUp[i]
        /\ \A i \in Len(toUp) + 1 .. Len(toUp') :
             \/ toUp'[i].type = "reply"
             \/ i = Len(toUp) + 1 /\ toUp'[i] = Size(down.next)
    BY <1>1, <1>9, <2>1
  <2> QED BY <1>1, <1>6, <1>8, <1>11, <2>2
<1> QED BY <1>3, <1>5, <1>10, <1>11

-----------------------------------------------------------------------------
\* The client's last read, and the commands it gives.
LEMMA ReadReplyCases ==
  ASSUME TypeOK, UpReadReply \/ UpReplyLost
  PROVE  /\ up.pc = "reply" /\ up'.pc = "idle"
         /\ \/ /\ up'.handle = up.handle /\ up'.res = up.res
               /\ up'.buffered = up.buffered /\ session_next' = session_next
            \/ up' = UpAtRest /\ session_next' = 0
         /\ alive' => alive
         /\ UNCHANGED <<is_continue, toDown, down, file>>
BY AtRest DEF UpReadReply, UpReplyLost, UpEnds, TypeOK

LEMMA DownReadReplyCases ==
  ASSUME TypeOK, DownReadReply
  PROVE  /\ down.pc = "reply" /\ down'.pc = "idle"
         /\ down'.handle = down.handle /\ down'.res = down.res
         /\ down'.next = down.next
         /\ UNCHANGED <<is_continue, alive, toUp, up, session_next, file>>
         /\ \E n \in 1 .. Len(toDown) :
              /\ Len(toDown') = Len(toDown) - n
              /\ \A i \in 1 .. Len(toDown') : toDown'[i] = toDown[n + i]
              /\ received_info' = "Completed" =>
                   n = 1 /\ toDown[1].type = "reply" /\ toDown[1].res = "Completed"
<1>1. /\ down.pc = "reply" /\ down'.pc = "idle"
      /\ down'.handle = down.handle /\ down'.res = down.res
      /\ down'.next = down.next
      /\ UNCHANGED <<is_continue, alive, toUp, up, session_next, file>>
  BY DEF DownReadReply, TypeOK
<1>2. toDown \in Seq(Messages) /\ Len(toDown) \in Nat
  BY DEF TypeOK
<1>3. PICK n \in LineEnds(toDown) :
        /\ received_info' = Line(toDown, n)
        /\ toDown' = SubSeq(toDown, n + 1, Len(toDown))
  BY DEF DownReadReply
<1>4. n \in 1 .. Len(toDown)
  BY DEF LineEnds
<1>5. /\ Len(toDown') = Len(toDown) - n
      /\ \A i \in 1 .. Len(toDown') : toDown'[i] = toDown[n + i]
  BY <1>2, <1>3, <1>4
<1>6. received_info' = "Completed" =>
        n = 1 /\ toDown[1].type = "reply" /\ toDown[1].res = "Completed"
  BY <1>3 DEF Line
<1> QED BY <1>1, <1>4, <1>5, <1>6

LEMMA DownReplyLostCases ==
  ASSUME TypeOK, DownReplyLost
  PROVE  /\ down.pc = "reply" /\ down'.pc = "idle"
         /\ down'.handle = down.handle /\ down'.res = down.res
         /\ down'.next = down.next
         /\ ~alive' /\ Len(toDown') = 0
         /\ UNCHANGED <<is_continue, toUp, up, session_next, file, received_info>>
BY DEF DownReplyLost, TypeOK

LEMMA NoCommandCases ==
  ASSUME TypeOK, NoCommand
  PROVE  /\ ~alive
         /\ UNCHANGED <<is_continue, alive, toUp, toDown, session_next, file,
                        received_info>>
         /\ \/ /\ up.pc = "start" /\ up'.pc = "idle"
               /\ up'.handle = up.handle /\ up'.res = up.res
               /\ up'.buffered = up.buffered /\ down' = down
            \/ /\ down.pc = "start" /\ down'.pc = "idle"
               /\ down'.handle = down.handle /\ down'.res = down.res
               /\ down'.next = down.next /\ up' = up
BY DEF NoCommand, TypeOK

LEMMA GiveCommandCases ==
  ASSUME TypeOK, GiveCommand
  PROVE  /\ up.pc = "idle" /\ down.pc = "idle"
         /\ up'.pc = "start" /\ ~up'.handle /\ up'.res = "none"
         /\ up'.buffered = {}
         /\ down'.pc = "start" /\ ~down'.handle /\ down'.next = 0
         /\ alive' = TRUE
         /\ received_info' = "none"
         /\ UNCHANGED <<session_next, file>>
         /\ Initiator = "down" =>
              Len(toUp') = 1 /\ toUp'[1] = Command /\ Len(toDown') = 0
         /\ Initiator = "up" =>
              Len(toDown') = 1 /\ toDown'[1] = Command /\ Len(toUp') = 0
BY DEF GiveCommand, UpAtRest, TypeOK

LEMMA HangUpCases ==
  ASSUME TypeOK, HangUp
  PROVE  /\ up.pc = "idle" /\ down.pc = "idle" /\ ~alive'
         /\ Len(toUp') = 0 /\ Len(toDown') = 0
         /\ \/ UNCHANGED <<up, session_next>>
            \/ Initiator = "up" /\ up' = UpAtRest /\ session_next' = 0
         /\ UNCHANGED <<is_continue, down, file, received_info>>
BY DEF HangUp, UpEnds

LEMMA CutCases ==
  ASSUME TypeOK, Cut
  PROVE  /\ ~alive' /\ CutFrom(toUp, toUp') /\ CutFrom(toDown, toDown')
         /\ UNCHANGED <<is_continue, up, down, session_next, file,
                        received_info>>
BY PrefixCuts DEF Cut, TypeOK

LEMMA UpCrashCases ==
  ASSUME TypeOK, UpCrash
  PROVE  /\ ~alive' /\ Len(toUp') = 0 /\ CutFrom(toDown, toDown')
         /\ up' = UpAtRest /\ session_next' = 0
         /\ UNCHANGED <<is_continue, down, file, received_info>>
BY PrefixCuts DEF UpCrash, UpEnds, TypeOK

LEMMA DownCrashCases ==
  ASSUME TypeOK, DownCrash
  PROVE  /\ ~alive' /\ Len(toDown') = 0 /\ CutFrom(toUp, toUp')
         /\ down'.pc = "idle" /\ down'.handle = FALSE
         /\ UNCHANGED <<is_continue, up, session_next, file, received_info>>
BY PrefixCuts DEF DownCrash, TypeOK

-----------------------------------------------------------------------------
(* 3. The inductive invariant.  One lemma per action shows that the action keeps
   it, in one step per part. *)

LEMMA Lens ==
  ASSUME TypeOK, TypeOK'
  PROVE  /\ Len(toUp) \in Nat /\ Len(toDown) \in Nat
         /\ Len(toUp') \in Nat /\ Len(toDown') \in Nat
BY DEF TypeOK

\* No sector comes before the first.
LEMMA SectorsFromZero ==
  \A i \in Sectors : ~(i < 0)
BY DEF Sectors

\* While the server is still busy, no answer line is under way to the client.
LEMMA NoAnswerYet ==
  ASSUME AnswerTrue, Initiator = "down", up.pc # "idle"
  PROVE  /\ \A i \in 1 .. Len(toDown) : toDown[i].type # "reply"
         /\ received_info # "Completed"
BY DEF AnswerTrue

\* The client's reads of the handshake leave AnswerTrue alone.
LEMMA AnswerTaken ==
  ASSUME TypeOK, TypeOK', AnswerTrue, TakenIn(toDown, toDown'),
         UNCHANGED <<up, file, received_info>>
  PROVE  AnswerTrue'
<1> SUFFICES ASSUME Initiator = "down"
             PROVE  AnswerTrue'
  BY DEF AnswerTrue
<1>1. received_info' = "Completed" => up'.pc = "idle"
  BY DEF AnswerTrue
<1>2. ASSUME NEW i \in 1 .. Len(toDown'), toDown'[i].type = "reply"
      PROVE  up'.pc = "idle" /\ (toDown'[i].res = "Completed" => Arrived(file)')
  <2>1. CASE toDown[1].type # "reply"
    <3>1. i + 1 \in 1 .. Len(toDown) /\ toDown'[i] = toDown[i + 1]
      BY <2>1, Lens DEF TakenIn, Taken
    <3> QED BY <1>2, <3>1 DEF AnswerTrue, Arrived
  <2>2. CASE toDown[1].type = "reply" /\ i = 1
    <3>1. 1 \in 1 .. Len(toDown) /\ toDown'[i].res = "garbled"
      BY <2>2, Lens DEF TakenIn
    <3> QED BY <2>2, <3>1 DEF AnswerTrue
  <2>3. CASE toDown[1].type = "reply" /\ i # 1
    <3>1. i \in 1 .. Len(toDown) /\ toDown'[i] = toDown[i]
      BY <2>3, Lens DEF TakenIn
    <3> QED BY <1>2, <3>1 DEF AnswerTrue, Arrived
  <2> QED BY <2>1, <2>2, <2>3
<1> QED BY <1>1, <1>2 DEF AnswerTrue

\* An answer line after the data changes nothing for its reader.
LEMMA ReplyAtTheEnd ==
  ASSUME TypeOK, TypeOK', Stream, InOrder, ReplyAdded(toUp, toUp'),
         UNCHANGED <<up, session_next>>, down'.pc # "send"
  PROVE  Stream' /\ InOrder'
<1>1. Stream'
  <2> SUFFICES ASSUME UpMoving, NEW i \in 1 .. Len(toUp') - 1
               PROVE  /\ toUp'[i].type = "size" =>
                           \/ toUp'[i + 1].type = "reply"
                           \/ toUp'[i + 1] = Packet(toUp'[i].sector)
                      /\ toUp'[i].type = "packet" =>
                           \/ toUp'[i + 1].type = "reply"
                           \/ toUp'[i + 1] = Size(toUp'[i].sector + 1)
    BY DEF Stream, UpMoving
  <2>1. toUp'[i] = toUp[i] /\ i \in 1 .. Len(toUp)
    BY Lens DEF ReplyAdded
  <2>2. CASE i + 1 > Len(toUp)
    BY <2>1, <2>2, Lens DEF ReplyAdded
  <2>3. CASE i + 1 <= Len(toUp)
    <3>1. toUp'[i + 1] = toUp[i + 1] /\ i \in 1 .. Len(toUp) - 1
      BY <2>1, <2>3, Lens DEF ReplyAdded
    <3> QED BY <2>1, <3>1 DEF Stream
  <2> QED BY <2>1, <2>2, <2>3, Lens
<1>2. InOrder'
  <2>1. CASE Len(toUp) = 0
    BY <2>1, Lens DEF ReplyAdded, InOrder
  <2>2. CASE Len(toUp) > 0
    <3>1. toUp'[1] = toUp[1]
      BY <2>2, Lens DEF ReplyAdded
    <3> QED BY <2>2, <3>1 DEF InOrder
  <2> QED BY <2>1, <2>2, Lens
<1> QED BY <1>1, <1>2

\* When the third byte has been read, only answer lines can follow it, and a
\* sender that still waits has sent nothing else.
LEMMA AfterAnswer ==
  ASSUME TypeOK, TypeOK', Offered, UpAnswer
  PROVE  /\ \A i \in 1 .. Len(toUp') : toUp'[i].type = "reply"
         /\ down.pc \in {"confirm", "idle", "reply"}
         /\ down.pc = "confirm" =>
              /\ Len(toUp') = 0 /\ Len(toDown) = 0
              /\ toUp[1] = Answer(down.my_answer)
<1>1. up.pc = "answer" /\ TakenIn(toUp, toUp') /\ Len(toUp) > 0
  BY UpAnswerCases DEF TakenIn
<1>2. /\ down.pc \in {"confirm", "idle", "reply"}
      /\ \A i \in 1 .. Len(toUp) :
           toUp[i].type = "reply" \/ (i = 1 /\ toUp[i].type = "answer")
      /\ down.pc = "confirm" =>
           /\ Len(toDown) = 0 /\ Len(toUp) <= 1
           /\ \A i \in 1 .. Len(toUp) : toUp[i] = Answer(down.my_answer)
  BY <1>1 DEF Offered
<1>3. CASE toUp[1].type = "reply"
  <2>1. down.pc # "confirm"
    BY <1>1, <1>2, <1>3, Lens
  <2>2. Len(toUp') = Len(toUp) /\ toUp'[1].type = "reply"
        /\ \A i \in 2 .. Len(toUp') : toUp'[i] = toUp[i]
    BY <1>1, <1>3 DEF TakenIn
  <2>3. \A i \in 1 .. Len(toUp') : toUp'[i].type = "reply"
    BY <1>2, <2>2, Lens
  <2> QED BY <1>2, <2>1, <2>3
<1>4. CASE toUp[1].type # "reply"
  <2>1. Taken(toUp, toUp')
    BY <1>1, <1>4 DEF TakenIn
  <2>2. \A i \in 1 .. Len(toUp') : toUp'[i].type = "reply"
    BY <1>2, <2>1, Lens DEF Taken
  <2>3. down.pc = "confirm" => Len(toUp') = 0 /\ toUp[1] = Answer(down.my_answer)
    BY <1>1, <1>2, <2>1, Lens DEF Taken
  <2> QED BY <1>2, <2>2, <2>3
<1> QED BY <1>3, <1>4

-----------------------------------------------------------------------------
\* The file itself.  A step may lose at most one sector, and only with a fault.
LEMMA FaultsGrow ==
  ASSUME TypeOK, [Next]_vars
  PROVE  faults \in Nat /\ faults' \in {faults, faults + 1}
<1>1. faults \in Nat
  BY FileTransferAssumption DEF TypeOK
<1> SUFFICES faults' \in {faults, faults + 1}
  BY <1>1
<1>2. Fault => faults' = faults + 1
  BY DEF Fault
<1>3. \A q, silent : RecvFails(q, silent) => faults' \in {faults, faults + 1}
  BY <1>2 DEF RecvFails
<1>4. CASE UpStep
  BY <1>2, <1>3, <1>4
     DEF UpStep, UpOpen, UpAnswer, UpAnswerLost, UpSize, UpSizeLost, UpPacket,
         UpWriteError, UpPacketLost, UpReadReply, UpReplyLost, UpRecvFails
<1>5. CASE DownStep
  BY <1>2, <1>3, <1>5
     DEF DownStep, DownOpen, DownFirst, DownConfirm, DownAnswerLost, DownLast,
         DownLastLost, DownSend, DownSendFails, DownReadError, DownReadReply,
         DownReplyLost, DownRecvFails
<1>6. CASE GiveCommand \/ HangUp \/ NoCommand \/ Cut \/ UpCrash \/ DownCrash
  BY <1>2, <1>6 DEF GiveCommand, HangUp, NoCommand, Cut, UpCrash, DownCrash
<1>7. CASE UNCHANGED vars
  BY <1>7 DEF vars
<1> QED BY <1>1, <1>4, <1>5, <1>6, <1>7 DEF Next

LEMMA LostCounts ==
  ASSUME NEW l \in SUBSET Sectors, NEW m \in SUBSET Sectors
  PROVE  /\ Cardinality(l) \in Nat /\ Cardinality(m) \in Nat
         /\ m \subseteq l => Cardinality(m) <= Cardinality(l)
         /\ \A k : m \subseteq l \cup {k} => Cardinality(m) <= Cardinality(l) + 1
<1>1. IsFiniteSet(Sectors)
  BY FileTransferAssumption, FS_Interval DEF Sectors
<1>2. IsFiniteSet(l) /\ IsFiniteSet(m)
  BY <1>1, FS_Subset
<1>3. Cardinality(l) \in Nat /\ Cardinality(m) \in Nat
  BY <1>2, FS_CardinalityType
<1>4. m \subseteq l => Cardinality(m) <= Cardinality(l)
  BY <1>2, FS_Subset
<1>5. ASSUME NEW k, m \subseteq l \cup {k}
      PROVE  Cardinality(m) <= Cardinality(l) + 1
  <2>1. /\ IsFiniteSet(l \cup {k})
        /\ Cardinality(l \cup {k}) \in {Cardinality(l), Cardinality(l) + 1}
    BY <1>2, FS_AddElement
  <2>2. Cardinality(m) <= Cardinality(l \cup {k})
    BY <1>5, <2>1, FS_Subset
  <2> QED BY <1>3, <2>1, <2>2
<1> QED BY <1>3, <1>4, <1>5

LEMMA Flushing ==
  ASSUME NEW f \in Files, NEW s \in SUBSET Sectors
  PROVE  /\ Flushed(f, s).exists = f.exists /\ Dropped(f, s).exists = f.exists
         /\ Flushed(f, s).leftover = f.leftover /\ Dropped(f, s).leftover = f.leftover
         /\ Flushed(f, s).written = f.written \cup s /\ Flushed(f, s).lost = f.lost \ s
         /\ Dropped(f, s).written = f.written
         /\ Dropped(f, s).lost = f.lost \cup (s \ f.written)
BY DEF Flushed, Dropped, Files

\* g is what becomes of the file f when stdio, which holds s, is done with it.
Kept(f, s, g) ==
  /\ g.exists = f.exists /\ g.leftover = f.leftover
  /\ f.written \subseteq g.written /\ g.written \cap g.lost = {}
  /\ f.lost \cup s \subseteq g.written \cup g.lost
  /\ g.lost \subseteq f.lost \cup s
  /\ Cardinality(g.lost) <= faults'
  /\ s \subseteq g.written \/ faults' > faults

\* stdio's buffer, with the one sector it can hold, is flushed or given up.
LEMMA ClosedFile ==
  ASSUME NEW f \in Files, NEW s \in SUBSET Sectors, \E k : s \subseteq {k},
         f.written \cap f.lost = {}, Cardinality(f.lost) <= faults,
         faults \in Nat, faults' \in {faults, faults + 1}, NEW g,
         g \in Closed(f, s) \/ (g = Dropped(f, s) /\ Fault)
  PROVE  Kept(f, s, g)
<1> USE DEF Kept
<1>1. g = Flushed(f, s) \/ (g = Dropped(f, s) /\ faults' = faults + 1)
  BY DEF Closed, Fault
<1>2. f.lost \in SUBSET Sectors /\ f.written \in SUBSET Sectors
  BY DEF Files
<1>3. CASE g = Flushed(f, s)
  <2>1. /\ g.exists = f.exists /\ g.leftover = f.leftover
        /\ g.written = f.written \cup s /\ g.lost = f.lost \ s
    BY <1>3, Flushing
  <2>2. Cardinality(f.lost) \in Nat /\ Cardinality(g.lost) \in Nat
        /\ Cardinality(g.lost) <= Cardinality(f.lost)
    BY <1>2, <2>1, LostCounts
  <2>3. Cardinality(g.lost) <= faults'
    BY <2>2
  <2> QED BY <2>1, <2>3
<1>4. CASE g = Dropped(f, s) /\ faults' = faults + 1
  <2>1. /\ g.exists = f.exists /\ g.leftover = f.leftover
        /\ g.written = f.written /\ g.lost = f.lost \cup (s \ f.written)
    BY <1>4, Flushing
  <2>2. g.lost \in SUBSET Sectors /\ \E k : g.lost \subseteq f.lost \cup {k}
    BY <1>2, <2>1
  <2>3. Cardinality(f.lost) \in Nat /\ Cardinality(g.lost) \in Nat
        /\ Cardinality(g.lost) <= Cardinality(f.lost) + 1
    BY <1>2, <2>2, LostCounts
  <2>4. Cardinality(g.lost) <= faults' /\ faults' > faults
    BY <1>4, <2>3
  <2> QED BY <2>1, <2>4
<1> QED BY <1>1, <1>3, <1>4

\* The packet that is written is the one that was counted.
LEMMA CountedStored ==
  ASSUME TypeOK, TypeOK', IndInv, UpPacket, faults' \in {faults, faults + 1}
  PROVE  /\ toUp[1].sector = session_next
         /\ ResumePointCovered' /\ Buffering'
         /\ file'.exists /\ (~is_continue => ~file'.leftover)
         /\ IsLast(session_next) =>
              /\ Arrived(file)'
              /\ ~is_continue => file'.lost \subseteq {NumSectors - 1}
<1> DEFINE s == {session_next} \cap Sectors
           f == Flushed(file, up.buffered)
<1>1. /\ up.pc = "packet" /\ Len(toUp) > 0 /\ toUp[1].type = "packet"
      /\ session_next' = session_next + 1 /\ is_continue' = is_continue
  BY UpPacketCases DEF Taken
<1>2. toUp[1].sector = session_next
  BY <1>1 DEF IndInv, InOrder
<1>3. /\ \/ /\ IsLast(session_next) /\ up'.pc \in {"idle", "reply"}
            /\ up'.buffered = {} /\ file' \in Closed(f, s)
         \/ /\ ~IsLast(session_next) /\ up'.pc = "size"
            /\ up'.buffered = s /\ file' = f
  BY <1>2, UpPacketCases
<1>4. /\ Sectors \subseteq Nat /\ session_next \in Nat /\ NumSectors \in Nat
      /\ s \in SUBSET Sectors /\ s \subseteq {session_next}
  BY FileTransferAssumption DEF Sectors, TypeOK
<1>5. /\ file.exists /\ (~is_continue => ~file.leftover /\ file.lost = {})
      /\ up.buffered \subseteq {session_next - 1} /\ file.written \cap file.lost = {}
      /\ Cardinality(file.lost) <= faults /\ faults \in Nat
      /\ \A i \in Sectors :
           i < session_next => i \in file.written \cup up.buffered \cup file.lost
  BY <1>1, FileTransferAssumption
     DEF IndInv, Handles, Buffering, ResumePointCovered, UpAhead, UpMoving, TypeOK
<1>6. /\ f \in Files /\ f.exists /\ (~is_continue => ~f.leftover /\ f.lost = {})
      /\ f.written = file.written \cup up.buffered /\ f.lost = file.lost \ up.buffered
  <2>1. file \in Files /\ up.buffered \in SUBSET Sectors
    BY DEF TypeOK
  <2>2. /\ f \in Files /\ f.exists = file.exists /\ f.leftover = file.leftover
        /\ f.written = file.written \cup up.buffered
        /\ f.lost = file.lost \ up.buffered
    BY <2>1, FileTypes, Flushing
  <2> QED BY <1>5, <2>2
<1>7. /\ Cardinality(f.lost) \in Nat /\ Cardinality(f.lost) <= faults
      /\ f.written \cap f.lost = {}
  <2>1. f.lost \in SUBSET Sectors /\ file.lost \in SUBSET Sectors
    BY <1>6 DEF TypeOK, Files
  <2>2. /\ Cardinality(f.lost) <= Cardinality(file.lost)
        /\ Cardinality(f.lost) \in Nat /\ Cardinality(file.lost) \in Nat
    BY <1>6, <2>1, LostCounts
  <2> QED BY <1>5, <1>6, <2>2
<1>8. \A i \in Sectors : i < session_next => i \in f.written \cup f.lost
  BY <1>5, <1>6
<1>9. \A i \in Sectors : i < session_next + 1 => i < session_next \/ i \in s
  BY <1>4
<1> HIDE DEF f, s
<1>10. CASE IsLast(session_next)
  <2>1. Kept(f, s, file')
    <3>1. file' \in Closed(f, s)
      BY <1>3, <1>10
    <3>2. \E k : s \subseteq {k}
      BY <1>4
    <3> QED BY <1>4, <1>5, <1>6, <1>7, <3>1, <3>2, ClosedFile
  <2>2. \A i \in Sectors : i < session_next + 1 => i \in file'.written \cup file'.lost
    BY <1>8, <1>9, <2>1 DEF Kept
  <2>3. \A i \in Sectors : i < session_next + 1
    BY <1>4, <1>10 DEF IsLast, Sectors
  <2>4. s \subseteq {NumSectors - 1}
    BY <1>4, <1>10 DEF IsLast, Sectors, s
  <2>5. ResumePointCovered'
    BY <1>1, <2>1, <2>2 DEF ResumePointCovered, Kept
  <2>6. Buffering'
    BY <1>3, <1>10, <2>1 DEF Buffering, UpAhead, Kept
  <2>7. Arrived(file)' /\ (~is_continue => file'.lost \subseteq {NumSectors - 1})
    BY <1>6, <2>1, <2>2, <2>3, <2>4 DEF Arrived, Kept
  <2> QED BY <1>2, <1>6, <2>1, <2>5, <2>6, <2>7 DEF Kept
<1>11. CASE ~IsLast(session_next)
  <2>1. up'.pc = "size" /\ up'.buffered = s /\ file' = f
    BY <1>3, <1>11
  <2>2. \A i \in Sectors :
          i < session_next + 1 => i \in file'.written \cup up'.buffered \cup file'.lost
    BY <1>8, <1>9, <2>1
  <2>3. ResumePointCovered'
    BY <1>1, <1>5, <1>7, <2>1, <2>2 DEF ResumePointCovered
  <2>4. s \subseteq {session_next' - 1}
    BY <1>1, <1>4
  <2>5. Buffering'
    BY <1>1, <1>6, <1>7, <2>1, <2>4 DEF Buffering, UpMoving
  <2> QED BY <1>2, <1>6, <1>11, <2>1, <2>3, <2>5
<1> QED BY <1>10, <1>11

\* A step that leaves the file and stdio's buffer alone.
LEMMA FileUntouched ==
  ASSUME TypeOK, IndInv, faults' \in {faults, faults + 1},
         UNCHANGED <<file, session_next>>, up'.buffered = up.buffered,
         UpMoving => UpMoving' \/ up.buffered = {},
         UpAhead' /\ up'.handle /\ ~is_continue' =>
           UpAhead /\ up.handle /\ ~is_continue
  PROVE  ResumePointCovered' /\ Buffering'
<1>1. faults \in Nat /\ file.lost \in SUBSET Sectors
  BY FileTransferAssumption DEF TypeOK, Files
<1>2. Cardinality(file.lost) \in Nat
  BY <1>1, LostCounts
<1>3. ResumePointCovered'
  BY <1>1, <1>2 DEF IndInv, ResumePointCovered
<1>4. Buffering'
  BY DEF IndInv, Buffering
<1> QED BY <1>3, <1>4

\* A step that empties stdio's buffer, or gives it up with the whole session,
\* and removes the file or leaves it alone.
LEMMA FileLeft ==
  ASSUME TypeOK, IndInv, faults' \in {faults, faults + 1},
         file' \in {file, NoFile}, ~UpAhead', up'.buffered = {},
         session_next' = 0 \/ (session_next' = session_next /\ up.buffered = {})
  PROVE  ResumePointCovered' /\ Buffering'
<1>1. faults \in Nat /\ file.lost \in SUBSET Sectors
  BY FileTransferAssumption DEF TypeOK, Files
<1>2. Cardinality(file.lost) \in Nat
  BY <1>1, LostCounts
<1>3. /\ file'.written \cap file'.lost = {} /\ Cardinality(file'.lost) <= faults'
      /\ file'.exists => file' = file
  <2>1. CASE file' = file
    BY <1>1, <1>2, <2>1 DEF IndInv, Buffering, ResumePointCovered
  <2>2. CASE file' = NoFile
    BY <1>1, <2>2, FS_EmptySet DEF NoFile
  <2> QED BY <2>1, <2>2
<1>4. ResumePointCovered'
  BY <1>3, SectorsFromZero DEF IndInv, ResumePointCovered
<1>5. Buffering'
  BY <1>3 DEF Buffering
<1> QED BY <1>4, <1>5

\* A read or a write fails in the data phase, and the file is closed.
LEMMA FileClosed ==
  ASSUME TypeOK, IndInv, faults' \in {faults, faults + 1},
         UpSizeLost \/ UpWriteError \/ UpPacketLost
  PROVE  ResumePointCovered' /\ Buffering'
<1>1. /\ UpMoving /\ ~UpAhead' /\ up'.buffered = {} /\ session_next' = session_next
      /\ \/ file' \in Closed(file, up.buffered)
         \/ file' = Dropped(file, up.buffered) /\ Fault
  BY UpLostCases DEF UpMoving, UpAhead, UpSizeLost, UpWriteError, UpPacketLost
<1>2. /\ up.buffered \subseteq {session_next - 1} /\ file.written \cap file.lost = {}
      /\ Cardinality(file.lost) <= faults
  BY DEF IndInv, Buffering, ResumePointCovered
<1>3. faults \in Nat /\ file \in Files /\ up.buffered \in SUBSET Sectors
  BY FileTransferAssumption DEF TypeOK
<1>4. Kept(file, up.buffered, file')
  <2>1. \E k : up.buffered \subseteq {k}
    BY <1>2
  <2> QED BY <1>1, <1>2, <1>3, <2>1, ClosedFile
<1>5. ResumePointCovered'
  BY <1>1, <1>4 DEF IndInv, ResumePointCovered, Kept
<1>6. Buffering'
  BY <1>1, <1>4 DEF Buffering, Kept
<1> QED BY <1>5, <1>6

\* The receiver opens its file, and truncates it for a fresh transfer.
LEMMA FileOpened ==
  ASSUME TypeOK, IndInv, faults' \in {faults, faults + 1}, UpOpen
  PROVE  ResumePointCovered' /\ Buffering'
<1>1. /\ up.pc = "start" /\ is_continue' = is_continue
      /\ session_next' = IF is_continue THEN session_next ELSE 0
  BY UpOpenCases
<1>2. up.buffered = {} /\ up'.buffered = {}
  BY <1>1, UpOpenCases DEF IndInv, Buffering, UpMoving
<1>3. CASE file' = TruncatedFile /\ ~is_continue
  <2>1. /\ file'.written = {} /\ file'.lost = {} /\ Cardinality(file'.lost) = 0
    BY <1>3, FS_EmptySet DEF TruncatedFile
  <2>2. faults' \in Nat /\ session_next' = 0
    BY <1>1, <1>3, FileTransferAssumption DEF TypeOK
  <2>3. ResumePointCovered'
    BY <2>1, <2>2, SectorsFromZero DEF ResumePointCovered
  <2>4. Buffering'
    BY <1>2, <2>1 DEF Buffering
  <2> QED BY <2>3, <2>4
<1>4. CASE file' \in {file, NoFile} /\ ~UpAhead'
  BY <1>1, <1>2, <1>4, FileLeft
<1>5. CASE file' = file /\ up'.pc = "answer" /\ (up'.handle => is_continue)
  <2>1. faults \in Nat /\ file.lost \in SUBSET Sectors
    BY FileTransferAssumption DEF TypeOK, Files
  <2>2. Cardinality(file.lost) \in Nat
    BY <2>1, LostCounts
  <2>3. ResumePointCovered'
    BY <1>1, <1>2, <1>5, <2>1, <2>2, SectorsFromZero DEF IndInv, ResumePointCovered
  <2>4. Buffering'
    BY <1>1, <1>2, <1>5 DEF IndInv, Buffering
  <2> QED BY <2>3, <2>4
<1> QED BY <1>3, <1>4, <1>5, UpOpenCases DEF UpAhead

LEMMA FileKept ==
  ASSUME TypeOK, TypeOK', IndInv, [Next]_vars
  PROVE  ResumePointCovered' /\ Buffering'
<1>1. faults' \in {faults, faults + 1}
  BY FaultsGrow
<1>2. up.buffered = {} \/ UpMoving
  BY DEF IndInv, Buffering
<1>3. CASE UpOpen
  BY <1>1, <1>3, FileOpened
<1>4. CASE UpAnswer
  <2>1. up.buffered = {}
    BY <1>2, <1>4, UpAnswerCases DEF UpMoving
  <2>2. CASE up'.pc = "size"
    <3>1. /\ UNCHANGED <<file, session_next, is_continue>>
          /\ up'.buffered = up.buffered /\ up'.handle = up.handle /\ UpAhead
      BY <1>4, <2>2, UpAnswerCases DEF UpAhead
    <3> QED BY <1>1, <2>1, <3>1, FileUntouched
  <2>3. CASE up'.pc \in {"idle", "reply"}
    <3>1. /\ file' \in {file, NoFile} /\ session_next' = session_next
          /\ up'.buffered = {} /\ ~UpAhead'
      BY <1>4, <2>3, UpAnswerCases DEF UpAhead
    <3> QED BY <1>1, <2>1, <3>1, FileLeft
  <2> QED BY <1>4, <2>2, <2>3, UpAnswerCases
<1>5. CASE UpAnswerLost
  <2>1. /\ up.buffered = {} /\ file' \in {file, NoFile}
        /\ session_next' = session_next /\ up'.buffered = {} /\ ~UpAhead'
    BY <1>2, <1>5, UpLostCases DEF UpAhead, UpMoving, UpAnswerLost
  <2> QED BY <1>1, <2>1, FileLeft
<1>6. CASE UpSize
  <2>1. /\ UNCHANGED <<file, session_next, is_continue>> /\ UpMoving' /\ UpAhead
        /\ up'.buffered = up.buffered /\ up'.handle = up.handle
    BY <1>6, UpSizeCases DEF UpMoving, UpAhead
  <2> QED BY <1>1, <2>1, FileUntouched
<1>7. CASE UpSizeLost \/ UpWriteError \/ UpPacketLost
  BY <1>1, <1>7, FileClosed
<1>8. CASE UpPacket
  BY <1>1, <1>8, CountedStored
<1>9. CASE UpReadReply \/ UpReplyLost
  <2>1. up.buffered = {} /\ file' = file /\ ~UpAhead'
    BY <1>2, <1>9, ReadReplyCases DEF UpMoving, UpAhead
  <2>2. \/ up'.buffered = {} /\ session_next' = session_next
        \/ up'.buffered = {} /\ session_next' = 0
    BY <1>9, <2>1, ReadReplyCases, AtRest
  <2> QED BY <1>1, <2>1, <2>2, FileLeft
<1>10. CASE UpCrash \/ HangUp
  <2>1. /\ file' = file
        /\ \/ up' = UpAtRest /\ session_next' = 0
           \/ up.pc = "idle" /\ up' = up /\ session_next' = session_next
    BY <1>10, UpCrashCases, HangUpCases
  <2>2. /\ up'.buffered = {} /\ ~UpAhead'
        /\ session_next' = 0 \/ (session_next' = session_next /\ up.buffered = {})
    BY <1>2, <2>1, AtRest DEF UpMoving, UpAhead
  <2> QED BY <1>1, <2>1, <2>2, FileLeft
<1>11. CASE NoCommand
  <2>1. /\ UNCHANGED <<file, session_next, is_continue>>
        /\ \/ up' = up
           \/ up.pc = "start" /\ up'.pc = "idle" /\ up'.buffered = up.buffered
    BY <1>11, NoCommandCases
  <2> QED BY <1>1, <1>2, <2>1, FileUntouched DEF UpMoving, UpAhead
<1>12. CASE GiveCommand
  <2>1. /\ up.buffered = {} /\ up'.buffered = {} /\ ~UpAhead'
        /\ UNCHANGED <<file, session_next>>
    BY <1>2, <1>12, GiveCommandCases DEF UpMoving, UpAhead
  <2> QED BY <1>1, <2>1, FileLeft
<1>13. CASE DownStep \/ Cut \/ DownCrash \/ UNCHANGED vars
  <2>1. UNCHANGED <<up, session_next, file, is_continue>>
    BY <1>13
       DEF DownStep, DownOpen, DownFirst, DownConfirm, DownAnswerLost, DownLast,
           DownLastLost, DownSend, DownSendFails, DownReadError, DownReadReply,
           DownReplyLost, Cut, DownCrash, vars
  <2> QED BY <1>1, <2>1, FileUntouched DEF UpMoving, UpAhead
<1> QED BY <1>3, <1>4, <1>5, <1>6, <1>7, <1>8, <1>9, <1>10, <1>11, <1>12,
           <1>13 DEF Next, UpStep

-----------------------------------------------------------------------------
\* The receiver opens its file and sends its first byte.
LEMMA UpOpenKeeps ==
  ASSUME TypeOK, TypeOK', IndInv, UpOpen,
         ResumePointCovered', Buffering'
  PROVE  IndInv'
<1> USE DEF IndInv
<1>1. NoResultYet'
  BY UpOpenCases DEF NoResultYet
<1>2. ClientReads'
  BY UpOpenCases, FileTransferAssumption DEF ClientReads, Taken, Added
<1>3. Handles'
  <2>1. CASE up'.pc = "answer"
    <3>1. up'.handle => file'.exists /\ (~is_continue' => ~file'.leftover)
      BY <2>1, UpOpenCases DEF TruncatedFile
    <3> QED BY <2>1, <3>1, UpOpenCases DEF Handles, UpMoving, UpAhead
  <2>2. CASE up'.pc \in {"idle", "reply"}
    BY <2>2, UpOpenCases DEF Handles, UpMoving, UpAhead
  <2> QED BY <2>1, <2>2, UpOpenCases
<1>4. BeforeFirst'
  BY UpOpenCases DEF BeforeFirst
<1>5. Offered'
  <2> SUFFICES ASSUME up'.pc = "answer"
               PROVE  Offered'
    BY DEF Offered
  <2>1. /\ down' = down /\ down.pc \in {"start", "first", "idle", "reply"}
        /\ \/ alive /\ Added(toDown, toDown', Answer(up'.my_answer))
           \/ ~alive /\ toDown' = toDown
    BY UpOpenCases DEF BeforeFirst
  <2>2. /\ \A i \in 1 .. Len(toUp') : toUp'[i].type = "reply"
        /\ down.pc \in {"start", "first"} => Len(toUp') = 0
    <3>1. CASE Initiator = "down"
      BY <3>1, UpOpenCases, Lens DEF BeforeFirst, Taken
    <3>2. CASE Initiator = "up"
      BY <3>2, UpOpenCases DEF BeforeFirst
    <3> QED BY <3>1, <3>2, FileTransferAssumption
  <2> HIDE DEF Command, Answer
  <2>3. ASSUME down.pc \in {"start", "first"}, Len(toDown) = 0
        PROVE  /\ Len(toDown') <= 1
               /\ \A i \in 1 .. Len(toDown') : toDown'[i] = Answer(up'.my_answer)
    <3>1. CASE Len(toDown') = 0
      BY <3>1
    <3>2. CASE Len(toDown') = 1 /\ toDown'[1] = Answer(up'.my_answer)
      BY <3>2
    <3> QED BY <2>1, <2>3, <3>1, <3>2 DEF Added
  <2>4. ASSUME down.pc = "start", Initiator = "up"
        PROVE  /\ Len(toDown') <= 2
               /\ Len(toDown') > 0 => toDown'[1] = Command
               /\ \A i \in 1 .. Len(toDown') :
                    toDown'[i] \in {Command, Answer(up'.my_answer)}
    <3>1. /\ Len(toDown) <= 1 /\ (alive => Len(toDown) = 1)
          /\ \A i \in 1 .. Len(toDown) : toDown[i] = Command
      BY <2>4, UpOpenCases DEF BeforeFirst
    <3>2. CASE ~alive
      BY <2>1, <3>1, <3>2, Lens
    <3>3. CASE alive
      <4>1. /\ Len(toDown') = 2 /\ toDown'[1] = Command
            /\ toDown'[2] = Answer(up'.my_answer)
        <5>1. Len(toDown) = 1 /\ toDown[1] = Command
          BY <3>1, <3>3
        <5>2. Added(toDown, toDown', Answer(up'.my_answer))
          BY <2>1, <3>3
        <5> QED BY <5>1, <5>2 DEF Added
      <4> QED BY <4>1
    <3> QED BY <3>2, <3>3
  <2>5. down.pc \in {"start", "first"} /\ ~(down.pc = "start" /\ Initiator = "up")
          => Len(toDown) = 0
    BY UpOpenCases, FileTransferAssumption DEF BeforeFirst
  <2>6. down.pc = "first" =>
          /\ Len(toUp') = 0 /\ Len(toDown') <= 1
          /\ \A i \in 1 .. Len(toDown') :
               toDown'[i] \in {Command, Answer(up'.my_answer)}
    BY <2>2, <2>3, <2>5
  <2>7. down.pc = "start" =>
          /\ Len(toUp') = 0
          /\ Len(toDown') <= IF Initiator = "up" THEN 2 ELSE 1
          /\ Initiator = "up" /\ Len(toDown') > 0 => toDown'[1] = Command
          /\ \A i \in 1 .. Len(toDown') :
               toDown'[i] \in {Command, Answer(up'.my_answer)}
    BY <2>2, <2>3, <2>4, <2>5, FileTransferAssumption
  <2>8. Answer(up.my_answer)' = Answer(up'.my_answer) /\ Command' = Command
    BY DEF Answer, Command
  <2> QED BY <2>1, <2>2, <2>6, <2>7, <2>8 DEF Offered
<1>6. Confirmed'
  BY UpOpenCases DEF Confirmed, UpMoving
<1>7. FromZero'
  BY UpOpenCases DEF FromZero
<1>8. Stream'
  BY UpOpenCases DEF Stream, UpMoving
<1>9. AnswerTrue'
  <2>1. CASE Initiator = "down"
    <3>1. \A i \in 1 .. Len(toDown) : toDown[i].type # "reply"
      BY <2>1, UpOpenCases DEF AnswerTrue
    <3>2. \A i \in 1 .. Len(toDown') : toDown'[i].type # "reply"
      <4>1. CASE toDown' = toDown
        BY <3>1, <4>1
      <4>2. CASE Added(toDown, toDown', Answer(up'.my_answer))
        BY <3>1, <4>2, Lens DEF Added
      <4> QED BY <4>1, <4>2, UpOpenCases
    <3>3. received_info' # "Completed"
      BY <2>1, UpOpenCases DEF AnswerTrue
    <3> QED BY <3>2, <3>3 DEF AnswerTrue
  <2>2. CASE Initiator = "up"
    BY <2>2 DEF AnswerTrue
  <2> QED BY <2>1, <2>2, FileTransferAssumption
<1>10. CompletedMeansStored'
  BY UpOpenCases DEF CompletedMeansStored, Arrived, Taken, Added, NoResultYet
<1>11. AckMeansStored'
  BY UpOpenCases DEF AckMeansStored, Arrived, Taken, Added, AnswerTrue
<1>12. InOrder'
  BY UpOpenCases DEF InOrder
<1>13. Agreement'
  BY UpOpenCases DEF Agreement, UpMoving, DownMoving
<1>14. HandlesReleased'
  BY UpOpenCases DEF HandlesReleased
<1> QED BY <1>1, <1>2, <1>3, <1>4, <1>5, <1>6, <1>7, <1>8,
           <1>9, <1>10, <1>11, <1>12, <1>13, <1>14

\* The receiver reads the third byte and confirms.
LEMMA UpAnswerKeeps ==
  ASSUME TypeOK, TypeOK', IndInv, UpAnswer,
         ResumePointCovered', Buffering'
  PROVE  IndInv'
<1> USE DEF IndInv
<1>1. NoResultYet'
  BY UpAnswerCases DEF NoResultYet
<1>2. ClientReads'
  BY UpAnswerCases, FileTransferAssumption
     DEF ClientReads, TakenIn, Taken, Added
<1>3. Handles'
  BY UpAnswerCases DEF Handles, UpAhead, UpMoving
<1>4. BeforeFirst'
  BY UpAnswerCases DEF BeforeFirst
<1>5. Offered'
  BY UpAnswerCases DEF Offered
<1>6. Confirmed'
  <2> SUFFICES ASSUME up'.pc = "size"
               PROVE  Confirmed'
    BY UpAnswerCases DEF Confirmed, UpMoving
  <2>1. CASE down.pc # "confirm"
    BY <2>1, AfterAnswer, UpAnswerCases DEF Confirmed
  <2>2. CASE down.pc = "confirm"
    <3>1. down' = down /\ session_next' = session_next /\ is_continue' = is_continue
      BY UpAnswerCases
    <3>2. Len(toUp') = 0 /\ Len(toDown) = 0
      BY <2>2, AfterAnswer
    <3>3. \/ Len(toDown') = 0
          \/ Len(toDown') = 1 /\ toDown'[1] = Answer(TRUE)
          \/ /\ Len(toDown') = 2 /\ toDown'[1] = Answer(TRUE)
             /\ toDown'[2] = LastReceived(session_next)
      BY <3>2, UpAnswerCases DEF Added
    <3>4. /\ \A i \in 1 .. Len(toDown') :
               \/ i = 1 /\ toDown'[i].type = "answer"
               \/ toDown'[i] = LastReceived(session_next)
          /\ Len(toDown') > 0 => toDown'[1].type = "answer"
      BY <3>3
    <3>5. ~is_continue => session_next = 0
      BY UpAnswerCases DEF FromZero
    <3> QED BY <2>2, <3>1, <3>2, <3>4, <3>5 DEF Confirmed
  <2> QED BY <2>1, <2>2
<1>7. FromZero'
  BY UpAnswerCases DEF FromZero
<1>8. Stream'
  <2>1. \A i \in 1 .. Len(toUp') : toUp'[i].type = "reply"
    BY AfterAnswer
  <2>2. up'.pc # "packet" /\ (UpMoving' => down'.pc \in {"confirm", "idle", "reply"})
    BY AfterAnswer, UpAnswerCases
  <2> QED BY <2>1, <2>2, Lens DEF Stream, InOrder, UpMoving
<1>9. AnswerTrue'
  <2> SUFFICES ASSUME Initiator = "down"
               PROVE  AnswerTrue'
    BY DEF AnswerTrue
  <2>1. /\ \A i \in 1 .. Len(toDown) : toDown[i].type # "reply"
        /\ received_info' # "Completed"
    BY NoAnswerYet, UpAnswerCases
  <2>2. CASE up'.pc = "size"
    <3>1. \/ toDown' = toDown
          \/ Added(toDown, toDown', Answer(TRUE))
          \/ /\ Len(toDown') = Len(toDown) + 2
             /\ \A i \in 1 .. Len(toDown) : toDown'[i] = toDown[i]
             /\ toDown'[Len(toDown) + 1] = Answer(TRUE)
             /\ toDown'[Len(toDown) + 2] = LastReceived(session_next)
      BY <2>2, UpAnswerCases
    <3>2. \A i \in 1 .. Len(toDown') : toDown'[i].type # "reply"
      <4>1. CASE toDown' = toDown
        BY <2>1, <4>1
      <4>2. CASE Added(toDown, toDown', Answer(TRUE))
        BY <2>1, <4>2, Lens DEF Added
      <4>3. CASE /\ Len(toDown') = Len(toDown) + 2
                 /\ \A i \in 1 .. Len(toDown) : toDown'[i] = toDown[i]
                 /\ toDown'[Len(toDown) + 1] = Answer(TRUE)
                 /\ toDown'[Len(toDown) + 2] = LastReceived(session_next)
        BY <2>1, <4>3, Lens
      <4> QED BY <3>1, <4>1, <4>2, <4>3
    <3> QED BY <2>1, <3>2 DEF AnswerTrue
  <2>3. CASE up'.pc = "idle" /\ NoNewCompleted(toDown, toDown')
    <3>1. \A i \in 1 .. Len(toDown') :
            toDown'[i].type = "reply" => toDown'[i].res # "Completed"
      BY <2>1, <2>3, Lens DEF NoNewCompleted
    <3> QED BY <2>1, <2>3, <3>1 DEF AnswerTrue
  <2> QED BY <2>2, <2>3, UpAnswerCases
<1>10. CompletedMeansStored'
  BY UpAnswerCases DEF CompletedMeansStored, Arrived
<1>11. AckMeansStored'
  BY UpAnswerCases DEF AckMeansStored, Arrived, TakenIn, Taken, Added, AnswerTrue
<1>12. InOrder'
  <2>1. \A i \in 1 .. Len(toUp') : toUp'[i].type = "reply"
    BY AfterAnswer
  <2>2. up'.pc # "packet" /\ (UpMoving' => down'.pc \in {"confirm", "idle", "reply"})
    BY AfterAnswer, UpAnswerCases
  <2> QED BY <2>1, <2>2, Lens DEF Stream, InOrder, UpMoving
<1>13. Agreement'
  <2> SUFFICES ASSUME up'.pc = "size", down.pc = "confirm"
               PROVE  Agreement'
    BY AfterAnswer, UpAnswerCases DEF Agreement, UpMoving, DownMoving
  <2>1. down.my_answer
    BY AfterAnswer, UpAnswerCases
  <2>2. down.handle /\ up.handle
    BY <2>1, UpAnswerCases DEF Handles
  <2> QED BY <2>1, <2>2, UpAnswerCases DEF Agreement
<1>14. HandlesReleased'
  BY UpAnswerCases DEF HandlesReleased
<1> QED BY <1>1, <1>2, <1>3, <1>4, <1>5, <1>6, <1>7, <1>8,
           <1>9, <1>10, <1>11, <1>12, <1>13, <1>14

\* A read or a write of the receiver fails.
LEMMA UpLostKeeps ==
  ASSUME TypeOK, TypeOK', IndInv,
         UpAnswerLost \/ UpSizeLost \/ UpWriteError \/ UpPacketLost,
         ResumePointCovered', Buffering'
  PROVE  IndInv'
<1> USE DEF IndInv
<1>1. NoResultYet'
  BY UpLostCases DEF NoResultYet
<1>2. ClientReads'
  BY UpLostCases, FileTransferAssumption DEF ClientReads, NoNewCompleted
<1>3. Handles'
  BY UpLostCases DEF Handles, UpAhead, UpMoving
<1>4. BeforeFirst'
  BY UpLostCases DEF BeforeFirst
<1>5. Offered'
  BY UpLostCases DEF Offered
<1>6. Confirmed'
  BY UpLostCases DEF Confirmed, UpMoving
<1>7. FromZero'
  BY UpLostCases DEF FromZero
<1>8. Stream'
  BY UpLostCases DEF Stream, UpMoving
<1>9. AnswerTrue'
  <2> SUFFICES ASSUME Initiator = "down"
               PROVE  AnswerTrue'
    BY DEF AnswerTrue
  <2>1. /\ \A i \in 1 .. Len(toDown) : toDown[i].type # "reply"
        /\ received_info' # "Completed"
    BY NoAnswerYet, UpLostCases
  <2>2. up'.pc = "idle" /\ NoNewCompleted(toDown, toDown')
    BY UpLostCases
  <2>3. \A i \in 1 .. Len(toDown') :
          toDown'[i].type = "reply" => toDown'[i].res # "Completed"
    BY <2>1, <2>2, Lens DEF NoNewCompleted
  <2> QED BY <2>1, <2>2, <2>3 DEF AnswerTrue
<1>10. CompletedMeansStored'
  BY UpLostCases DEF CompletedMeansStored, Arrived
<1>11. AckMeansStored'
  BY UpLostCases DEF AckMeansStored, Arrived, NoNewCompleted, AnswerTrue
<1>12. InOrder'
  BY UpLostCases DEF InOrder
<1>13. Agreement'
  BY UpLostCases DEF Agreement, UpMoving, DownMoving
<1>14. HandlesReleased'
  BY UpLostCases DEF HandlesReleased
<1> QED BY <1>1, <1>2, <1>3, <1>4, <1>5, <1>6, <1>7, <1>8,
           <1>9, <1>10, <1>11, <1>12, <1>13, <1>14

\* The receiver reads a size.
LEMMA UpSizeKeeps ==
  ASSUME TypeOK, TypeOK', IndInv, UpSize,
         ResumePointCovered', Buffering'
  PROVE  IndInv'
<1> USE DEF IndInv
<1>1. NoResultYet'
  BY UpSizeCases DEF NoResultYet
<1>2. ClientReads'
  BY UpSizeCases DEF ClientReads
<1>3. Handles'
  BY UpSizeCases DEF Handles, UpAhead, UpMoving
<1>4. BeforeFirst'
  BY UpSizeCases DEF BeforeFirst
<1>5. Offered'
  BY UpSizeCases DEF Offered
<1>6. Confirmed'
  BY UpSizeCases DEF Confirmed, UpMoving, TakenIn, Taken
<1>7. FromZero'
  BY UpSizeCases DEF FromZero
<1>8. Stream'
  <2>1. UpMoving /\ UpMoving' /\ Len(toUp) > 0
    BY UpSizeCases DEF UpMoving, TakenIn
  <2>2. CASE toUp[1].type = "reply"
    <3>1. Len(toUp') = Len(toUp) /\ toUp'[1].type = "reply"
          /\ \A i \in 2 .. Len(toUp') : toUp'[i] = toUp[i]
      BY <2>2, UpSizeCases DEF TakenIn
    <3>2. alive /\ down.pc = "send" => toUp'[Len(toUp')] = Packet(down.next - 1)
      <4>1. alive /\ down.pc = "send" => Len(toUp) # 1
        BY <2>1, <2>2 DEF Stream
      <4> QED BY <2>1, <3>1, <4>1, Lens DEF Stream
    <3>3. ASSUME NEW i \in 1 .. Len(toUp') - 1
          PROVE  /\ toUp'[i].type = "size" =>
                      \/ toUp'[i + 1].type = "reply"
                      \/ toUp'[i + 1] = Packet(toUp'[i].sector)
                 /\ toUp'[i].type = "packet" =>
                      \/ toUp'[i + 1].type = "reply"
                      \/ toUp'[i + 1] = Size(toUp'[i].sector + 1)
      <4>1. CASE i = 1
        BY <3>1, <4>1
      <4>2. CASE i # 1
        BY <2>1, <3>1, <4>2, Lens DEF Stream
      <4> QED BY <4>1, <4>2
    <3> QED BY <2>1, <3>1, <3>2, <3>3, UpSizeCases DEF Stream
  <2>3. CASE toUp[1].type # "reply"
    <3>1. toUp[1] = Size(session_next) /\ Taken(toUp, toUp')
      BY <2>1, <2>3, UpSizeCases DEF InOrder, TakenIn
    <3>2. alive /\ down.pc = "send" =>
            Len(toUp') # 0 /\ toUp'[Len(toUp')] = Packet(down.next - 1)
      <4>1. alive /\ down.pc = "send" => Len(toUp) # 1
        BY <2>1, <3>1 DEF Stream
      <4> QED BY <2>1, <3>1, <4>1, Lens DEF Stream, Taken
    <3>3. ASSUME NEW i \in 1 .. Len(toUp') - 1
          PROVE  /\ toUp'[i].type = "size" =>
                      \/ toUp'[i + 1].type = "reply"
                      \/ toUp'[i + 1] = Packet(toUp'[i].sector)
                 /\ toUp'[i].type = "packet" =>
                      \/ toUp'[i + 1].type = "reply"
                      \/ toUp'[i + 1] = Size(toUp'[i].sector + 1)
      <4>1. toUp'[i] = toUp[i + 1] /\ toUp'[i + 1] = toUp[(i + 1) + 1]
            /\ i + 1 \in 1 .. Len(toUp) - 1
        BY <3>1, Lens DEF Taken
      <4> QED BY <2>1, <4>1 DEF Stream
    <3> QED BY <2>1, <3>2, <3>3, UpSizeCases DEF Stream
  <2> QED BY <2>2, <2>3
<1>9. AnswerTrue'
  BY UpSizeCases DEF AnswerTrue, Arrived
<1>10. CompletedMeansStored'
  BY UpSizeCases DEF CompletedMeansStored, Arrived
<1>11. AckMeansStored'
  BY UpSizeCases DEF AckMeansStored, Arrived
<1>12. InOrder'
  <2>1. CASE toUp[1].type = "reply"
    BY <2>1, UpSizeCases DEF InOrder, TakenIn
  <2>2. CASE toUp[1].type # "reply"
    <3>1. toUp[1] = Size(session_next) /\ Taken(toUp, toUp')
      BY <2>2, UpSizeCases DEF InOrder, TakenIn
    <3>2. Len(toUp') > 0 =>
            toUp'[1] = toUp[1 + 1] /\ 1 \in 1 .. Len(toUp) - 1
      BY <3>1, Lens DEF Taken
    <3>3. Len(toUp') > 0 =>
            toUp'[1].type = "reply" \/ toUp'[1] = Packet(session_next)
      <4>1. UpMoving
        BY UpSizeCases DEF UpMoving
      <4>2. toUp[1].type = "size" /\ toUp[1].sector = session_next
        BY <3>1
      <4> QED BY <3>2, <4>1, <4>2 DEF Stream
    <3> QED BY <3>3, UpSizeCases DEF InOrder
  <2> QED BY <2>1, <2>2
<1>13. Agreement'
  BY UpSizeCases DEF Agreement, UpMoving, DownMoving
<1>14. HandlesReleased'
  BY UpSizeCases DEF HandlesReleased
<1> QED BY <1>1, <1>2, <1>3, <1>4, <1>5, <1>6, <1>7, <1>8,
           <1>9, <1>10, <1>11, <1>12, <1>13, <1>14

\* The receiver reads a packet and writes it.
LEMMA UpPacketKeeps ==
  ASSUME TypeOK, TypeOK', IndInv, UpPacket, faults' \in {faults, faults + 1},
         ResumePointCovered', Buffering'
  PROVE  IndInv'
<1> USE DEF IndInv
<1>1. NoResultYet'
  BY UpPacketCases DEF NoResultYet
<1>2. ClientReads'
  BY UpPacketCases, FileTransferAssumption DEF ClientReads, Taken, Added
<1>3. Handles'
  <2>1. file'.exists /\ (~is_continue' => ~file'.leftover)
    BY CountedStored, UpPacketCases
  <2> QED BY <2>1, UpPacketCases DEF Handles, UpAhead, UpMoving
<1>4. BeforeFirst'
  BY UpPacketCases DEF BeforeFirst
<1>5. Offered'
  BY UpPacketCases DEF Offered
<1>6. Confirmed'
  BY UpPacketCases DEF Confirmed, UpMoving
<1>7. FromZero'
  BY UpPacketCases DEF FromZero
<1>8. Stream'
  <2> SUFFICES ASSUME up'.pc = "size"
               PROVE  Stream'
    BY UpPacketCases DEF Stream, UpMoving
  <2>1. /\ Taken(toUp, toUp') /\ toUp[1] = Packet(session_next) /\ UpMoving
        /\ session_next' = session_next + 1
        /\ UNCHANGED <<alive, down>>
    BY UpPacketCases DEF UpMoving, InOrder, Taken
  <2>2. alive /\ down.pc = "send" =>
          IF Len(toUp') = 0 THEN session_next + 1 = down.next
          ELSE toUp'[Len(toUp')] = Packet(down.next - 1)
    <3>1. CASE Len(toUp) = 1
      <4>1. alive /\ down.pc = "send" => Packet(session_next) = Packet(down.next - 1)
        BY <2>1, <3>1 DEF Stream
      <4>2. alive /\ down.pc = "send" => session_next = down.next - 1
        BY <4>1
      <4>3. Len(toUp') = 0 /\ down.next \in Nat /\ session_next \in Nat
        BY <2>1, <3>1 DEF Taken, TypeOK
      <4> QED BY <4>2, <4>3
    <3>2. CASE Len(toUp) # 1
      BY <2>1, <3>2, Lens DEF Stream, Taken
    <3> QED BY <3>1, <3>2
  <2>3. ASSUME NEW i \in 1 .. Len(toUp') - 1
        PROVE  /\ toUp'[i].type = "size" =>
                    \/ toUp'[i + 1].type = "reply"
                    \/ toUp'[i + 1] = Packet(toUp'[i].sector)
               /\ toUp'[i].type = "packet" =>
                    \/ toUp'[i + 1].type = "reply"
                    \/ toUp'[i + 1] = Size(toUp'[i].sector + 1)
    <3>1. toUp'[i] = toUp[i + 1] /\ toUp'[i + 1] = toUp[(i + 1) + 1]
          /\ i + 1 \in 1 .. Len(toUp) - 1
      BY <2>1, Lens DEF Taken
    <3> QED BY <2>1, <3>1 DEF Stream
  <2> QED BY <2>1, <2>2, <2>3 DEF Stream
<1>9. AnswerTrue'
  <2> SUFFICES ASSUME Initiator = "down"
               PROVE  AnswerTrue'
    BY DEF AnswerTrue
  <2>1. /\ \A i \in 1 .. Len(toDown) : toDown[i].type # "reply"
        /\ received_info' # "Completed"
    BY NoAnswerYet, UpPacketCases
  <2>2. CASE toDown' = toDown
    BY <2>1, <2>2 DEF AnswerTrue
  <2>3. CASE toDown' # toDown
    <3>1. /\ IsLast(session_next) /\ up'.pc = "idle"
          /\ Added(toDown, toDown', Reply("Completed"))
      BY <2>3, UpPacketCases, CountedStored
    <3>2. Arrived(file)'
      BY <3>1, CountedStored
    <3>3. \A i \in 1 .. Len(toDown') :
            toDown'[i].type = "reply" =>
              up'.pc = "idle" /\ (toDown'[i].res = "Completed" => Arrived(file)')
      BY <3>1, <3>2
    <3> QED BY <2>1, <3>3 DEF AnswerTrue
  <2> QED BY <2>2, <2>3
<1>10. CompletedMeansStored'
  <2>1. CASE IsLast(toUp[1].sector)
    BY <2>1, CountedStored, UpPacketCases DEF CompletedMeansStored
  <2>2. CASE ~IsLast(toUp[1].sector)
    BY <2>2, UpPacketCases DEF CompletedMeansStored, NoResultYet
  <2> QED BY <2>1, <2>2
<1>11. AckMeansStored'
  BY UpPacketCases DEF AckMeansStored, Arrived, Taken, Added, AnswerTrue
<1>12. InOrder'
  <2> SUFFICES ASSUME up'.pc = "size"
               PROVE  InOrder'
    BY UpPacketCases DEF InOrder
  <2>1. /\ Taken(toUp, toUp') /\ toUp[1].type = "packet" /\ UpMoving
        /\ toUp[1].sector = session_next /\ session_next' = session_next + 1
    BY UpPacketCases, CountedStored DEF UpMoving
  <2>2. Len(toUp') > 0 =>
          toUp'[1] = toUp[1 + 1] /\ 1 \in 1 .. Len(toUp) - 1
    BY <2>1, Lens DEF Taken
  <2>3. Len(toUp') > 0 =>
          toUp'[1].type = "reply" \/ toUp'[1] = Size(session_next + 1)
    BY <2>1, <2>2 DEF Stream
  <2> QED BY <2>1, <2>3 DEF InOrder
<1>13. Agreement'
  BY UpPacketCases DEF Agreement, UpMoving, DownMoving
<1>14. HandlesReleased'
  BY UpPacketCases DEF HandlesReleased
<1> QED BY <1>1, <1>2, <1>3, <1>4, <1>5, <1>6, <1>7, <1>8,
           <1>9, <1>10, <1>11, <1>12, <1>13, <1>14

\* The receiver, when it is the client, reads the answer line.
LEMMA UpReadsKeeps ==
  ASSUME TypeOK, TypeOK', IndInv, UpReadReply \/ UpReplyLost,
         ResumePointCovered', Buffering'
  PROVE  IndInv'
<1> USE DEF IndInv
<1>1. NoResultYet'
  BY ReadReplyCases, AtRest DEF NoResultYet
<1>2. ClientReads'
  BY ReadReplyCases, AtRest DEF ClientReads
<1>3. Handles'
  BY ReadReplyCases, AtRest DEF Handles, UpAhead, UpMoving
<1>4. BeforeFirst'
  BY ReadReplyCases, AtRest DEF BeforeFirst
<1>5. Offered'
  BY ReadReplyCases, AtRest DEF Offered
<1>6. Confirmed'
  BY ReadReplyCases, AtRest DEF Confirmed, UpMoving
<1>7. FromZero'
  BY ReadReplyCases, AtRest DEF FromZero
<1>8. Stream'
  BY ReadReplyCases, AtRest DEF Stream, UpMoving
<1>9. AnswerTrue'
  BY ReadReplyCases, AtRest DEF AnswerTrue, Arrived
<1>10. CompletedMeansStored'
  BY ReadReplyCases, AtRest DEF CompletedMeansStored, Arrived
<1>11. AckMeansStored'
  <2>1. up.pc = "reply"
    BY ReadReplyCases, AtRest
  <2> QED BY <2>1, FileTransferAssumption DEF ClientReads, AckMeansStored
<1>12. InOrder'
  BY ReadReplyCases, AtRest DEF InOrder
<1>13. Agreement'
  BY ReadReplyCases, AtRest DEF Agreement, UpMoving, DownMoving
<1>14. HandlesReleased'
  BY ReadReplyCases, AtRest DEF HandlesReleased
<1> QED BY <1>1, <1>2, <1>3, <1>4, <1>5, <1>6, <1>7, <1>8,
           <1>9, <1>10, <1>11, <1>12, <1>13, <1>14

-----------------------------------------------------------------------------
\* The sender opens its file.
LEMMA DownOpenKeeps ==
  ASSUME TypeOK, TypeOK', IndInv, DownOpen,
         ResumePointCovered', Buffering'
  PROVE  IndInv'
<1> USE DEF IndInv
<1>1. NoResultYet'
  BY DownOpenCases DEF NoResultYet
<1>2. ClientReads'
  BY DownOpenCases DEF ClientReads
<1>3. Handles'
  BY DownOpenCases DEF Handles, UpAhead, UpMoving
<1>4. BeforeFirst'
  BY DownOpenCases DEF BeforeFirst, Taken, ClientReads
<1>5. Offered'
  BY DownOpenCases, FileTransferAssumption DEF Offered, Taken
<1>6. Confirmed'
  BY DownOpenCases DEF Confirmed, UpMoving
<1>7. FromZero'
  BY DownOpenCases DEF FromZero
<1>8. Stream'
  BY DownOpenCases DEF Stream, UpMoving
<1>9. AnswerTrue'
  BY DownOpenCases DEF AnswerTrue, Arrived
<1>10. CompletedMeansStored'
  BY DownOpenCases DEF CompletedMeansStored, Arrived
<1>11. AckMeansStored'
  BY DownOpenCases DEF AckMeansStored, Arrived
<1>12. InOrder'
  BY DownOpenCases DEF InOrder
<1>13. Agreement'
  BY DownOpenCases DEF Agreement, UpMoving, DownMoving
<1>14. HandlesReleased'
  BY DownOpenCases DEF HandlesReleased
<1> QED BY <1>1, <1>2, <1>3, <1>4, <1>5, <1>6, <1>7, <1>8,
           <1>9, <1>10, <1>11, <1>12, <1>13, <1>14

\* The sender reads the first byte and sends its answer.
LEMMA DownFirstKeeps ==
  ASSUME TypeOK, TypeOK', IndInv, DownFirst,
         ResumePointCovered', Buffering'
  PROVE  IndInv'
<1> USE DEF IndInv
<1>1. NoResultYet'
  BY DownFirstCases DEF NoResultYet
<1>2. ClientReads'
  BY DownFirstCases, FileTransferAssumption
     DEF ClientReads, TakenIn, Taken, Added
<1>3. Handles'
  BY DownFirstCases DEF Handles, UpAhead, UpMoving
<1>4. BeforeFirst'
  BY DownFirstCases, FileTransferAssumption
     DEF BeforeFirst, TakenIn, Taken, Added
<1>5. Offered'
  <2> SUFFICES ASSUME up.pc = "answer"
               PROVE  Offered'
    BY DownFirstCases DEF Offered
  <2>1. /\ Len(toUp) = 0 /\ Len(toDown) <= 1
        /\ \A i \in 1 .. Len(toDown) : toDown[i].type # "reply"
    BY DownFirstCases, Lens DEF Offered
  <2>2. Len(toDown) > 0 /\ Taken(toDown, toDown')
    BY <2>1, DownFirstCases, Lens DEF TakenIn
  <2>3. Len(toDown') = 0
    BY <2>1, <2>2, Lens DEF Taken
  <2>4. CASE down'.pc = "confirm"
    <3>1. \/ toUp' = toUp
          \/ Len(toUp') = 1 /\ toUp'[1] = Answer(down'.my_answer)
      BY <2>1, <2>4, DownFirstCases DEF Added
    <3>2. /\ Len(toUp') <= 1
          /\ \A i \in 1 .. Len(toUp') : i = 1 /\ toUp'[i] = Answer(down'.my_answer)
      <4> HIDE DEF Answer
      <4>1. CASE toUp' = toUp
        BY <2>1, <4>1
      <4>2. CASE Len(toUp') = 1 /\ toUp'[1] = Answer(down'.my_answer)
        BY <4>2
      <4> QED BY <3>1, <4>1, <4>2
    <3> QED BY <2>3, <2>4, <3>2 DEF Offered
  <2>5. CASE down'.pc \in {"idle", "reply"}
    <3>1. Len(toUp') = 0
      BY <2>1, <2>5, DownFirstCases
    <3> QED BY <2>5, <3>1 DEF Offered
  <2> QED BY <2>4, <2>5, DownFirstCases
<1>6. Confirmed'
  BY DownFirstCases DEF Confirmed, UpMoving
<1>7. FromZero'
  BY DownFirstCases DEF FromZero
<1>8. Stream'
  <2>1. ~UpMoving
    BY DownFirstCases DEF Confirmed
  <2> QED BY <2>1, DownFirstCases DEF Stream, UpMoving
<1>9. AnswerTrue'
  BY DownFirstCases, AnswerTaken
<1>10. CompletedMeansStored'
  BY DownFirstCases DEF CompletedMeansStored, Arrived
<1>11. AckMeansStored'
  BY DownFirstCases DEF AckMeansStored, Arrived
<1>12. InOrder'
  <2>1. ~UpMoving
    BY DownFirstCases DEF Confirmed
  <2> QED BY <2>1, DownFirstCases DEF InOrder, UpMoving
<1>13. Agreement'
  BY DownFirstCases
     DEF Agreement, UpMoving, DownMoving, TakenIn, Taken, Added, Confirmed
<1>14. HandlesReleased'
  BY DownFirstCases DEF HandlesReleased
<1> QED BY <1>1, <1>2, <1>3, <1>4, <1>5, <1>6, <1>7, <1>8,
           <1>9, <1>10, <1>11, <1>12, <1>13, <1>14

\* The sender reads the third byte.
LEMMA DownConfirmKeeps ==
  ASSUME TypeOK, TypeOK', IndInv, DownConfirm,
         ResumePointCovered', Buffering'
  PROVE  IndInv'
<1> USE DEF IndInv
<1>1. NoResultYet'
  BY DownConfirmCases DEF NoResultYet
<1>2. ClientReads'
  BY DownConfirmCases, FileTransferAssumption
     DEF ClientReads, TakenIn, Taken, ReplyAdded
<1>3. Handles'
  BY DownConfirmCases DEF Handles, UpAhead, UpMoving
<1>4. BeforeFirst'
  BY DownConfirmCases DEF BeforeFirst
<1>5. Offered'
  BY DownConfirmCases DEF Offered, TakenIn, Taken, ReplyAdded
<1>6. Confirmed'
  <2> SUFFICES ASSUME UpMoving
               PROVE  Confirmed'
    BY DownConfirmCases DEF Confirmed, UpMoving
  <2>1. CASE down.my_answer /\ is_continue
    <3>1. /\ up.pc = "size" /\ Len(toUp) = 0 /\ toDown[1].type = "answer"
          /\ \A i \in 2 .. Len(toDown) : toDown[i] = LastReceived(session_next)
      BY DownConfirmCases, Lens DEF Confirmed, TakenIn
    <3>2. Taken(toDown, toDown')
      BY <3>1, DownConfirmCases DEF TakenIn
    <3> HIDE DEF LastReceived
    <3>3. \A i \in 1 .. Len(toDown') : toDown'[i] = LastReceived(session_next)
      BY <3>1, <3>2, Lens DEF Taken
    <3>4. LastReceived(session_next)' = LastReceived(session_next)
      BY DownConfirmCases DEF LastReceived
    <3> QED BY <2>1, <3>1, <3>3, <3>4, DownConfirmCases DEF Confirmed
  <2>2. CASE ~(down.my_answer /\ is_continue)
    <3>1. down'.pc \in {"send", "idle", "reply"}
      BY <2>2, DownConfirmCases
    <3> QED BY <3>1 DEF Confirmed
  <2> QED BY <2>1, <2>2
<1>7. FromZero'
  BY DownConfirmCases DEF FromZero
<1>8. Stream'
  <2>1. CASE toUp' = toUp /\ down.my_answer
    <3>1. UpMoving =>
            /\ up.pc = "size" /\ Len(toUp) = 0
            /\ ~is_continue => session_next = 0 /\ down.next = 0
      BY DownConfirmCases DEF Confirmed, FromZero
    <3> QED BY <2>1, <3>1, DownConfirmCases, Lens DEF Stream, InOrder, UpMoving
  <2>2. CASE ~down.my_answer
    <3>1. down'.pc # "send"
      BY <2>2, DownConfirmCases
    <3> QED BY <2>2, <3>1, DownConfirmCases, ReplyAtTheEnd
  <2> QED BY <2>1, <2>2, DownConfirmCases
<1>9. AnswerTrue'
  BY DownConfirmCases, AnswerTaken
<1>10. CompletedMeansStored'
  BY DownConfirmCases DEF CompletedMeansStored, Arrived
<1>11. AckMeansStored'
  BY DownConfirmCases DEF AckMeansStored, Arrived
<1>12. InOrder'
  <2>1. CASE toUp' = toUp /\ down.my_answer
    <3>1. UpMoving =>
            /\ up.pc = "size" /\ Len(toUp) = 0
            /\ ~is_continue => session_next = 0 /\ down.next = 0
      BY DownConfirmCases DEF Confirmed, FromZero
    <3> QED BY <2>1, <3>1, DownConfirmCases, Lens DEF Stream, InOrder, UpMoving
  <2>2. CASE ~down.my_answer
    <3>1. down'.pc # "send"
      BY <2>2, DownConfirmCases
    <3> QED BY <2>2, <3>1, DownConfirmCases, ReplyAtTheEnd
  <2> QED BY <2>1, <2>2, DownConfirmCases
<1>13. Agreement'
  BY DownConfirmCases DEF Agreement, UpMoving, DownMoving
<1>14. HandlesReleased'
  BY DownConfirmCases DEF HandlesReleased
<1> QED BY <1>1, <1>2, <1>3, <1>4, <1>5, <1>6, <1>7, <1>8,
           <1>9, <1>10, <1>11, <1>12, <1>13, <1>14

\* A read of the sender, or of its file, fails.
LEMMA DownLostKeeps ==
  ASSUME TypeOK, TypeOK', IndInv,
         DownAnswerLost \/ DownLastLost \/ DownReadError,
         ResumePointCovered', Buffering'
  PROVE  IndInv'
<1> USE DEF IndInv
<1>1. NoResultYet'
  BY DownLostCases DEF NoResultYet
<1>2. ClientReads'
  BY DownLostCases, FileTransferAssumption DEF ClientReads, ReplyAdded
<1>3. Handles'
  BY DownLostCases DEF Handles, UpAhead, UpMoving
<1>4. BeforeFirst'
  <2> SUFFICES ASSUME up.pc = "start"
               PROVE  BeforeFirst'
    BY DownLostCases DEF BeforeFirst
  <2>1. down'.pc \in {"idle", "reply"} /\ toDown' = toDown
    BY DownLostCases
  <2>2. CASE Initiator = "down"
    BY <2>1, <2>2, DownLostCases DEF BeforeFirst
  <2>3. CASE Initiator = "up"
    <3>1. \A i \in 1 .. Len(toUp) : toUp[i].type = "reply"
      BY <2>3 DEF BeforeFirst
    <3>2. \A i \in 1 .. Len(toUp') : toUp'[i].type = "reply"
      <4>1. ReplyAdded(toUp, toUp')
        BY DownLostCases
      <4> QED BY <3>1, <4>1, Lens DEF ReplyAdded
    <3> QED BY <2>1, <2>3, <3>2 DEF BeforeFirst
  <2> QED BY <2>2, <2>3, FileTransferAssumption
<1>5. Offered'
  <2> SUFFICES ASSUME up.pc = "answer"
               PROVE  Offered'
    BY DownLostCases DEF Offered
  <2>1. down'.pc \in {"idle", "reply"}
    BY DownLostCases
  <2>2. \A i \in 1 .. Len(toUp) :
          toUp[i].type = "reply" \/ (i = 1 /\ toUp[i].type = "answer")
    BY DEF Offered
  <2>3. \A i \in 1 .. Len(toUp') :
          toUp'[i].type = "reply" \/ (i = 1 /\ toUp'[i].type = "answer")
    <3>1. ReplyAdded(toUp, toUp')
      BY DownLostCases
    <3> QED BY <2>2, <3>1, Lens DEF ReplyAdded
  <2> QED BY <2>1, <2>3 DEF Offered
<1>6. Confirmed'
  BY DownLostCases DEF Confirmed, UpMoving
<1>7. FromZero'
  BY DownLostCases DEF FromZero
<1>8. Stream'
  <2>1. down'.pc # "send"
    BY DownLostCases
  <2> QED BY <2>1, DownLostCases, ReplyAtTheEnd
<1>9. AnswerTrue'
  BY DownLostCases DEF AnswerTrue, Arrived
<1>10. CompletedMeansStored'
  BY DownLostCases DEF CompletedMeansStored, Arrived
<1>11. AckMeansStored'
  BY DownLostCases DEF AckMeansStored, Arrived
<1>12. InOrder'
  <2>1. down'.pc # "send"
    BY DownLostCases
  <2> QED BY <2>1, DownLostCases, ReplyAtTheEnd
<1>13. Agreement'
  BY DownLostCases DEF Agreement, UpMoving, DownMoving
<1>14. HandlesReleased'
  BY DownLostCases DEF HandlesReleased
<1> QED BY <1>1, <1>2, <1>3, <1>4, <1>5, <1>6, <1>7, <1>8,
           <1>9, <1>10, <1>11, <1>12, <1>13, <1>14

\* The sender reads the resume point.
LEMMA DownLastKeeps ==
  ASSUME TypeOK, TypeOK', IndInv, DownLast,
         ResumePointCovered', Buffering'
  PROVE  IndInv'
<1> USE DEF IndInv
<1>1. NoResultYet'
  BY DownLastCases DEF NoResultYet
<1>2. ClientReads'
  BY DownLastCases DEF ClientReads
<1>3. Handles'
  BY DownLastCases DEF Handles, UpAhead, UpMoving
<1>4. BeforeFirst'
  BY DownLastCases DEF BeforeFirst
<1>5. Offered'
  BY DownLastCases DEF Offered
<1>6. Confirmed'
  BY DownLastCases DEF Confirmed, UpMoving
<1>7. FromZero'
  BY DownLastCases DEF FromZero
<1>8. Stream'
  BY DownLastCases DEF Stream, UpMoving, TakenIn, Taken, Confirmed
<1>9. AnswerTrue'
  BY DownLastCases DEF AnswerTrue, Arrived, TakenIn, Taken, ClientReads
<1>10. CompletedMeansStored'
  BY DownLastCases DEF CompletedMeansStored, Arrived
<1>11. AckMeansStored'
  BY DownLastCases DEF AckMeansStored, Arrived
<1>12. InOrder'
  BY DownLastCases DEF InOrder
<1>13. Agreement'
  BY DownLastCases DEF Agreement, UpMoving, DownMoving
<1>14. HandlesReleased'
  BY DownLastCases DEF HandlesReleased
<1> QED BY <1>1, <1>2, <1>3, <1>4, <1>5, <1>6, <1>7, <1>8,
           <1>9, <1>10, <1>11, <1>12, <1>13, <1>14

\* The sender sends a packet.
LEMMA DownSendKeeps ==
  ASSUME TypeOK, TypeOK', IndInv, DownSend,
         ResumePointCovered', Buffering'
  PROVE  IndInv'
<1> USE DEF IndInv
<1>1. NoResultYet'
  BY DownSendCases DEF NoResultYet
<1>2. ClientReads'
  BY DownSendCases, FileTransferAssumption DEF ClientReads
<1>3. Handles'
  BY DownSendCases DEF Handles, UpAhead, UpMoving
<1>4. BeforeFirst'
  BY DownSendCases DEF BeforeFirst
<1>5. Offered'
  BY DownSendCases DEF Offered
<1>6. Confirmed'
  BY DownSendCases DEF Confirmed, UpMoving
<1>7. FromZero'
  BY DownSendCases DEF FromZero
<1>8. Stream'
  <2> SUFFICES ASSUME UpMoving
               PROVE  Stream'
    BY DownSendCases DEF Stream, UpMoving
  <2>1. down.pc = "send" /\ down.next \in Nat /\ UNCHANGED <<up, session_next>>
    BY DownSendCases
  <2>2. CASE ~alive
    BY <2>1, <2>2, DownSendCases DEF Stream
  <2>3. CASE alive
    <3>1. /\ Len(toUp') \in {Len(toUp) + 2, Len(toUp) + 3}
          /\ \A i \in 1 .. Len(toUp) : toUp'[i] = toUp[i]
          /\ toUp'[Len(toUp) + 1] = Size(down.next)
          /\ toUp'[Len(toUp) + 2] = Packet(down.next)
          /\ Len(toUp') = Len(toUp) + 3 => toUp'[Len(toUp) + 3].type = "reply"
          /\ down'.pc = "send" =>
               Len(toUp') = Len(toUp) + 2 /\ down'.next = down.next + 1
      BY <2>3, DownSendCases
    <3>2. down'.pc = "send" =>
            Len(toUp') # 0 /\ toUp'[Len(toUp')] = Packet(down'.next - 1)
      BY <2>1, <3>1, Lens
    <3>3. ASSUME NEW i \in 1 .. Len(toUp') - 1
          PROVE  /\ toUp'[i].type = "size" =>
                      \/ toUp'[i + 1].type = "reply"
                      \/ toUp'[i + 1] = Packet(toUp'[i].sector)
                 /\ toUp'[i].type = "packet" =>
                      \/ toUp'[i + 1].type = "reply"
                      \/ toUp'[i + 1] = Size(toUp'[i].sector + 1)
      <4>1. CASE i < Len(toUp)
        <5>1. toUp'[i] = toUp[i] /\ toUp'[i + 1] = toUp[i + 1]
              /\ i \in 1 .. Len(toUp) - 1
          BY <3>1, <4>1, Lens
        <5> QED BY <5>1 DEF Stream
      <4>2. CASE i = Len(toUp)
        <5>1. toUp[i] = Packet(down.next - 1)
          BY <2>1, <2>3, <4>2, Lens DEF Stream
        <5>2. toUp'[i] = Packet(down.next - 1) /\ toUp'[i + 1] = Size(down.next)
          BY <3>1, <4>2, <5>1, Lens
        <5>3. (down.next - 1) + 1 = down.next
          BY <2>1
        <5> QED BY <5>2, <5>3
      <4>3. CASE i = Len(toUp) + 1
        <5>1. toUp'[i] = Size(down.next) /\ toUp'[i + 1] = Packet(down.next)
          BY <3>1, <4>3, Lens
        <5> QED BY <5>1
      <4>4. CASE i = Len(toUp) + 2
        <5>1. toUp'[i] = Packet(down.next) /\ toUp'[i + 1].type = "reply"
          BY <3>1, <4>4, Lens
        <5> QED BY <5>1
      <4> QED BY <3>1, <4>1, <4>2, <4>3, <4>4, Lens
    <3> QED BY <2>1, <3>2, <3>3 DEF Stream
  <2> QED BY <2>2, <2>3
<1>9. AnswerTrue'
  BY DownSendCases DEF AnswerTrue, Arrived
<1>10. CompletedMeansStored'
  BY DownSendCases DEF CompletedMeansStored, Arrived
<1>11. AckMeansStored'
  BY DownSendCases DEF AckMeansStored, Arrived
<1>12. InOrder'
  BY DownSendCases, Lens, FileTransferAssumption DEF InOrder, Stream, UpMoving
<1>13. Agreement'
  BY DownSendCases DEF Agreement, UpMoving, DownMoving
<1>14. HandlesReleased'
  BY DownSendCases DEF HandlesReleased
<1> QED BY <1>1, <1>2, <1>3, <1>4, <1>5, <1>6, <1>7, <1>8,
           <1>9, <1>10, <1>11, <1>12, <1>13, <1>14

\* A send of the sender fails.
LEMMA DownSendFailsKeeps ==
  ASSUME TypeOK, TypeOK', IndInv, DownSendFails,
         ResumePointCovered', Buffering'
  PROVE  IndInv'
<1> USE DEF IndInv
<1>1. NoResultYet'
  BY DownSendFailsCases DEF NoResultYet
<1>2. ClientReads'
  BY DownSendFailsCases, FileTransferAssumption DEF ClientReads
<1>3. Handles'
  BY DownSendFailsCases DEF Handles, UpAhead, UpMoving
<1>4. BeforeFirst'
  BY DownSendFailsCases DEF BeforeFirst
<1>5. Offered'
  BY DownSendFailsCases DEF Offered
<1>6. Confirmed'
  BY DownSendFailsCases DEF Confirmed, UpMoving
<1>7. FromZero'
  BY DownSendFailsCases DEF FromZero
<1>8. Stream'
  BY DownSendFailsCases DEF Stream, UpMoving
<1>9. AnswerTrue'
  BY DownSendFailsCases DEF AnswerTrue, Arrived
<1>10. CompletedMeansStored'
  BY DownSendFailsCases DEF CompletedMeansStored, Arrived
<1>11. AckMeansStored'
  BY DownSendFailsCases DEF AckMeansStored, Arrived
<1>12. InOrder'
  BY DownSendFailsCases DEF InOrder, Stream, UpMoving
<1>13. Agreement'
  BY DownSendFailsCases DEF Agreement, UpMoving, DownMoving
<1>14. HandlesReleased'
  BY DownSendFailsCases DEF HandlesReleased
<1> QED BY <1>1, <1>2, <1>3, <1>4, <1>5, <1>6, <1>7, <1>8,
           <1>9, <1>10, <1>11, <1>12, <1>13, <1>14

\* The sender, when it is the client, reads the answer line.
LEMMA DownReadReplyKeeps ==
  ASSUME TypeOK, TypeOK', IndInv, DownReadReply,
         ResumePointCovered', Buffering'
  PROVE  IndInv'
<1> USE DEF IndInv
<1>1. NoResultYet'
  BY DownReadReplyCases DEF NoResultYet
<1>2. ClientReads'
  BY DownReadReplyCases DEF ClientReads
<1>3. Handles'
  BY DownReadReplyCases DEF Handles, UpAhead, UpMoving
<1>4. BeforeFirst'
  BY DownReadReplyCases DEF BeforeFirst
<1>5. Offered'
  BY DownReadReplyCases DEF Offered
<1>6. Confirmed'
  BY DownReadReplyCases DEF Confirmed, UpMoving
<1>7. FromZero'
  BY DownReadReplyCases DEF FromZero
<1>8. Stream'
  BY DownReadReplyCases DEF Stream, UpMoving
<1>9. AnswerTrue'
  <2> SUFFICES ASSUME Initiator = "down"
               PROVE  AnswerTrue'
    BY DEF AnswerTrue
  <2>1. UNCHANGED <<up, file>>
    BY DownReadReplyCases
  <2>2. PICK n \in 1 .. Len(toDown) :
          /\ Len(toDown') = Len(toDown) - n
          /\ \A i \in 1 .. Len(toDown') : toDown'[i] = toDown[n + i]
          /\ received_info' = "Completed" =>
               n = 1 /\ toDown[1].type = "reply" /\ toDown[1].res = "Completed"
    BY DownReadReplyCases
  <2>3. \A i \in 1 .. Len(toDown') : n + i \in 1 .. Len(toDown)
    BY <2>2, Lens
  <2>4. \A i \in 1 .. Len(toDown) :
          toDown[i].type = "reply" =>
            up.pc = "idle" /\ (toDown[i].res = "Completed" => Arrived(file))
    BY DEF AnswerTrue
  <2>5. received_info' = "Completed" => up'.pc = "idle"
    BY <2>1, <2>2, <2>4
  <2>6. \A i \in 1 .. Len(toDown') :
          toDown'[i].type = "reply" =>
            up'.pc = "idle" /\ (toDown'[i].res = "Completed" => Arrived(file)')
    BY <2>1, <2>2, <2>3, <2>4 DEF Arrived
  <2> QED BY <2>5, <2>6 DEF AnswerTrue
<1>10. CompletedMeansStored'
  BY DownReadReplyCases DEF CompletedMeansStored, Arrived
<1>11. AckMeansStored'
  BY DownReadReplyCases DEF AckMeansStored, Arrived, AnswerTrue
<1>12. InOrder'
  BY DownReadReplyCases DEF InOrder
<1>13. Agreement'
  BY DownReadReplyCases DEF Agreement, UpMoving, DownMoving
<1>14. HandlesReleased'
  BY DownReadReplyCases DEF HandlesReleased
<1> QED BY <1>1, <1>2, <1>3, <1>4, <1>5, <1>6, <1>7, <1>8,
           <1>9, <1>10, <1>11, <1>12, <1>13, <1>14

\* The answer line does not come.
LEMMA DownReplyLostKeeps ==
  ASSUME TypeOK, TypeOK', IndInv, DownReplyLost,
         ResumePointCovered', Buffering'
  PROVE  IndInv'
<1> USE DEF IndInv
<1>1. NoResultYet'
  BY DownReplyLostCases DEF NoResultYet
<1>2. ClientReads'
  BY DownReplyLostCases DEF ClientReads
<1>3. Handles'
  BY DownReplyLostCases DEF Handles, UpAhead, UpMoving
<1>4. BeforeFirst'
  BY DownReplyLostCases DEF BeforeFirst
<1>5. Offered'
  BY DownReplyLostCases DEF Offered
<1>6. Confirmed'
  BY DownReplyLostCases DEF Confirmed, UpMoving
<1>7. FromZero'
  BY DownReplyLostCases DEF FromZero
<1>8. Stream'
  BY DownReplyLostCases DEF Stream, UpMoving
<1>9. AnswerTrue'
  BY DownReplyLostCases DEF AnswerTrue, Arrived
<1>10. CompletedMeansStored'
  BY DownReplyLostCases DEF CompletedMeansStored, Arrived
<1>11. AckMeansStored'
  BY DownReplyLostCases DEF AckMeansStored, Arrived
<1>12. InOrder'
  BY DownReplyLostCases DEF InOrder
<1>13. Agreement'
  BY DownReplyLostCases DEF Agreement, UpMoving, DownMoving
<1>14. HandlesReleased'
  BY DownReplyLostCases DEF HandlesReleased
<1> QED BY <1>1, <1>2, <1>3, <1>4, <1>5, <1>6, <1>7, <1>8,
           <1>9, <1>10, <1>11, <1>12, <1>13, <1>14

-----------------------------------------------------------------------------
\* The user gives a command.
LEMMA GiveCommandKeeps ==
  ASSUME TypeOK, TypeOK', IndInv, GiveCommand,
         ResumePointCovered', Buffering'
  PROVE  IndInv'
<1> USE DEF IndInv
<1>1. NoResultYet'
  BY GiveCommandCases DEF NoResultYet
<1>2. ClientReads'
  BY GiveCommandCases DEF ClientReads
<1>3. Handles'
  BY GiveCommandCases DEF Handles, UpAhead, UpMoving
<1>4. BeforeFirst'
  <2> HIDE DEF Command
  <2>1. \A i \in 1 .. 1 : i = 1
    OBVIOUS
  <2>2. Initiator = "down" =>
          /\ Len(toUp') = 1 /\ Len(toDown') = 0
          /\ \A i \in 1 .. Len(toUp') : toUp'[i] = Command
    BY <2>1, GiveCommandCases
  <2>3. Initiator = "up" =>
          /\ Len(toUp') = 0
          /\ Len(toDown') = 1
          /\ \A i \in 1 .. Len(toDown') : toDown'[i] = Command
    BY <2>1, GiveCommandCases
  <2> QED BY <2>2, <2>3, GiveCommandCases DEF BeforeFirst
<1>5. Offered'
  BY GiveCommandCases DEF Offered
<1>6. Confirmed'
  BY GiveCommandCases DEF Confirmed, UpMoving
<1>7. FromZero'
  BY GiveCommandCases DEF FromZero
<1>8. Stream'
  BY GiveCommandCases DEF Stream, UpMoving
<1>9. AnswerTrue'
  BY GiveCommandCases DEF AnswerTrue, Arrived
<1>10. CompletedMeansStored'
  BY GiveCommandCases DEF CompletedMeansStored, Arrived
<1>11. AckMeansStored'
  BY GiveCommandCases DEF AckMeansStored, Arrived
<1>12. InOrder'
  BY GiveCommandCases DEF InOrder
<1>13. Agreement'
  BY GiveCommandCases DEF Agreement, UpMoving, DownMoving
<1>14. HandlesReleased'
  BY GiveCommandCases DEF HandlesReleased
<1> QED BY <1>1, <1>2, <1>3, <1>4, <1>5, <1>6, <1>7, <1>8,
           <1>9, <1>10, <1>11, <1>12, <1>13, <1>14

\* The client hangs up.
LEMMA HangUpKeeps ==
  ASSUME TypeOK, TypeOK', IndInv, HangUp,
         ResumePointCovered', Buffering'
  PROVE  IndInv'
<1> USE DEF IndInv
<1>1. /\ up.pc = "idle" /\ up'.pc = "idle" /\ down.pc = "idle" /\ ~alive'
      /\ Len(toUp') = 0 /\ Len(toDown') = 0
      /\ up' = up \/ (Initiator = "up" /\ ~up'.handle /\ up'.res = "none")
      /\ UNCHANGED <<is_continue, down, file, received_info>>
  BY HangUpCases, AtRest
<1>2. /\ NoResultYet' /\ ClientReads' /\ BeforeFirst' /\ Offered' /\ Confirmed'
      /\ FromZero' /\ Stream' /\ InOrder' /\ Agreement'
  BY <1>1 DEF NoResultYet, ClientReads, BeforeFirst, Offered, Confirmed, FromZero,
              Stream, InOrder, Agreement, UpMoving
<1>3. Handles' /\ HandlesReleased'
  BY <1>1 DEF Handles, HandlesReleased, UpAhead, UpMoving
<1>4. AnswerTrue'
  BY <1>1 DEF AnswerTrue
<1>5. CompletedMeansStored' /\ AckMeansStored'
  BY <1>1 DEF CompletedMeansStored, AckMeansStored, Arrived
<1> QED BY <1>2, <1>3, <1>4, <1>5

\* The server never sees the command.
LEMMA NoCommandKeeps ==
  ASSUME TypeOK, TypeOK', IndInv, NoCommand,
         ResumePointCovered', Buffering'
  PROVE  IndInv'
<1> USE DEF IndInv
<1>1. NoResultYet'
  BY NoCommandCases DEF NoResultYet
<1>2. ClientReads'
  BY NoCommandCases DEF ClientReads
<1>3. Handles'
  BY NoCommandCases DEF Handles, UpAhead, UpMoving
<1>4. BeforeFirst'
  BY NoCommandCases DEF BeforeFirst
<1>5. Offered'
  BY NoCommandCases DEF Offered
<1>6. Confirmed'
  BY NoCommandCases DEF Confirmed, UpMoving
<1>7. FromZero'
  BY NoCommandCases DEF FromZero
<1>8. Stream'
  BY NoCommandCases DEF Stream, UpMoving
<1>9. AnswerTrue'
  BY NoCommandCases DEF AnswerTrue, Arrived
<1>10. CompletedMeansStored'
  BY NoCommandCases DEF CompletedMeansStored, Arrived
<1>11. AckMeansStored'
  BY NoCommandCases DEF AckMeansStored, Arrived
<1>12. InOrder'
  BY NoCommandCases DEF InOrder
<1>13. Agreement'
  BY NoCommandCases DEF Agreement, UpMoving, DownMoving
<1>14. HandlesReleased'
  BY NoCommandCases DEF HandlesReleased, Handles, UpAhead, UpMoving
<1> QED BY <1>1, <1>2, <1>3, <1>4, <1>5, <1>6, <1>7, <1>8,
           <1>9, <1>10, <1>11, <1>12, <1>13, <1>14

\* What a cut leaves of the sector stream is still a stream.
LEMMA StreamCut ==
  ASSUME TypeOK, TypeOK', Stream, CutFrom(toUp, toUp'), ~alive', up' = up
  PROVE  Stream'
<1>1. /\ Len(toUp) \in Nat /\ Len(toUp') \in Nat /\ Len(toUp') <= Len(toUp)
      /\ \A i \in 1 .. Len(toUp') : toUp'[i] = toUp[i]
  BY Lens DEF CutFrom
<1>2. UpMoving' <=> UpMoving
  BY DEF UpMoving
<1>3. ASSUME UpMoving, NEW i \in 1 .. Len(toUp') - 1
      PROVE  /\ toUp'[i].type = "size" =>
                  toUp'[i + 1].type = "reply" \/ toUp'[i + 1] = Packet(toUp'[i].sector)
             /\ toUp'[i].type = "packet" =>
                  toUp'[i + 1].type = "reply" \/ toUp'[i + 1] = Size(toUp'[i].sector + 1)
  <2>1. /\ i \in 1 .. Len(toUp) - 1
        /\ i \in 1 .. Len(toUp') /\ i + 1 \in 1 .. Len(toUp')
    BY <1>1
  <2>2. toUp'[i] = toUp[i] /\ toUp'[i + 1] = toUp[i + 1]
    BY <1>1, <2>1
  <2> QED BY <1>3, <2>1, <2>2 DEF Stream
<1> QED BY <1>2, <1>3 DEF Stream

\* The network gives up.
LEMMA CutKeeps ==
  ASSUME TypeOK, TypeOK', IndInv, Cut,
         ResumePointCovered', Buffering'
  PROVE  IndInv'
<1> USE DEF IndInv
<1>1. NoResultYet'
  BY CutCases DEF NoResultYet
<1>2. ClientReads'
  BY CutCases DEF ClientReads
<1>3. Handles'
  BY CutCases DEF Handles, UpAhead, UpMoving
<1>4. BeforeFirst'
  BY CutCases DEF BeforeFirst, CutFrom, ClientReads
<1>5. Offered'
  BY CutCases DEF Offered, CutFrom
<1>6. Confirmed'
  BY CutCases DEF Confirmed, UpMoving, CutFrom
<1>7. FromZero'
  BY CutCases DEF FromZero
<1>8. Stream'
  BY CutCases, StreamCut
<1>9. AnswerTrue'
  BY CutCases DEF AnswerTrue, Arrived, CutFrom, ClientReads
<1>10. CompletedMeansStored'
  BY CutCases DEF CompletedMeansStored, Arrived
<1>11. AckMeansStored'
  BY CutCases DEF AckMeansStored, Arrived
<1>12. InOrder'
  BY CutCases DEF InOrder, CutFrom
<1>13. Agreement'
  BY CutCases DEF Agreement, UpMoving, DownMoving
<1>14. HandlesReleased'
  BY CutCases DEF HandlesReleased
<1> QED BY <1>1, <1>2, <1>3, <1>4, <1>5, <1>6, <1>7, <1>8,
           <1>9, <1>10, <1>11, <1>12, <1>13, <1>14

\* The receiving process dies.
LEMMA UpCrashKeeps ==
  ASSUME TypeOK, TypeOK', IndInv, UpCrash,
         ResumePointCovered', Buffering'
  PROVE  IndInv'
<1> USE DEF IndInv
<1>1. NoResultYet'
  BY UpCrashCases, AtRest DEF NoResultYet
<1>2. ClientReads'
  BY UpCrashCases, AtRest DEF ClientReads
<1>3. Handles'
  BY UpCrashCases, AtRest DEF Handles, UpAhead, UpMoving
<1>4. BeforeFirst'
  BY UpCrashCases, AtRest DEF BeforeFirst
<1>5. Offered'
  BY UpCrashCases, AtRest DEF Offered
<1>6. Confirmed'
  BY UpCrashCases, AtRest DEF Confirmed, UpMoving
<1>7. FromZero'
  BY UpCrashCases, AtRest DEF FromZero
<1>8. Stream'
  BY UpCrashCases, AtRest DEF Stream, UpMoving
<1>9. AnswerTrue'
  BY UpCrashCases, AtRest DEF AnswerTrue, Arrived, CutFrom, ClientReads, UpMoving
<1>10. CompletedMeansStored'
  BY UpCrashCases, AtRest DEF CompletedMeansStored, Arrived
<1>11. AckMeansStored'
  BY UpCrashCases, AtRest DEF AckMeansStored, Arrived, CutFrom, AnswerTrue, UpMoving
<1>12. InOrder'
  BY UpCrashCases, AtRest DEF InOrder
<1>13. Agreement'
  BY UpCrashCases, AtRest DEF Agreement, UpMoving, DownMoving
<1>14. HandlesReleased'
  BY UpCrashCases, AtRest DEF HandlesReleased
<1> QED BY <1>1, <1>2, <1>3, <1>4, <1>5, <1>6, <1>7, <1>8,
           <1>9, <1>10, <1>11, <1>12, <1>13, <1>14

\* The sending process dies.
LEMMA DownCrashKeeps ==
  ASSUME TypeOK, TypeOK', IndInv, DownCrash,
         ResumePointCovered', Buffering'
  PROVE  IndInv'
<1> USE DEF IndInv
<1>1. NoResultYet'
  BY DownCrashCases DEF NoResultYet
<1>2. ClientReads'
  BY DownCrashCases DEF ClientReads
<1>3. Handles'
  BY DownCrashCases DEF Handles, UpAhead, UpMoving
<1>4. BeforeFirst'
  BY DownCrashCases DEF BeforeFirst, CutFrom, ClientReads
<1>5. Offered'
  BY DownCrashCases DEF Offered, CutFrom
<1>6. Confirmed'
  BY DownCrashCases DEF Confirmed, UpMoving
<1>7. FromZero'
  BY DownCrashCases DEF FromZero
<1>8. Stream'
  BY DownCrashCases, StreamCut
<1>9. AnswerTrue'
  BY DownCrashCases DEF AnswerTrue, Arrived
<1>10. CompletedMeansStored'
  BY DownCrashCases DEF CompletedMeansStored, Arrived
<1>11. AckMeansStored'
  BY DownCrashCases DEF AckMeansStored, Arrived
<1>12. InOrder'
  BY DownCrashCases DEF InOrder, CutFrom
<1>13. Agreement'
  BY DownCrashCases DEF Agreement, UpMoving, DownMoving
<1>14. HandlesReleased'
  BY DownCrashCases DEF HandlesReleased
<1> QED BY <1>1, <1>2, <1>3, <1>4, <1>5, <1>6, <1>7, <1>8,
           <1>9, <1>10, <1>11, <1>12, <1>13, <1>14

-----------------------------------------------------------------------------
LEMMA InitInd ==
  ASSUME Init
  PROVE  IndInv
<1>1. TypeOK
  BY InitType
<1>2. /\ up.pc = "idle" /\ ~up.handle /\ up.res = "none"
      /\ down.pc = "idle" /\ ~down.handle
      /\ Len(toUp) = 0 /\ Len(toDown) = 0
      /\ session_next = 0 /\ received_info = "none"
  BY AtRest DEF Init
<1>3. /\ NoResultYet /\ ClientReads /\ BeforeFirst /\ Offered /\ FromZero
      /\ Confirmed /\ Stream /\ InOrder /\ Agreement
  BY <1>2 DEF NoResultYet, ClientReads, BeforeFirst, Offered, FromZero,
              Confirmed, Stream, InOrder, Agreement, UpMoving
<1>4. Handles /\ HandlesReleased /\ CompletedMeansStored /\ AckMeansStored
  BY <1>2 DEF Handles, HandlesReleased, CompletedMeansStored, AckMeansStored,
              UpMoving, UpAhead
<1>5. AnswerTrue
  BY <1>2 DEF AnswerTrue
<1>6. file.written = {} /\ file.lost = {} /\ up.buffered = {} /\ faults = 0
  BY DEF Init, NoFile, EarlierFile, UpAtRest
<1>7. ResumePointCovered /\ Buffering
  BY <1>2, <1>6, SectorsFromZero, FS_EmptySet DEF ResumePointCovered, Buffering
<1> QED BY <1>1, <1>3, <1>4, <1>5, <1>7 DEF IndInv

LEMMA StepInd ==
  ASSUME IndInv, [Next]_vars
  PROVE  IndInv'
<1>1. TypeOK /\ TypeOK'
  BY StepType DEF IndInv
<1>2. /\ ResumePointCovered' /\ Buffering'
      /\ faults' \in {faults, faults + 1}
  BY <1>1, FileKept, FaultsGrow
<1>3. CASE UpStep
  BY <1>1, <1>2, <1>3, UpOpenKeeps, UpAnswerKeeps, UpLostKeeps, UpSizeKeeps,
     UpPacketKeeps, UpReadsKeeps
     DEF UpStep
<1>4. CASE DownStep
  BY <1>1, <1>2, <1>4, DownOpenKeeps, DownFirstKeeps, DownConfirmKeeps,
     DownLostKeeps, DownLastKeeps, DownSendKeeps, DownSendFailsKeeps,
     DownReadReplyKeeps, DownReplyLostKeeps
     DEF DownStep
<1>5. CASE GiveCommand \/ HangUp \/ NoCommand \/ Cut \/ UpCrash \/ DownCrash
  BY <1>1, <1>2, <1>5, GiveCommandKeeps, HangUpKeeps, NoCommandKeeps, CutKeeps,
     UpCrashKeeps, DownCrashKeeps
<1>6. CASE UNCHANGED vars
  <2>1. UNCHANGED <<is_continue, alive, toUp, toDown, up, down, session_next,
                    file, received_info>>
    BY <1>6 DEF vars
  <2>2. /\ NoResultYet' /\ ClientReads' /\ Handles' /\ BeforeFirst'
        /\ Offered' /\ Confirmed' /\ FromZero'
    BY <2>1 DEF IndInv, NoResultYet, ClientReads, Handles, BeforeFirst,
                Offered, Confirmed, FromZero, UpMoving, UpAhead
  <2>3. Stream' /\ InOrder' /\ Agreement' /\ HandlesReleased'
    BY <2>1 DEF IndInv, Stream, InOrder, Agreement, HandlesReleased,
                UpMoving, DownMoving
  <2>4. AnswerTrue' /\ CompletedMeansStored' /\ AckMeansStored'
    BY <2>1 DEF IndInv, AnswerTrue, CompletedMeansStored, AckMeansStored, Arrived
  <2> QED BY <1>1, <1>2, <2>2, <2>3, <2>4 DEF IndInv
<1> QED BY <1>3, <1>4, <1>5, <1>6 DEF Next

\* The invariant that carries all the others: what can be under way between
\* the two ends, given where each of them is (the whole of handshake.cpp and
\* file_manage.cpp).
THEOREM Inductive == Spec => []IndInv
BY InitInd, StepInd, PTL DEF Spec

\* Whatever aborts, refusals, removals, crashes and disk errors a file has been
\* through, every sector before the static next_part_to_send_recv is in it or in
\* stdio's buffer, but for at most one sector per disk error, lost by a flush
\* that failed after the sector was counted (file_manage.cpp:22-26, 41, 96,
\* 217-231).
THEOREM ResumePointHonest == Spec => []ResumePointCovered
<1>1. IndInv => ResumePointCovered
  BY DEF IndInv
<1> QED BY <1>1, Inductive, PTL

\* "Completed" at the receiving end means that every sector has come, over
\* however many attempts, and is on the disk unless a failed flush has taken
\* it; in a fresh transfer that is the last sector or none, the one whose flush
\* by fclose nobody looks at (file_manage.cpp:53-96).
THEOREM CompletedIsStored == Spec => []CompletedMeansStored
<1>1. IndInv => CompletedMeansStored
  BY DEF IndInv
<1> QED BY <1>1, Inductive, PTL

\* On UPLOAD the line "Completed" that the client reads means that the server
\* has every sector but for those a failed flush has taken, whatever bytes came
\* before the line (sock_thread_handler.cpp:108-121, 231-236).
THEOREM AcknowledgedIsStored == Spec => []AckMeansStored
<1>1. IndInv => AckMeansStored
  BY DEF IndInv
<1> QED BY <1>1, Inductive, PTL

\* The receiver's count and the stream never come apart, though nothing in
\* the code compares them (file_manage.cpp:53-92).
THEOREM StreamInOrder == Spec => []InOrder
<1>1. IndInv => InOrder
  BY DEF IndInv
<1> QED BY <1>1, Inductive, PTL

\* Two ends that are past the handshake have agreed, and have their files
\* open (handshake.cpp:5-54).
THEOREM EndsAgree == Spec => []Agreement
<1>1. IndInv => Agreement
  BY DEF IndInv
<1> QED BY <1>1, Inductive, PTL

\* Only "Bad handshake 2" leaves a file open (file_manage.cpp:41-45, 121-125).
THEOREM FilesClosed == Spec => []HandlesReleased
<1>1. IndInv => HandlesReleased
  BY DEF IndInv
<1> QED BY <1>1, Inductive, PTL

LEMMA StepKeepsSectors ==
  ASSUME IndInv, Next, UpMoving, up' # up
  PROVE  /\ file'.exists /\ file.written \subseteq file'.written
         /\ up.buffered \subseteq {session_next - 1}
         /\ \/ up.buffered \subseteq file'.written \cup up'.buffered
            \/ faults' > faults
<1>1. /\ TypeOK /\ TypeOK' /\ up.pc \in {"size", "packet"} /\ file.exists
      /\ up.buffered \subseteq {session_next - 1}
      /\ file.written \cap file.lost = {} /\ Cardinality(file.lost) <= faults
      /\ file \in Files /\ up.buffered \in SUBSET Sectors
      /\ faults \in Nat /\ faults' \in {faults, faults + 1}
  BY StepType, FaultsGrow
     DEF IndInv, Handles, Buffering, ResumePointCovered, UpAhead, UpMoving, TypeOK
<1>2. CASE UpStep
  <2>1. CASE UpPacket
    <3> DEFINE f == Flushed(file, up.buffered)
               s == {toUp[1].sector} \cap Sectors
    <3>1. /\ f \in Files /\ f.exists /\ f.written = file.written \cup up.buffered
          /\ f.lost = file.lost \ up.buffered
      BY <1>1, FileTypes, Flushing
    <3>2. /\ f.lost \in SUBSET Sectors /\ file.lost \in SUBSET Sectors
          /\ f.written \cap f.lost = {}
      BY <1>1, <3>1 DEF Files
    <3>3. Cardinality(f.lost) <= faults
      <4>1. /\ Cardinality(f.lost) <= Cardinality(file.lost)
            /\ Cardinality(f.lost) \in Nat /\ Cardinality(file.lost) \in Nat
        BY <3>1, <3>2, LostCounts
      <4> QED BY <1>1, <4>1
    <3>4. file' \in Closed(f, s) \/ file' = f
      BY <1>1, <2>1, UpPacketCases
    <3>5. s \in SUBSET Sectors /\ \E k : s \subseteq {k}
      OBVIOUS
    <3> HIDE DEF f, s
    <3>6. CASE file' \in Closed(f, s)
      <4>1. Kept(f, s, file')
        BY <1>1, <3>1, <3>2, <3>3, <3>5, <3>6, ClosedFile
      <4> QED BY <1>1, <3>1, <4>1 DEF Kept
    <3>7. CASE file' = f
      BY <1>1, <3>1, <3>7
    <3> QED BY <3>4, <3>6, <3>7
  <2>2. CASE UpAnswerLost \/ UpSizeLost \/ UpWriteError \/ UpPacketLost
    <3>1. \/ file' \in Closed(file, up.buffered)
          \/ file' = Dropped(file, up.buffered) /\ Fault
      BY <1>1, <2>2, UpLostCases DEF UpMoving
    <3>2. \E k : up.buffered \subseteq {k}
      BY <1>1
    <3>3. Kept(file, up.buffered, file')
      BY <1>1, <3>1, <3>2, ClosedFile
    <3> QED BY <1>1, <3>3 DEF Kept
  <2>3. CASE UpSize
    <3>1. file' = file /\ up'.buffered = up.buffered
      BY <1>1, <2>3, UpSizeCases
    <3> QED BY <1>1, <3>1
  <2>4. CASE UpOpen \/ UpAnswer \/ UpReadReply \/ UpReplyLost
    BY <1>1, <2>4, UpOpenCases, UpAnswerCases, ReadReplyCases
  <2> QED BY <1>2, <2>1, <2>2, <2>3, <2>4 DEF UpStep
<1>3. CASE DownStep \/ Cut \/ DownCrash
  BY <1>3 DEF DownStep, DownOpen, DownFirst, DownConfirm, DownAnswerLost,
              DownLast, DownLastLost, DownSend, DownSendFails, DownReadError,
              DownReadReply, DownReplyLost, Cut, DownCrash
<1>4. CASE GiveCommand \/ HangUp \/ NoCommand
  BY <1>1, <1>4, GiveCommandCases, HangUpCases, NoCommandCases
<1>5. CASE UpCrash
  <2>1. file' = file /\ faults' = faults + 1
    BY <1>1, <1>5, UpCrashCases DEF UpCrash, Fault
  <2> QED BY <1>1, <2>1
<1> QED BY <1>2, <1>3, <1>4, <1>5 DEF Next

\* Nothing in the data phase costs a sector that is on the disk, and only a
\* crash or a disk error the one that stdio still holds, the last counted
\* (file_manage.cpp:53-96, 217-229).
THEOREM AbortsKeepSectors == Spec => AbortKeepsSectors
<1>1. IndInv /\ [Next]_vars
        => [UpMoving /\ up' # up
              => /\ file'.exists /\ file.written \subseteq file'.written
                 /\ up.buffered \subseteq {session_next - 1}
                 /\ \/ up.buffered \subseteq file'.written \cup up'.buffered
                    \/ faults' > faults]_vars
  BY StepKeepsSectors
<1> QED BY <1>1, Inductive, PTL DEF Spec, AbortKeepsSectors

-----------------------------------------------------------------------------
(* 4. Refinement: every step of the two ends, of the network, of the crashes and of
   the disk is a step of Copy, or leaves the receiver's file with what stdio holds
   for it, its resume point, its phase and its result alone. *)

HIDE DEF Command, Answer, LastReceived, Size, Packet, Reply

LEMMA Phases ==
  /\ up.pc = "answer" => CopyPhase = "offered"
  /\ up.pc \in {"size", "packet"} => CopyPhase = "moving"
  /\ up.pc \in {"idle", "start", "reply"} => CopyPhase = "closed"
BY DEF CopyPhase

LEMMA PhasesNext ==
  /\ up'.pc = "answer" => CopyPhase' = "offered"
  /\ up'.pc \in {"size", "packet"} => CopyPhase' = "moving"
  /\ up'.pc \in {"idle", "start", "reply"} => CopyPhase' = "closed"
BY DEF CopyPhase

\* Copy and FileTransfer name the same files.
LEMMA SameFiles ==
  /\ Abstraction!NoCopy = NoFile
  /\ Abstraction!EmptyCopy = TruncatedFile
  /\ Abstraction!OldCopy = EarlierFile
  /\ Abstraction!SourceSectors = Sectors
BY DEF Abstraction!NoCopy, Abstraction!EmptyCopy, Abstraction!OldCopy,
       Abstraction!SourceSectors, NoFile, TruncatedFile, EarlierFile, Sectors

\* A file is its fields.
LEMMA FileFields ==
  ASSUME NEW f \in Files, NEW g \in Files,
         f.exists = g.exists, f.leftover = g.leftover,
         f.written = g.written, f.lost = g.lost
  PROVE  f = g
BY DEF Files

LEMMA FlushedNone ==
  ASSUME NEW f \in Files
  PROVE  Flushed(f, {}) = f
<1> DEFINE s == {}
<1>1. s \in SUBSET Sectors
  OBVIOUS
<1>2. f.written \cup s = f.written /\ f.lost \ s = f.lost
  OBVIOUS
<1> HIDE DEF s
<1>3. Flushed(f, s) \in Files
  BY <1>1, FileTypes
<1>4. /\ Flushed(f, s).exists = f.exists /\ Flushed(f, s).leftover = f.leftover
      /\ Flushed(f, s).written = f.written /\ Flushed(f, s).lost = f.lost
  BY <1>1, <1>2, Flushing
<1>5. Flushed(f, s) = f
  BY <1>3, <1>4, FileFields
<1> QED BY <1>5 DEF s

\* What Copy sees: the file with what stdio holds for it.
Seen == Flushed(file, up.buffered)

LEMMA SeenFields ==
  ASSUME TypeOK
  PROVE  /\ Seen \in Files
         /\ Seen.exists = file.exists /\ Seen.leftover = file.leftover
         /\ Seen.written = file.written \cup up.buffered
         /\ Seen.lost = file.lost \ up.buffered
         /\ up.buffered = {} => Seen = file
<1>1. file \in Files /\ up.buffered \in SUBSET Sectors
  BY DEF TypeOK
<1> QED BY <1>1, FileTypes, Flushing, FlushedNone DEF Seen

LEMMA SeenNext ==
  ASSUME TypeOK'
  PROVE  /\ Seen' \in Files
         /\ Seen' = Flushed(file', up'.buffered)
         /\ up'.buffered = {} => Seen' = file'
<1>1. file' \in Files /\ up'.buffered \in SUBSET Sectors
  BY DEF TypeOK
<1>2. Seen' = Flushed(file', up'.buffered)
  BY DEF Seen
<1> QED BY <1>1, <1>2, FileTypes, FlushedNone

\* The copy with a sector more, and with one less.
LEMMA CopyFields ==
  ASSUME TypeOK, NEW k
  PROVE  /\ Abstraction!With(k) \in Files /\ Abstraction!Without(k) \in Files
         /\ Abstraction!With(k).exists = Seen.exists
         /\ Abstraction!With(k).leftover = Seen.leftover
         /\ Abstraction!With(k).written = Seen.written \cup ({k} \cap Sectors)
         /\ Abstraction!With(k).lost = Seen.lost \ {k}
         /\ Abstraction!Without(k).exists = Seen.exists
         /\ Abstraction!Without(k).leftover = Seen.leftover
         /\ Abstraction!Without(k).written = Seen.written \ {k}
         /\ Abstraction!Without(k).lost = Seen.lost \cup ({k} \cap Sectors)
<1> DEFINE w == Seen.written \cup ({k} \cap Sectors)
           l == Seen.lost \ {k}
           v == Seen.written \ {k}
           m == Seen.lost \cup ({k} \cap Sectors)
           R(x, y) == [Seen EXCEPT !.written = x, !.lost = y]
<1>1. Seen \in Files
  BY SeenFields
<1>2. Abstraction!With(k) = R(w, l) /\ Abstraction!Without(k) = R(v, m)
  BY SameFiles DEF Abstraction!With, Abstraction!Without, Seen
<1>3. /\ w \in SUBSET Sectors /\ l \in SUBSET Sectors
      /\ v \in SUBSET Sectors /\ m \in SUBSET Sectors
  BY <1>1 DEF Files
<1> HIDE DEF w, l, v, m
<1>4. ASSUME NEW x \in SUBSET Sectors, NEW y \in SUBSET Sectors
      PROVE  /\ R(x, y) \in Files
             /\ R(x, y).exists = Seen.exists /\ R(x, y).leftover = Seen.leftover
             /\ R(x, y).written = x /\ R(x, y).lost = y
  BY <1>1 DEF Files
<1> HIDE DEF R
<1>5. /\ Abstraction!With(k) \in Files
      /\ Abstraction!With(k).exists = Seen.exists
      /\ Abstraction!With(k).leftover = Seen.leftover
      /\ Abstraction!With(k).written = w /\ Abstraction!With(k).lost = l
  BY <1>2, <1>3, <1>4
<1>6. /\ Abstraction!Without(k) \in Files
      /\ Abstraction!Without(k).exists = Seen.exists
      /\ Abstraction!Without(k).leftover = Seen.leftover
      /\ Abstraction!Without(k).written = v /\ Abstraction!Without(k).lost = m
  BY <1>2, <1>3, <1>4
<1> QED BY <1>5, <1>6 DEF w, l, v, m

\* stdio's sector is flushed or given up, and nothing is buffered after it.
LEMMA BufferGone ==
  ASSUME IndInv, TypeOK', up'.buffered = {}, file' = Dropped(file, up.buffered)
  PROVE  Seen' = Seen \/ Seen' = Abstraction!Without(session_next - 1)
<1> DEFINE k == session_next - 1
<1>1. /\ TypeOK /\ file \in Files /\ up.buffered \in SUBSET Sectors
      /\ up.buffered \subseteq {k} /\ file.written \cap file.lost = {}
  BY DEF IndInv, Buffering, TypeOK
<1>2. /\ Seen' \in Files /\ Seen'.exists = file.exists
      /\ Seen'.leftover = file.leftover /\ Seen'.written = file.written
      /\ Seen'.lost = file.lost \cup (up.buffered \ file.written)
  BY <1>1, SeenNext, Flushing
<1>3. /\ Seen \in Files
      /\ Seen.exists = file.exists /\ Seen.leftover = file.leftover
      /\ Seen.written = file.written \cup up.buffered
      /\ Seen.lost = file.lost \ up.buffered
  BY <1>1, SeenFields
<1>4. CASE up.buffered \subseteq file.written
  <2>1. Seen'.written = Seen.written /\ Seen'.lost = Seen.lost
    BY <1>1, <1>2, <1>3, <1>4
  <2> QED BY <1>2, <1>3, <2>1, FileFields
<1>5. CASE up.buffered = {k} /\ k \in Sectors /\ k \notin file.written
  <2>1. /\ Abstraction!Without(k) \in Files
        /\ Abstraction!Without(k).exists = Seen.exists
        /\ Abstraction!Without(k).leftover = Seen.leftover
        /\ Abstraction!Without(k).written = Seen.written \ {k}
        /\ Abstraction!Without(k).lost = Seen.lost \cup ({k} \cap Sectors)
    BY <1>1, CopyFields
  <2> HIDE DEF k
  <2>2. /\ (file.written \cup {k}) \ {k} = file.written
        /\ {k} \ file.written = {k} /\ {k} \cap Sectors = {k}
        /\ (file.lost \ {k}) \cup {k} = file.lost \cup {k}
    BY <1>5
  <2>3. Seen'.written = Abstraction!Without(k).written
    BY <1>2, <1>3, <1>5, <2>1, <2>2
  <2>4. Seen'.lost = Abstraction!Without(k).lost
    BY <1>2, <1>3, <1>5, <2>1, <2>2
  <2>5. Seen' = Abstraction!Without(k)
    BY <1>2, <1>3, <2>1, <2>3, <2>4, FileFields
  <2> QED BY <2>5 DEF k
<1> QED BY <1>1, <1>4, <1>5

\* A step that Copy does not see.
LEMMA Unseen ==
  ASSUME UNCHANGED <<file, session_next>>, up'.buffered = up.buffered,
         CopyPhase' = CopyPhase, (up.res = "Completed")' = (up.res = "Completed")
  PROVE  UNCHANGED Abstraction!copyVars
<1>1. Flushed(file, up.buffered)' = Flushed(file, up.buffered)
  BY DEF Flushed
<1> QED BY <1>1 DEF Abstraction!copyVars

LEMMA InitMaps ==
  ASSUME Init
  PROVE  Abstraction!CopyInit
<1>1. up.pc = "idle" /\ up.res = "none" /\ session_next = 0
      /\ file \in {NoFile, EarlierFile} /\ up.buffered = {} /\ TypeOK
  BY AtRest, InitType DEF Init
<1>2. CopyPhase = "closed" /\ (up.res = "Completed") = FALSE
  BY <1>1, Phases
<1>3. Flushed(file, up.buffered) = file
  BY <1>1, SeenFields DEF Seen
<1> QED BY <1>1, <1>2, <1>3, SameFiles DEF Abstraction!CopyInit

-----------------------------------------------------------------------------
LEMMA GiveCommandMaps ==
  ASSUME IndInv, GiveCommand
  PROVE  Abstraction!Begin
<1>1. CopyPhase = "closed" /\ CopyPhase' = "closed"
      /\ UNCHANGED <<file, session_next>> /\ (up'.res = "Completed") = FALSE
  BY GiveCommandCases, Phases, PhasesNext DEF IndInv
<1>2. up.buffered = {} /\ up'.buffered = {}
  BY GiveCommandCases DEF IndInv, Buffering, UpMoving
<1>3. Flushed(file, up.buffered)' = Flushed(file, up.buffered)
  BY <1>1, <1>2 DEF Flushed
<1> QED BY <1>1, <1>3 DEF Abstraction!Begin

LEMMA UpOpenMaps ==
  ASSUME IndInv, TypeOK', UpOpen
  PROVE  Abstraction!CopyNext
<1>1. TypeOK /\ up.pc = "start" /\ up.res = "none"
  BY UpOpenCases DEF IndInv, NoResultYet
<1>2. /\ CopyPhase = "closed" /\ (up'.res = "Completed") = FALSE
      /\ session_next' = IF is_continue THEN session_next ELSE 0
  BY <1>1, UpOpenCases, Phases
<1>3. up.buffered = {} /\ up'.buffered = {}
  BY <1>1, UpOpenCases DEF IndInv, Buffering, UpMoving
<1>4. /\ Flushed(file, up.buffered) = file
      /\ Flushed(file, up.buffered)' = file'
  BY <1>1, <1>3, SeenFields, SeenNext DEF Seen
<1>5. CASE up'.pc = "answer"
  <2>1. /\ CopyPhase' = "offered"
        /\ file' = file \/ (~is_continue /\ file' = TruncatedFile)
    BY <1>1, <1>5, UpOpenCases, PhasesNext
  <2>2. CASE is_continue
    <3>1. Abstraction!OfferExisting
      BY <1>2, <1>4, <2>1, <2>2 DEF Abstraction!OfferExisting
    <3> QED BY <3>1 DEF Abstraction!CopyNext
  <2>3. CASE ~is_continue
    <3>1. Abstraction!OfferFresh
      BY <1>2, <1>4, <2>1, <2>3, SameFiles DEF Abstraction!OfferFresh
    <3> QED BY <3>1 DEF Abstraction!CopyNext
  <2> QED BY <2>2, <2>3
<1>6. CASE up'.pc \in {"idle", "reply"}
  <2>1. /\ CopyPhase' = "closed"
        /\ file' \in {file, NoFile} \/ (~is_continue /\ file' = TruncatedFile)
    BY <1>1, <1>6, UpOpenCases, PhasesNext
  <2>2. Abstraction!DeclineAtOnce
    BY <1>2, <1>4, <2>1, SameFiles DEF Abstraction!DeclineAtOnce
  <2> QED BY <2>2 DEF Abstraction!CopyNext
<1> QED BY <1>1, <1>5, <1>6, UpOpenCases

LEMMA UpAnswerMaps ==
  ASSUME IndInv, TypeOK', UpAnswer
  PROVE  Abstraction!CopyNext
<1>1. TypeOK /\ up.pc = "answer" /\ up.res = "none" /\ CopyPhase = "offered"
      /\ session_next' = session_next
  BY UpAnswerCases, Phases DEF IndInv, NoResultYet
<1>2. up.buffered = {} /\ up'.buffered = {}
  BY <1>1, UpAnswerCases DEF IndInv, Buffering, UpMoving
<1>3. /\ Flushed(file, up.buffered) = file
      /\ Flushed(file, up.buffered)' = file'
  BY <1>1, <1>2, SeenFields, SeenNext DEF Seen
<1>4. CASE up'.pc = "size"
  <2>1. /\ CopyPhase' = "moving" /\ file' = file /\ up'.res = up.res
        /\ up.my_answer
    BY <1>1, <1>4, UpAnswerCases, PhasesNext
  <2>2. file.exists
    BY <1>1, <2>1 DEF IndInv, Handles, UpAhead
  <2>3. Abstraction!Agree
    BY <1>1, <1>3, <2>1, <2>2 DEF Abstraction!Agree
  <2> QED BY <2>3 DEF Abstraction!CopyNext
<1>5. CASE up'.pc \in {"idle", "reply"}
  <2>1. /\ CopyPhase' = "closed" /\ file' \in {file, NoFile}
        /\ (up'.res = "Completed") = FALSE
    BY <1>1, <1>5, UpAnswerCases, PhasesNext
  <2>2. Abstraction!Decline
    BY <1>1, <1>3, <2>1, SameFiles DEF Abstraction!Decline
  <2> QED BY <2>2 DEF Abstraction!CopyNext
<1> QED BY <1>1, <1>4, <1>5, UpAnswerCases

LEMMA UpLostMaps ==
  ASSUME IndInv, TypeOK', UpAnswerLost \/ UpSizeLost \/ UpWriteError \/ UpPacketLost
  PROVE  Abstraction!CopyNext
<1>1. /\ TypeOK /\ up.pc \in {"answer", "size", "packet"} /\ up.res = "none"
      /\ CopyPhase' = "closed" /\ session_next' = session_next
      /\ (up'.res = "Completed") = FALSE /\ up'.buffered = {}
  BY UpLostCases, PhasesNext DEF IndInv, NoResultYet
<1>2. CASE up.pc = "answer"
  <2>1. up.buffered = {} /\ file' \in {file, NoFile}
    BY <1>1, <1>2, UpLostCases DEF IndInv, Buffering, UpMoving
  <2>2. /\ Flushed(file, up.buffered) = file
        /\ Flushed(file, up.buffered)' = file'
    BY <1>1, <2>1, SeenFields, SeenNext DEF Seen
  <2>3. Abstraction!Decline
    BY <1>1, <1>2, <2>1, <2>2, Phases, SameFiles DEF Abstraction!Decline
  <2> QED BY <2>3 DEF Abstraction!CopyNext
<1>3. CASE up.pc \in {"size", "packet"}
  <2>1. CopyPhase = "moving" /\ (up.res = "Completed") = FALSE
    BY <1>1, <1>3, Phases
  <2>2. \/ file' = Flushed(file, up.buffered)
        \/ file' = Dropped(file, up.buffered)
    BY <1>1, <1>3, UpLostCases DEF UpMoving, Closed
  <2>3. Seen' = Seen \/ Seen' = Abstraction!Without(session_next - 1)
    <3>1. CASE file' = Flushed(file, up.buffered)
      BY <1>1, <3>1, SeenNext DEF Seen
    <3>2. CASE file' = Dropped(file, up.buffered)
      BY <1>1, <3>2, BufferGone
    <3> QED BY <2>2, <3>1, <3>2
  <2>4. Abstraction!Stop
    BY <1>1, <2>1, <2>3 DEF Abstraction!Stop, Seen
  <2> QED BY <2>4 DEF Abstraction!CopyNext
<1> QED BY <1>1, <1>2, <1>3

LEMMA UpPacketMaps ==
  ASSUME IndInv, TypeOK', UpPacket, faults' \in {faults, faults + 1}
  PROVE  Abstraction!Put
<1> DEFINE s == {session_next} \cap Sectors
           k == session_next
<1>1. /\ TypeOK /\ up.pc = "packet" /\ up.res = "none"
      /\ session_next' = session_next + 1 /\ session_next \in Nat
      /\ s \in SUBSET Sectors
  BY UpPacketCases DEF IndInv, NoResultYet, TypeOK
<1>2. CopyPhase = "moving" /\ (up.res = "Completed") = FALSE
  BY <1>1, Phases
<1>3. /\ Seen \in Files /\ Seen.lost \in SUBSET Sectors
      /\ Seen' \in Files /\ Seen' = Flushed(file', up'.buffered)
      /\ up'.buffered = {} => Seen' = file'
  BY <1>1, SeenFields, SeenNext DEF Files
<1>4. \/ /\ IsLast(session_next) /\ up'.pc \in {"idle", "reply"}
         /\ up'.res = "Completed" /\ up'.buffered = {} /\ file' \in Closed(Seen, s)
      \/ /\ ~IsLast(session_next) /\ up'.pc = "size" /\ up'.res = up.res
         /\ up'.buffered = s /\ file' = Seen
  BY <1>1, UpPacketCases, CountedStored DEF Seen
<1>5. /\ Abstraction!With(k) \in Files
      /\ Abstraction!With(k).exists = Seen.exists
      /\ Abstraction!With(k).leftover = Seen.leftover
      /\ Abstraction!With(k).written = Seen.written \cup s
      /\ Abstraction!With(k).lost = Seen.lost \ {k}
      /\ Abstraction!Without(k) \in Files
      /\ Abstraction!Without(k).exists = Seen.exists
      /\ Abstraction!Without(k).leftover = Seen.leftover
      /\ Abstraction!Without(k).written = Seen.written \ {k}
      /\ Abstraction!Without(k).lost = Seen.lost \cup s
  BY <1>1, CopyFields
<1>6. Flushed(Seen, s) = Abstraction!With(k)
  <2>1. /\ Flushed(Seen, s) \in Files
        /\ Flushed(Seen, s).exists = Seen.exists
        /\ Flushed(Seen, s).leftover = Seen.leftover
        /\ Flushed(Seen, s).written = Seen.written \cup s
        /\ Flushed(Seen, s).lost = Seen.lost \ s
    BY <1>1, <1>3, FileTypes, Flushing
  <2>2. Seen.lost \ s = Seen.lost \ {k}
    BY <1>3
  <2> QED BY <1>5, <2>1, <2>2, FileFields
<1>7. \/ Dropped(Seen, s) = Abstraction!Without(k)
      \/ k \notin Sectors \ Seen.written /\ Dropped(Seen, s) = Seen
  <2>1. /\ Dropped(Seen, s) \in Files
        /\ Dropped(Seen, s).exists = Seen.exists
        /\ Dropped(Seen, s).leftover = Seen.leftover
        /\ Dropped(Seen, s).written = Seen.written
        /\ Dropped(Seen, s).lost = Seen.lost \cup (s \ Seen.written)
    BY <1>1, <1>3, FileTypes, Flushing
  <2>2. CASE k \in Sectors \ Seen.written
    <3>1. Seen.written \ {k} = Seen.written /\ s \ Seen.written = s
      BY <2>2
    <3> QED BY <1>5, <2>1, <3>1, FileFields
  <2>3. CASE k \notin Sectors \ Seen.written
    <3>1. s \ Seen.written = {}
      BY <2>3
    <3> QED BY <1>3, <2>1, <2>3, <3>1, FileFields
  <2> QED BY <2>2, <2>3
<1> HIDE DEF s
<1>8. CASE IsLast(session_next)
  <2>1. /\ CopyPhase' = "closed" /\ (up'.res = "Completed") = TRUE
        /\ Seen' = Flushed(Seen, s) \/ Seen' = Dropped(Seen, s)
    BY <1>3, <1>4, <1>8, PhasesNext DEF Closed
  <2>2. \/ Seen' \in {Abstraction!With(k), Abstraction!Without(k)}
        \/ k \notin Sectors \ Seen.written /\ Seen' = Seen
    BY <1>6, <1>7, <2>1
  <2> QED BY <1>1, <1>2, <1>8, <2>1, <2>2, SameFiles
          DEF Abstraction!Put, IsLast, Seen
<1>9. CASE ~IsLast(session_next)
  <2>1. /\ CopyPhase' = "moving" /\ (up'.res = "Completed") = FALSE
        /\ Seen' = Abstraction!With(k)
    BY <1>1, <1>3, <1>4, <1>6, <1>9, PhasesNext
  <2> QED BY <1>1, <1>2, <1>9, <2>1 DEF Abstraction!Put, IsLast, Seen
<1> QED BY <1>8, <1>9

\* The receiving process ends, by a crash or because its client does.
LEMMA UpEndMaps ==
  ASSUME IndInv, TypeOK', UpEnds, file' = file
  PROVE  Abstraction!Fail
<1> DEFINE k == session_next - 1
<1>1. /\ TypeOK /\ session_next' = 0 /\ CopyPhase' = "closed"
      /\ (up'.res = "Completed") = FALSE /\ up'.buffered = {}
  BY AtRest, PhasesNext DEF IndInv, UpEnds
<1>2. /\ up.buffered \in SUBSET Sectors /\ up.buffered \subseteq {k}
      /\ up.buffered # {} => CopyPhase = "moving"
      /\ file.written \cap file.lost = {} /\ file \in Files
  BY Phases DEF IndInv, Buffering, TypeOK, UpMoving
<1>3. /\ Seen' = file /\ Seen \in Files
      /\ Seen.exists = file.exists /\ Seen.leftover = file.leftover
      /\ Seen.written = file.written \cup up.buffered
      /\ Seen.lost = file.lost \ up.buffered
  BY <1>1, SeenFields, SeenNext
<1>4. CASE up.buffered \subseteq file.written
  <2>1. Seen.written = file.written /\ Seen.lost = file.lost
    BY <1>2, <1>3, <1>4
  <2>2. Seen' = Seen
    BY <1>2, <1>3, <2>1, FileFields
  <2> QED BY <1>1, <2>2 DEF Abstraction!Fail, Seen
<1>5. CASE up.buffered = {k} /\ k \in Sectors /\ k \notin file.written
  <2> DEFINE g == [Abstraction!Without(k) EXCEPT !.lost = Seen.lost]
  <2>1. /\ Abstraction!Without(k) \in Files
        /\ Abstraction!Without(k).exists = file.exists
        /\ Abstraction!Without(k).leftover = file.leftover
        /\ Abstraction!Without(k).written = file.written
        /\ Abstraction!Without(k).lost = Seen.lost \cup {k}
    <3>1. /\ Abstraction!Without(k) \in Files
          /\ Abstraction!Without(k).exists = Seen.exists
          /\ Abstraction!Without(k).leftover = Seen.leftover
          /\ Abstraction!Without(k).written = Seen.written \ {k}
          /\ Abstraction!Without(k).lost = Seen.lost \cup ({k} \cap Sectors)
      BY <1>1, CopyFields
    <3>2. (file.written \cup {k}) \ {k} = file.written /\ {k} \cap Sectors = {k}
      BY <1>5
    <3> HIDE DEF k
    <3> QED BY <1>3, <1>5, <3>1, <3>2
  <2>2. CASE k \in file.lost
    <3>1. file.lost = Seen.lost \cup {k}
      BY <1>3, <1>5, <2>2
    <3>2. file = Abstraction!Without(k)
      BY <1>2, <2>1, <3>1, FileFields
    <3> QED BY <1>1, <1>2, <1>3, <1>5, <3>2 DEF Abstraction!Fail, Seen
  <2>3. CASE k \notin file.lost
    <3>1. file.lost = Seen.lost
      BY <1>3, <1>5, <2>3
    <3>2. /\ g \in Files /\ g.exists = file.exists /\ g.leftover = file.leftover
          /\ g.written = file.written /\ g.lost = Seen.lost
      BY <1>3, <2>1 DEF Files
    <3>3. file = g
      BY <1>2, <3>1, <3>2, FileFields
    <3> QED BY <1>1, <1>2, <1>3, <1>5, <3>3 DEF Abstraction!Fail, Seen
  <2> QED BY <2>2, <2>3
<1> QED BY <1>2, <1>4, <1>5

\* The receiver's steps that Copy does not see.
LEMMA UpUnseen ==
  ASSUME IndInv, UpSize \/ UpReadReply
  PROVE  UNCHANGED Abstraction!copyVars
<1>1. TypeOK
  BY DEF IndInv
<1>2. /\ UNCHANGED <<file, session_next>> /\ up'.res = up.res
      /\ up'.buffered = up.buffered
  BY <1>1, UpSizeCases DEF UpReadReply, TypeOK
<1>3. CopyPhase' = CopyPhase
  BY <1>1, UpSizeCases, ReadReplyCases, Phases, PhasesNext
<1> QED BY <1>2, <1>3, Unseen

LEMMA DownUnseen ==
  ASSUME IndInv, DownStep \/ Cut \/ DownCrash
  PROVE  UNCHANGED Abstraction!copyVars
<1>1. UNCHANGED <<file, session_next, up>>
  BY DEF DownStep, DownOpen, DownFirst, DownConfirm, DownAnswerLost, DownLast,
         DownLastLost, DownSend, DownSendFails, DownReadError, DownReadReply,
         DownReplyLost, Cut, DownCrash
<1>2. CopyPhase' = CopyPhase
  BY <1>1 DEF CopyPhase
<1> QED BY <1>1, <1>2, Unseen

LEMMA NoCommandUnseen ==
  ASSUME IndInv, NoCommand
  PROVE  UNCHANGED Abstraction!copyVars
<1>1. TypeOK
  BY DEF IndInv
<1>2. /\ UNCHANGED <<file, session_next>> /\ up'.res = up.res
      /\ up'.buffered = up.buffered
  BY <1>1, NoCommandCases
<1>3. CASE up' = up
  <2>1. CopyPhase' = CopyPhase
    BY <1>3 DEF CopyPhase
  <2> QED BY <1>2, <2>1, Unseen
<1>4. CASE up.pc = "start" /\ up'.pc = "idle"
  <2>1. CopyPhase' = CopyPhase
    BY <1>4, Phases, PhasesNext
  <2> QED BY <1>2, <2>1, Unseen
<1> QED BY <1>1, <1>3, <1>4, NoCommandCases

LEMMA StepMaps ==
  ASSUME IndInv, [Next]_vars
  PROVE  [Abstraction!CopyNext]_Abstraction!copyVars
<1>1. TypeOK /\ TypeOK' /\ faults' \in {faults, faults + 1}
  BY StepType, FaultsGrow DEF IndInv
<1>2. CASE UpStep
  <2>1. CASE UpOpen
    BY <1>1, <2>1, UpOpenMaps
  <2>2. CASE UpAnswer
    BY <1>1, <2>2, UpAnswerMaps
  <2>3. CASE UpAnswerLost \/ UpSizeLost \/ UpWriteError \/ UpPacketLost
    BY <1>1, <2>3, UpLostMaps
  <2>4. CASE UpPacket
    BY <1>1, <2>4, UpPacketMaps DEF Abstraction!CopyNext
  <2>5. CASE UpSize \/ UpReadReply
    BY <2>5, UpUnseen
  <2>6. CASE UpReplyLost
    <3>1. UpEnds /\ file' = file
      BY <2>6 DEF UpReplyLost
    <3> QED BY <1>1, <3>1, UpEndMaps DEF Abstraction!CopyNext
  <2> QED BY <1>2, <2>1, <2>2, <2>3, <2>4, <2>5, <2>6 DEF UpStep
<1>3. CASE DownStep \/ Cut \/ DownCrash
  BY <1>3, DownUnseen
<1>4. CASE NoCommand
  BY <1>4, NoCommandUnseen
<1>5. CASE GiveCommand
  BY <1>5, GiveCommandMaps DEF Abstraction!CopyNext
<1>6. CASE UpCrash
  <2>1. UpEnds /\ file' = file
    BY <1>6 DEF UpCrash
  <2> QED BY <1>1, <2>1, UpEndMaps DEF Abstraction!CopyNext
<1>7. CASE HangUp
  <2>1. CASE UpEnds
    <3>1. file' = file
      BY <1>7 DEF HangUp
    <3> QED BY <1>1, <2>1, <3>1, UpEndMaps DEF Abstraction!CopyNext
  <2>2. CASE UNCHANGED <<up, session_next>>
    <3>1. UNCHANGED <<file, session_next, up>>
      BY <1>7, <2>2 DEF HangUp
    <3>2. CopyPhase' = CopyPhase
      BY <3>1 DEF CopyPhase
    <3> QED BY <3>1, <3>2, Unseen
  <2> QED BY <1>7, <2>1, <2>2 DEF HangUp
<1>8. CASE UNCHANGED vars
  <2>1. UNCHANGED <<file, session_next, up>>
    BY <1>8 DEF vars
  <2>2. CopyPhase' = CopyPhase
    BY <2>1 DEF CopyPhase
  <2> QED BY <2>1, <2>2, Unseen
<1> QED BY <1>2, <1>3, <1>4, <1>5, <1>6, <1>7, <1>8 DEF Next

\* No interleaving of the two ends, no loss, no crash and no failed flush does
\* anything to the receiver's file that Copy does not allow (execute_upload and
\* both handshakes: file_manage.cpp:5-105, 208-241, handshake.cpp:5-54).
THEOREM Implements == Spec => ImplementsCopy
<1>1. Init => Abstraction!CopyInit
  BY InitMaps
<1>2. IndInv /\ [Next]_vars => [Abstraction!CopyNext]_Abstraction!copyVars
  BY StepMaps
<1> QED BY <1>1, <1>2, Inductive, PTL
        DEF Spec, ImplementsCopy, Abstraction!CopySpec
=============================================================================
