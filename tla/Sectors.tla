------------------------------ MODULE Sectors -------------------------------
(***************************************************************************)
(* The arithmetic of lab1/file_manage.cpp, in bytes: how file_read counts  *)
(* the sectors of a file, where the two ends put sector num, and what the  *)
(* progress line says.  An offset is narrowed to long, whose range is that *)
(* of the platform (2^31 - 1 on Windows), and the two ends need not run on *)
(* the same one.  The source may grow between two reads, because its       *)
(* length is asked for again with every sector.                            *)
(*                                                                         *)
(* Byte p of the source is written p.  FileTransfer models how the two     *)
(* ends take their steps; here a sector is sent and written alone.         *)
(***************************************************************************)
EXTENDS Integers

CONSTANTS
  kBlockSize,   \* SERIALIZER_MAX_PAYLOAD_SIZE
  LongMax,      \* the largest long on each platform in question
  MaxLen,       \* bound: bytes of the source
  MaxAttempts   \* bound: commands

\* A sector fits in half of the range of long.
ASSUME SectorsAssumption ==
  /\ kBlockSize \in Nat \ {0, 1, 2}
  /\ LongMax \subseteq Nat
  /\ \A max \in LongMax : kBlockSize <= max
  /\ MaxLen \in Nat
  /\ MaxAttempts \in Nat

VARIABLES
  platform,   \* LONG_MAX at the sender and at the receiver
  len,        \* length of the source
  copy,       \* the receiver's file: the source byte at each position written
  next,       \* next_part_to_send_recv of the sender, a local variable
  count,      \* next_part_to_send_recv of the receiver, a static one
  packet,     \* the payload structure on its way
  pc,         \* what the pair does next, or how the attempt ended
  curr,       \* the percentage the receiver printed last in this attempt
  seen,       \* history: the length of the source when the last sector was read
  complete,   \* history: the receiver has written a sector said to be the last
  extended,   \* history: the source grew after that, and the transfer was continued
  attempts    \* bound

vars == <<platform, len, copy, next, count, packet, pc, curr, seen, complete,
          extended, attempts>>

history == <<seen, complete, extended>>

Nothing == [p \in {} |-> 0]

NoPacket == [sector_current_num |-> 0, sector_amount |-> 0, is_last |-> FALSE,
             payload |-> Nothing]

Init ==
  /\ platform \in [{"sender", "receiver"} -> LongMax]
  /\ len \in 0 .. MaxLen
  /\ copy = Nothing
  /\ next = 0
  /\ count = 0
  /\ packet = NoPacket
  /\ pc = "user"
  /\ curr = 0
  /\ seen = 0
  /\ complete = FALSE
  /\ extended = FALSE
  /\ attempts = 0

-----------------------------------------------------------------------------
(* The arithmetic *)

\* Division of C++, which truncates towards zero.
CDiv(a, b) == IF a >= 0 THEN a \div b ELSE 0 - ((0 - a) \div b)

\* ftell: a length that long cannot hold is an error.
FTell(length, max) == IF length <= max THEN length ELSE -1

\* Mutant: the last, shorter sector is not counted.
SectorAmountFloor(file_len) == CDiv(file_len, kBlockSize)

\* An empty file has one sector, and so has one whose length is unknown.
SectorAmount(file_len) == CDiv(file_len - 1, kBlockSize) + 1

\* The conversion of a larger integer to long: the low bits, two's complement.
ToLong(v, max) == ((v + max + 1) % (2 * (max + 1))) - (max + 1)

\* Mutant: the offset is taken without its sign.
OffsetUnsigned(num, max) == (kBlockSize * num) % (max + 1)

\* The argument of both fseek; below zero the call fails.
Offset(num, max) == ToLong(kBlockSize * num, max)

\* calc_and_print_stat: beyond the end it is more than 100.
Percent(p) ==
  (100 * (p.sector_current_num + 1)) \div (IF p.sector_amount > 0 THEN p.sector_amount ELSE 1)

-----------------------------------------------------------------------------
(* Commands *)

\* A fresh transfer truncates the file.
Start ==
  /\ pc = "user"
  /\ attempts < MaxAttempts
  /\ attempts' = attempts + 1
  /\ copy' = Nothing
  /\ next' = 0 /\ count' = 0
  /\ pc' = "read"
  /\ curr' = 0
  /\ complete' = FALSE /\ extended' = FALSE
  /\ UNCHANGED <<platform, len, packet, seen>>

\* The sender adopts the receiver's count.
Continue ==
  /\ pc = "user"
  /\ attempts \in 1 .. MaxAttempts - 1
  /\ attempts' = attempts + 1
  /\ next' = count
  /\ pc' = "read"
  /\ curr' = 0
  /\ UNCHANGED <<platform, len, copy, count, packet, history>>

-----------------------------------------------------------------------------
Least(a, b) == IF a <= b THEN a ELSE b

\* Error reading, error writing, or a connection that breaks: the attempt is over.
Ends == pc' = "user" /\ packet' = NoPacket

ReadFails ==
  /\ pc = "read"
  /\ Offset(next, platform["sender"]) < 0
  /\ Ends
  /\ UNCHANGED <<platform, len, copy, next, count, curr, history, attempts>>

\* file_read; beyond the end of the file fread returns nothing.
ReadSector ==
  /\ pc = "read"
  /\ LET at == Offset(next, platform["sender"])
         amount == SectorAmount(FTell(len, platform["sender"]))
         were_read == IF at < len THEN Least(kBlockSize, len - at) ELSE 0
     IN  /\ at >= 0
         /\ packet' = [sector_current_num |-> next,
                       sector_amount      |-> amount,
                       is_last            |-> next + 1 >= amount,
                       payload            |-> [k \in 0 .. were_read - 1 |-> at + k]]
  /\ next' = next + 1
  /\ pc' = "write"
  /\ seen' = len
  /\ extended' = (extended \/ (complete /\ len # seen))
  /\ UNCHANGED <<platform, len, copy, count, curr, complete, attempts>>

WriteFails ==
  /\ pc = "write"
  /\ Offset(packet.sector_current_num, platform["receiver"]) < 0
  /\ Ends
  /\ UNCHANGED <<platform, len, copy, next, count, curr, history, attempts>>

\* The file after a write of payload at a position.
Overwritten(file, at, payload) ==
  [p \in DOMAIN file \cup {at + k : k \in DOMAIN payload} |->
     IF p - at \in DOMAIN payload THEN payload[p - at] ELSE file[p]]

\* file_write and calc_and_print_stat.
WriteSector ==
  /\ pc = "write"
  /\ LET at == Offset(packet.sector_current_num, platform["receiver"]) IN
       /\ at >= 0
       /\ copy' = Overwritten(copy, at, packet.payload)
  /\ count' = count + 1
  /\ curr' = Percent(packet)
  /\ pc' = IF packet.is_last THEN "user" ELSE "read"
  /\ complete' = (complete \/ packet.is_last)
  /\ packet' = NoPacket
  /\ UNCHANGED <<platform, len, next, seen, extended, attempts>>

\* The connection breaks, with or without a sector under way.
Abort ==
  /\ pc \in {"read", "write"}
  /\ Ends
  /\ UNCHANGED <<platform, len, copy, next, count, curr, history, attempts>>

\* Somebody appends to the source.
Grow ==
  /\ len < MaxLen
  /\ len' = len + 1
  /\ UNCHANGED <<platform, copy, next, count, packet, pc, curr, history, attempts>>

Next ==
  \/ Start \/ Continue
  \/ ReadSector \/ ReadFails \/ WriteSector \/ WriteFails
  \/ Abort \/ Grow

Spec == Init /\ [][Next]_vars

-----------------------------------------------------------------------------
TypeOK ==
  /\ platform \in [{"sender", "receiver"} -> LongMax]
  /\ len \in 0 .. MaxLen
  /\ \A p \in DOMAIN copy : p \in Nat /\ copy[p] \in Nat
  /\ next \in Nat /\ count \in Nat /\ seen \in Nat
  /\ pc \in {"user", "read", "write"}
  /\ curr \in Nat
  /\ complete \in BOOLEAN /\ extended \in BOOLEAN
  /\ attempts \in 0 .. MaxAttempts

\* Although an offset wraps around on a platform whose long is too short for the file,
\* no byte is ever written at the place of another: the sectors come in order, and the
\* first one beyond the range has a negative offset, at which every attempt ends again.
NoMisplacedByte == \A p \in DOMAIN copy : copy[p] = p

\* When the receiver has printed 100 % or more, it has the whole of the source as it was
\* when its last sector was read, from however many attempts, provided the sender's long
\* can hold that length, and a complete copy was not continued after the source grew.
HundredIsWhole ==
  (curr >= 100 /\ seen <= platform["sender"] /\ ~extended) => DOMAIN copy = 0 .. seen - 1
=============================================================================
