--------------------------- MODULE SectorsProofs ----------------------------
(***************************************************************************)
(* For every size of a sector, every range of long and every length of the *)
(* source: no byte is misplaced, and 100 % means the whole file.  Both     *)
(* follow from what is said of the offset that the next sector has.        *)
(***************************************************************************)
EXTENDS Sectors, TLAPS

S == platform["sender"]
R == platform["receiver"]

ReadOf(at, length) == IF at < length THEN Least(kBlockSize, length - at) ELSE 0

\* Every byte is at its own place.
Placed(file) == \A p \in DOMAIN file : p \in Nat /\ file[p] = p

\* n bytes of the source.
Bytes(at, n) == [k \in 0 .. n - 1 |-> at + k]

\* Every sector before the counted one had an offset within both ranges.
Counted == count = 0 \/ (kBlockSize * (count - 1) <= S /\ kBlockSize * (count - 1) <= R)

\* The sender is at the sector the receiver counts, or has just sent it.
InStep ==
  /\ pc = "read" => next = count
  /\ pc = "write" =>
       /\ next = count + 1
       /\ kBlockSize * count <= S
       /\ packet.sector_current_num = count
       /\ packet.sector_amount = SectorAmount(FTell(seen, S))
       /\ packet.is_last = (count + 1 >= packet.sector_amount)
       /\ packet.payload = Bytes(kBlockSize * count, ReadOf(kBlockSize * count, seen))

\* What the copy consists of while the source has only grown.
Covered ==
  (~extended /\ seen <= S) =>
    /\ ~complete => /\ DOMAIN copy = 0 .. kBlockSize * count - 1
                    /\ count = 0 \/ kBlockSize * count < seen
    /\ complete => DOMAIN copy = 0 .. seen - 1 /\ seen <= kBlockSize * count

HundredAtEnd == curr >= 100 => complete

SectorsInv ==
  /\ TypeOK
  /\ seen <= len
  /\ Counted
  /\ InStep
  /\ NoMisplacedByte
  /\ Covered
  /\ HundredAtEnd

-----------------------------------------------------------------------------
(* Arithmetic *)

LEMMA ModSmall ==
  ASSUME NEW a \in Nat, NEW m \in Nat, a < m
  PROVE  a % m = a
  OBVIOUS

LEMMA ModOnce ==
  ASSUME NEW a \in Nat, NEW m \in Nat, m <= a, a < 2 * m
  PROVE  a % m = a - m
  OBVIOUS

LEMMA DivDef ==
  ASSUME NEW a \in Nat, NEW b \in Nat \ {0}
  PROVE  /\ a \div b \in Nat
         /\ b * (a \div b) <= a
         /\ a < b * (a \div b) + b
  OBVIOUS

LEMMA Distributes ==
  ASSUME NEW n \in Nat
  PROVE  /\ kBlockSize * n \in Nat
         /\ kBlockSize * (n + 1) = kBlockSize * n + kBlockSize
         /\ n > 0 => kBlockSize * n = kBlockSize * (n - 1) + kBlockSize
  BY SectorsAssumption

LEMMA IntervalsMeet ==
  ASSUME NEW a \in Nat, NEW m \in Nat
  PROVE  (0 .. a - 1) \cup (a .. a + m - 1) = 0 .. a + m - 1
  OBVIOUS

\* The offset of the sector after the last one in range is exact or negative.
LEMMA OffsetExact ==
  ASSUME NEW num \in Nat, NEW max \in LongMax,
         num = 0 \/ kBlockSize * (num - 1) <= max
  PROVE  /\ Offset(num, max) \in Int
         /\ kBlockSize * num <= max => Offset(num, max) = kBlockSize * num
         /\ kBlockSize * num > max => Offset(num, max) < 0
<1> DEFINE v == kBlockSize * num
           m == 2 * (max + 1)
<1>1. max \in Nat /\ kBlockSize \in Nat /\ kBlockSize <= max
  BY SectorsAssumption
<1>2. v \in Nat /\ v <= max + kBlockSize
  BY <1>1, Distributes
<1>3. v + max + 1 \in Nat /\ m \in Nat
  BY <1>1, <1>2
<1>4. CASE v <= max
  <2>1. v + max + 1 < m
    BY <1>1, <1>2, <1>4
  <2>2. (v + max + 1) % m = v + max + 1
    BY <1>3, <2>1, ModSmall
  <2> QED BY <1>1, <1>2, <1>4, <2>2 DEF Offset, ToLong
<1>5. CASE v > max
  <2> DEFINE a == v + max + 1
  <2>1. a \in Nat /\ m \in Nat /\ m <= a /\ a < 2 * m
    BY <1>1, <1>2, <1>5
  <2>2. a % m = a - m
    <3> HIDE DEF a, m
    <3> QED BY <2>1, ModOnce
  <2> QED BY <1>1, <1>2, <1>5, <2>2 DEF Offset, ToLong
<1> QED BY <1>1, <1>2, <1>4, <1>5

\* A sector is the last one exactly if it reaches the end of the file.
LEMMA LastReachesEnd ==
  ASSUME NEW num \in Nat, NEW length \in Nat
  PROVE  /\ SectorAmount(length) \in Nat \ {0}
         /\ num + 1 >= SectorAmount(length) <=> kBlockSize * (num + 1) >= length
<1>1. kBlockSize \in Nat \ {0, 1, 2}
  BY SectorsAssumption
<1>2. CASE length = 0
  <2>1. length - 1 < 0 /\ 0 - (length - 1) = 1
    BY <1>2
  <2>2. 1 \div kBlockSize = 0
    BY <1>1, DivDef
  <2>3. SectorAmount(length) = 1
    BY <2>1, <2>2 DEF SectorAmount, CDiv
  <2> QED BY <1>2, <2>3, <1>1, Distributes
<1>3. CASE length > 0
  <2> DEFINE q == (length - 1) \div kBlockSize
  <2>1. q \in Nat /\ kBlockSize * q <= length - 1 /\ length - 1 < kBlockSize * q + kBlockSize
    BY <1>1, <1>3, DivDef
  <2>2. SectorAmount(length) = q + 1
    BY <1>3 DEF SectorAmount, CDiv
  <2>3. CASE num >= q
    <3>1. kBlockSize * num >= kBlockSize * q
      BY <1>1, <2>1, <2>3
    <3> QED BY <3>1, <2>1, <2>2, <2>3, <1>1, Distributes
  <2>4. CASE num < q
    <3>1. kBlockSize * (num + 1) <= kBlockSize * q
      BY <1>1, <2>1, <2>4
    <3> QED BY <3>1, <2>1, <2>2, <2>4, <1>1, Distributes
  <2> QED BY <2>1, <2>3, <2>4
<1> QED BY <1>2, <1>3

LEMMA AmountType ==
  ASSUME NEW length \in Int, length >= -1
  PROVE  SectorAmount(length) \in Int /\ SectorAmount(length) > 0
<1>1. kBlockSize \in Nat \ {0, 1, 2}
  BY SectorsAssumption
<1>2. CASE length \in Nat
  BY <1>2, LastReachesEnd
<1>3. CASE length = -1
  <2>1. 2 \div kBlockSize = 0
    BY <1>1, DivDef
  <2> QED BY <1>3, <2>1 DEF SectorAmount, CDiv
<1> QED BY <1>2, <1>3

\* 100 % is printed for the last sector only.
LEMMA PercentOfLast ==
  ASSUME NEW p, p.sector_current_num \in Nat, p.sector_amount \in Nat \ {0}
  PROVE  /\ Percent(p) \in Nat
         /\ Percent(p) >= 100 => p.sector_current_num + 1 >= p.sector_amount
<1> DEFINE a == 100 * (p.sector_current_num + 1)
           b == p.sector_amount
<1>1. Percent(p) = a \div b
  BY DEF Percent
<1>2. a \in Nat /\ b \in Nat \ {0}
  OBVIOUS
<1>3. a \div b \in Nat /\ b * (a \div b) <= a
  BY <1>2, DivDef
<1>4. a \div b >= 100 => b * 100 <= b * (a \div b)
  BY <1>2, <1>3
<1>5. b * 100 <= a => p.sector_current_num + 1 >= b
  BY <1>2
<1> QED BY <1>1, <1>2, <1>3, <1>4, <1>5

-----------------------------------------------------------------------------
(* Files *)

LEMMA OverwrittenIs ==
  ASSUME NEW file, NEW at \in Nat, NEW n \in Nat, Placed(file)
  PROVE  /\ DOMAIN Overwritten(file, at, Bytes(at, n)) = DOMAIN file \cup at .. at + n - 1
         /\ Placed(Overwritten(file, at, Bytes(at, n)))
<1> DEFINE places == {at + k : k \in 0 .. n - 1}
           payload == Bytes(at, n)
           written == Overwritten(file, at, Bytes(at, n))
<1> USE DEF Placed
<1>1. DOMAIN payload = 0 .. n - 1
  BY DEF Bytes
<1>2. places = at .. at + n - 1
  <2>1. ASSUME NEW p \in at .. at + n - 1 PROVE p \in places
    <3>1. p - at \in 0 .. n - 1 /\ at + (p - at) = p
      OBVIOUS
    <3> QED BY <3>1
  <2>2. ASSUME NEW k \in 0 .. n - 1 PROVE at + k \in at .. at + n - 1
    OBVIOUS
  <2> QED BY <2>1, <2>2
<1>3. written = [p \in DOMAIN file \cup places |->
                   IF p - at \in 0 .. n - 1 THEN payload[p - at] ELSE file[p]]
  BY <1>1 DEF Overwritten
<1>4. DOMAIN written = DOMAIN file \cup at .. at + n - 1
  BY <1>2, <1>3
<1>5. ASSUME NEW p \in DOMAIN written PROVE p \in Nat /\ written[p] = p
  <2>1. p \in Nat
    BY <1>4
  <2>2. CASE p - at \in 0 .. n - 1
    <3>1. payload[p - at] = at + (p - at)
      BY <2>2 DEF Bytes
    <3>2. p \in DOMAIN file \cup places
      BY <1>2, <1>4
    <3>3. written[p] = payload[p - at]
      BY <1>3, <2>2, <3>2
    <3> QED BY <2>1, <3>1, <3>3
  <2>3. CASE p - at \notin 0 .. n - 1
    <3>1. p \notin at .. at + n - 1
      BY <2>1, <2>3
    <3>2. p \in DOMAIN file /\ p \in DOMAIN file \cup places
      BY <1>4, <3>1
    <3>3. written[p] = file[p]
      BY <1>3, <2>3, <3>2
    <3> QED BY <2>1, <3>2, <3>3
  <2> QED BY <2>2, <2>3
<1> QED BY <1>4, <1>5

-----------------------------------------------------------------------------
(* The invariant *)

LEMMA InitInv == Init => SectorsInv
<1> SUFFICES ASSUME Init PROVE SectorsInv
  OBVIOUS
<1>1. DOMAIN copy = {}
  BY DEF Init, Nothing
<1>2. kBlockSize * 0 = 0
  BY SectorsAssumption
<1>3. TypeOK
  <2>1. platform \in [{"sender", "receiver"} -> LongMax]
    BY DEF Init
  <2>2. complete \in BOOLEAN /\ extended \in BOOLEAN
    BY DEF Init
  <2>3. attempts \in 0 .. MaxAttempts /\ len \in 0 .. MaxLen
    BY SectorsAssumption DEF Init
  <2>4. pc \in {"user", "read", "write"} /\ curr \in Nat /\ next \in Nat /\ count \in Nat
        /\ seen \in Nat
    BY DEF Init
  <2> QED BY <1>1, <2>1, <2>2, <2>3, <2>4 DEF TypeOK
<1>4. Covered
  BY <1>1, <1>2 DEF Init, Covered
<1> QED BY <1>1, <1>3, <1>4 DEF Init, SectorsInv, Counted, InStep, NoMisplacedByte,
            HundredAtEnd

\* What every step may use of the platform and the counters.
LEMMA InvTypes ==
  ASSUME SectorsInv
  PROVE  /\ S \in LongMax /\ R \in LongMax /\ S \in Nat /\ R \in Nat
         /\ kBlockSize \in Nat \ {0, 1, 2}
         /\ count \in Nat /\ len \in Nat /\ seen \in Nat
<1>1. platform \in [{"sender", "receiver"} -> LongMax]
  BY DEF SectorsInv, TypeOK
<1>2. S \in LongMax /\ R \in LongMax
  BY <1>1 DEF S, R
<1>3. len \in 0 .. MaxLen /\ count \in Nat /\ seen \in Nat
  BY DEF SectorsInv, TypeOK
<1> QED BY <1>2, <1>3, SectorsAssumption

LEMMA StartKeeps == SectorsInv /\ Start => SectorsInv'
<1> SUFFICES ASSUME SectorsInv, Start PROVE SectorsInv'
  OBVIOUS
<1>1. DOMAIN copy' = {}
  BY DEF Start, Nothing
<1>2. kBlockSize * 0 = 0
  BY SectorsAssumption
<1>3. TypeOK'
  <2>1. attempts' \in 0 .. MaxAttempts
    BY SectorsAssumption DEF Start, SectorsInv, TypeOK
  <2>2. next' \in Nat /\ count' \in Nat /\ curr' \in Nat /\ pc' \in {"user", "read", "write"}
        /\ complete' \in BOOLEAN /\ extended' \in BOOLEAN
    BY DEF Start
  <2>3. UNCHANGED <<platform, len, seen>> /\ TypeOK
    BY DEF Start, SectorsInv
  <2> QED BY <1>1, <2>1, <2>2, <2>3 DEF TypeOK
<1>4. Covered'
  BY <1>1, <1>2 DEF Start, Covered, S
<1> QED BY <1>1, <1>3, <1>4 DEF Start, SectorsInv, Counted, InStep, NoMisplacedByte,
            HundredAtEnd

LEMMA ContinueKeeps == SectorsInv /\ Continue => SectorsInv'
<1> SUFFICES ASSUME SectorsInv, Continue PROVE SectorsInv'
  OBVIOUS
<1>1. TypeOK'
  <2>1. attempts' \in 0 .. MaxAttempts
    BY SectorsAssumption DEF Continue
  <2>2. next' \in Nat /\ curr' \in Nat /\ pc' \in {"user", "read", "write"}
    BY DEF Continue, SectorsInv, TypeOK
  <2>3. /\ UNCHANGED <<platform, len, copy, count, seen, complete, extended>>
        /\ TypeOK
    BY DEF Continue, history, SectorsInv
  <2> QED BY <2>1, <2>2, <2>3 DEF TypeOK
<1> QED BY <1>1 DEF Continue, history, SectorsInv, Counted, InStep, NoMisplacedByte,
            Covered, HundredAtEnd, S, R

\* An attempt that ends early changes nothing but where it is.
LEMMA EndsKeeps ==
  ASSUME SectorsInv, Ends,
         UNCHANGED <<platform, len, copy, next, count, curr, history, attempts>>
  PROVE  SectorsInv'
<1>1. TypeOK'
  BY DEF Ends, SectorsInv, TypeOK, history
<1> QED BY <1>1 DEF Ends, history, SectorsInv, Counted, InStep, NoMisplacedByte,
            Covered, HundredAtEnd, S, R

LEMMA GrowKeeps == SectorsInv /\ Grow => SectorsInv'
<1> SUFFICES ASSUME SectorsInv, Grow PROVE SectorsInv'
  OBVIOUS
<1>1. TypeOK'
  BY SectorsAssumption DEF Grow, SectorsInv, TypeOK, history
<1>2. seen' <= len'
  BY InvTypes DEF Grow, SectorsInv, history
<1> QED BY <1>1, <1>2 DEF Grow, history, SectorsInv, Counted, InStep, NoMisplacedByte,
            Covered, HundredAtEnd, S, R

LEMMA ReadKeeps == SectorsInv /\ ReadSector => SectorsInv'
<1> SUFFICES ASSUME SectorsInv, ReadSector PROVE SectorsInv'
  OBVIOUS
<1> USE InvTypes
<1>1. pc = "read" /\ next = count
  BY DEF ReadSector, SectorsInv, InStep
<1>2. kBlockSize * count \in Nat
  BY Distributes
<1>3. /\ Offset(count, S) \in Int
      /\ kBlockSize * count <= S => Offset(count, S) = kBlockSize * count
      /\ kBlockSize * count > S => Offset(count, S) < 0
  BY OffsetExact DEF SectorsInv, Counted
<1>4. Offset(count, S) >= 0
  BY <1>1 DEF ReadSector, S
<1>5. kBlockSize * count <= S /\ Offset(count, S) = kBlockSize * count
  BY <1>2, <1>3, <1>4
<1>6. /\ packet'.sector_current_num = count
      /\ packet'.sector_amount = SectorAmount(FTell(len, S))
      /\ packet'.is_last = (count + 1 >= packet'.sector_amount)
      /\ packet'.payload = Bytes(kBlockSize * count, ReadOf(kBlockSize * count, len))
  BY <1>1, <1>5 DEF ReadSector, S, ReadOf, Bytes
<1>7. next' = count + 1
      /\ seen' = len /\ len' = len /\ count' = count /\ S' = S /\ R' = R /\ pc' = "write"
  BY <1>1 DEF ReadSector, S, R
<1>8. InStep'
  BY <1>5, <1>6, <1>7 DEF InStep, FTell
<1>9. TypeOK'
  BY <1>1 DEF ReadSector, SectorsInv, TypeOK
<1>10. Covered'
  <2>1. extended' = (extended \/ (complete /\ len # seen)) /\ complete' = complete
        /\ copy' = copy
    BY DEF ReadSector
  <2>2. seen <= len
    BY DEF SectorsInv
  <2>3. CASE ~extended' /\ seen' <= S'
    <3>1. ~extended
      BY <2>1, <2>3
    <3>3. seen <= S
      BY <1>7, <2>2, <2>3
    <3>2. complete => seen' = seen
      BY <1>7, <2>1, <2>3
    <3> QED BY <1>2, <1>7, <2>1, <2>2, <3>1, <3>2, <3>3 DEF SectorsInv, Covered
  <2> QED BY <2>3 DEF Covered
<1> QED BY <1>7, <1>8, <1>9, <1>10 DEF ReadSector, SectorsInv, Counted, NoMisplacedByte,
            HundredAtEnd

LEMMA WriteKeeps == SectorsInv /\ WriteSector => SectorsInv'
<1> SUFFICES ASSUME SectorsInv, WriteSector PROVE SectorsInv'
  OBVIOUS
<1> USE InvTypes
<1> DEFINE at == kBlockSize * count
           n == ReadOf(at, seen)
           last == packet.is_last
<1>1. /\ at \in Nat
      /\ kBlockSize * (count + 1) = at + kBlockSize
  BY Distributes
<1>2. /\ pc = "write"
      /\ next = count + 1
      /\ at <= S
      /\ packet.sector_current_num = count
      /\ packet.sector_amount = SectorAmount(FTell(seen, S))
      /\ packet.is_last = (count + 1 >= packet.sector_amount)
      /\ packet.payload = Bytes(at, n)
  BY DEF WriteSector, SectorsInv, InStep
<1>3. /\ Offset(count, R) \in Int
      /\ at <= R => Offset(count, R) = at
      /\ at > R => Offset(count, R) < 0
  BY OffsetExact DEF SectorsInv, Counted
<1>4. Offset(count, R) >= 0 /\ copy' = Overwritten(copy, Offset(count, R), packet.payload)
  BY <1>2 DEF WriteSector, R
<1>5. at <= R /\ copy' = Overwritten(copy, at, Bytes(at, n))
  BY <1>1, <1>2, <1>3, <1>4
<1>6. n \in Nat /\ n <= kBlockSize
  BY <1>1 DEF ReadOf, Least
<1>7. /\ DOMAIN copy' = DOMAIN copy \cup at .. at + n - 1
      /\ \A p \in DOMAIN copy' : p \in Nat /\ copy'[p] = p
  <2>1. Placed(copy)
    BY DEF SectorsInv, TypeOK, NoMisplacedByte, Placed
  <2>2. at \in Nat /\ n \in Nat
    BY <1>1, <1>6
  <2>3. copy' = Overwritten(copy, at, Bytes(at, n))
    BY <1>5
  <2> HIDE DEF at, n
  <2>4. /\ DOMAIN Overwritten(copy, at, Bytes(at, n)) = DOMAIN copy \cup at .. at + n - 1
        /\ Placed(Overwritten(copy, at, Bytes(at, n)))
    BY ONLY <2>1, <2>2, OverwrittenIs
  <2>5. DOMAIN copy' = DOMAIN copy \cup at .. at + n - 1 /\ Placed(copy')
    BY ONLY <2>3, <2>4
  <2> QED BY <2>5 DEF Placed
<1>8. packet.sector_amount \in Nat \ {0}
  BY <1>2, AmountType DEF FTell
<1>9. curr' = Percent(packet) /\ count' = count + 1 /\ S' = S /\ R' = R /\ seen' = seen
      /\ extended' = extended /\ len' = len
      /\ pc' = (IF last THEN "user" ELSE "read")
  BY DEF WriteSector, S, R
<1>10. complete' = (complete \/ last)
  BY DEF WriteSector
<1>11. curr' \in Nat /\ (curr' >= 100 => last)
  BY <1>2, <1>8, <1>9, PercentOfLast
<1>12. TypeOK'
  BY <1>7, <1>9, <1>10, <1>11 DEF WriteSector, SectorsInv, TypeOK
<1>13. Counted'
  BY <1>2, <1>5, <1>9 DEF Counted
<1>14. InStep'
  BY <1>9, <1>2 DEF InStep, WriteSector, SectorsInv
<1>15. Covered'
  <2> SUFFICES ASSUME ~extended', seen' <= S'
               PROVE  /\ ~complete' => /\ DOMAIN copy' = 0 .. kBlockSize * count' - 1
                                       /\ count' = 0 \/ kBlockSize * count' < seen'
                      /\ complete' => DOMAIN copy' = 0 .. seen' - 1 /\ seen' <= kBlockSize * count'
    BY DEF Covered
  <2>1. /\ ~complete => DOMAIN copy = 0 .. at - 1 /\ (count = 0 \/ at < seen)
        /\ complete => DOMAIN copy = 0 .. seen - 1 /\ seen <= at
    BY <1>9 DEF SectorsInv, Covered
  <2>2. kBlockSize * count' = at + kBlockSize
    BY <1>1, <1>9
  <2>3. last <=> at + kBlockSize >= seen
    <3>1. FTell(seen, S) = seen
      BY <1>9 DEF FTell
    <3>2. last <=> count + 1 >= SectorAmount(seen)
      BY <1>2, <3>1
    <3> QED BY <1>1, <3>2, LastReachesEnd
  <2>4. /\ at < seen => n = Least(kBlockSize, seen - at)
        /\ ~(at < seen) => n = 0
    BY DEF ReadOf
  <2>5. count = 0 => at = 0
    OBVIOUS
  <2> HIDE DEF at, n, last
  <2>6. (0 .. at - 1) \cup (at .. at + n - 1) = 0 .. at + n - 1
    BY ONLY <1>1, <1>6, IntervalsMeet
  <2>7. ~complete => DOMAIN copy' = 0 .. at + n - 1
    BY ONLY <1>7, <2>1, <2>6
  <2>8. CASE complete
    <3>1. n = 0 /\ at .. at + n - 1 = {}
      BY <1>1, <2>1, <2>4, <2>8
    <3>2. DOMAIN copy' = 0 .. seen - 1
      BY <1>7, <2>1, <2>8, <3>1
    <3>3. complete'
      BY <1>10, <2>8
    <3> QED BY <1>1, <1>9, <2>1, <2>2, <2>8, <3>2, <3>3
  <2>9. CASE ~complete /\ last
    <3>1. at + n = seen
      BY <1>1, <2>1, <2>3, <2>4, <2>5, <2>9 DEF Least
    <3>2. DOMAIN copy' = 0 .. seen - 1
      BY <1>1, <1>6, <2>7, <2>9, <3>1
    <3>3. complete'
      BY <1>10, <2>9
    <3> QED BY <1>9, <2>2, <2>3, <2>9, <3>2, <3>3
  <2>10. CASE ~complete /\ ~last
    <3>1. at + kBlockSize < seen
      BY <1>1, <2>3, <2>10
    <3>2. n = kBlockSize
      BY <1>1, <2>4, <3>1 DEF Least
    <3>3. DOMAIN copy' = 0 .. at + kBlockSize - 1
      BY <1>1, <1>6, <2>7, <2>10, <3>2
    <3>4. ~complete'
      BY <1>10, <2>10
    <3> QED BY <1>1, <1>9, <2>2, <3>1, <3>3, <3>4
  <2> QED BY <2>8, <2>9, <2>10
<1>16. HundredAtEnd'
  BY <1>10, <1>11 DEF HundredAtEnd
<1> QED BY <1>7, <1>9, <1>12, <1>13, <1>14, <1>15, <1>16 DEF SectorsInv, NoMisplacedByte

LEMMA StepKeeps == SectorsInv /\ [Next]_vars => SectorsInv'
<1> SUFFICES ASSUME SectorsInv, [Next]_vars PROVE SectorsInv'
  OBVIOUS
<1>1. CASE Start
  BY <1>1, StartKeeps
<1>2. CASE Continue
  BY <1>2, ContinueKeeps
<1>3. CASE ReadSector
  BY <1>3, ReadKeeps
<1>4. CASE WriteSector
  BY <1>4, WriteKeeps
<1>5. CASE ReadFails \/ WriteFails \/ Abort
  BY <1>5, EndsKeeps DEF ReadFails, WriteFails, Abort, history
<1>6. CASE Grow
  BY <1>6, GrowKeeps
<1>7. CASE UNCHANGED vars
  BY <1>7 DEF vars, SectorsInv, TypeOK, Counted, InStep, NoMisplacedByte, Covered,
              HundredAtEnd, S, R
<1> QED BY <1>1, <1>2, <1>3, <1>4, <1>5, <1>6, <1>7 DEF Next

LEMMA SectorsInductive == Spec => []SectorsInv
  BY InitInv, StepKeeps, PTL DEF Spec

\* However short the long of either platform and however long the file, an offset that
\* wraps around never puts a byte at the place of another.
THEOREM NoByteMisplaced == Spec => []NoMisplacedByte
<1>1. SectorsInv => NoMisplacedByte
  BY DEF SectorsInv
<1> QED BY <1>1, SectorsInductive, PTL

\* 100 % at the receiver means the whole source as it was when last read, if the
\* sender's long can hold its length and no complete copy was extended.
THEOREM WholeAtHundred == Spec => []HundredIsWhole
<1>1. SectorsInv => HundredIsWhole
  BY DEF SectorsInv, Covered, HundredAtEnd, HundredIsWhole, S
<1> QED BY <1>1, SectorsInductive, PTL
=============================================================================
