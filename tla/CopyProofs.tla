----------------------------- MODULE CopyProofs -----------------------------
(***************************************************************************)
(* The promise of Copy, proved for every number of sectors.                *)
(***************************************************************************)
EXTENDS Copy, TLAPS

CopyTypeOK ==
  /\ copy \in Copies
  /\ resume \in Nat
  /\ phase \in {"closed", "offered", "moving"}
  /\ complete \in BOOLEAN

\* Why the promise holds: as long as the copy is there, what is before the
\* resume point is in it or has been lost, and nothing is moved into a copy
\* that is not there.
CopyInv ==
  /\ CopyTypeOK
  /\ copy.exists => \A i \in SourceSectors :
       i < resume => i \in copy.written \cup copy.lost
  /\ phase = "moving" => copy.exists
  /\ complete => phase = "closed"
  /\ Promise

\* The three copies the actions name.
LEMMA CopyTypes ==
  /\ NoCopy \in Copies /\ ~NoCopy.exists
  /\ EmptyCopy \in Copies /\ OldCopy \in Copies
BY DEF Copies, NoCopy, EmptyCopy, OldCopy

\* The start: no copy, or one that holds nothing of the source.
LEMMA CopyInitInv == CopyInit => CopyInv
<1> SUFFICES ASSUME CopyInit PROVE CopyInv
  OBVIOUS
<1>1. copy \in Copies /\ resume = 0 /\ phase = "closed" /\ complete = FALSE
  BY CopyTypes DEF CopyInit
<1>2. CopyTypeOK
  BY <1>1 DEF CopyTypeOK
<1> QED BY <1>1, <1>2 DEF CopyInv, SourceSectors, Promise

\* One more sector, or one less: the copy stays one, is there as before, and
\* has each of its sectors still, at least among the lost ones.
LEMMA OneSector ==
  ASSUME copy \in Copies, NEW k \in Int
  PROVE  /\ With(k) \in Copies /\ With(k).exists = copy.exists
         /\ \A i \in SourceSectors : i \in copy.written \cup copy.lost \/ i = k =>
              i \in With(k).written \cup With(k).lost
         /\ Without(k) \in Copies /\ Without(k).exists = copy.exists
         /\ \A i \in SourceSectors : i \in copy.written \cup copy.lost \/ i = k =>
              i \in Without(k).written \cup Without(k).lost
<1>1. copy.written \in SUBSET Nat /\ copy.lost \in SUBSET Nat
  BY DEF Copies
<1>2. {k} \cap SourceSectors \in SUBSET Nat
  BY DEF SourceSectors
<1>3. /\ With(k).exists = copy.exists /\ Without(k).exists = copy.exists
      /\ With(k).written = copy.written \cup ({k} \cap SourceSectors)
      /\ With(k).lost = copy.lost \ {k}
      /\ Without(k).written = copy.written \ {k}
      /\ Without(k).lost = copy.lost \cup ({k} \cap SourceSectors)
  BY DEF Copies, With, Without
<1>4. ASSUME NEW w \in SUBSET Nat, NEW l \in SUBSET Nat
      PROVE  [copy EXCEPT !.written = w, !.lost = l] \in Copies
  BY DEF Copies
<1>5. With(k) \in Copies /\ Without(k) \in Copies
  <2>1. copy.written \cup ({k} \cap SourceSectors) \in SUBSET Nat
    BY <1>1, <1>2
  <2>2. copy.lost \cup ({k} \cap SourceSectors) \in SUBSET Nat
    BY <1>1, <1>2
  <2>3. copy.written \ {k} \in SUBSET Nat /\ copy.lost \ {k} \in SUBSET Nat
    BY <1>1
  <2>4. With(k) = [copy EXCEPT !.written = copy.written \cup ({k} \cap SourceSectors),
                               !.lost = copy.lost \ {k}]
    BY DEF With
  <2>5. Without(k) = [copy EXCEPT !.written = copy.written \ {k},
                                  !.lost = copy.lost \cup ({k} \cap SourceSectors)]
    BY DEF Without
  <2> QED BY <1>4, <2>1, <2>2, <2>3, <2>4, <2>5
<1> QED BY <1>3, <1>5

\* Everything but a sector or a failure leaves the arrived sectors alone or
\* takes the copy away.
LEMMA HandshakeKeepsInv ==
  ASSUME CopyInv,
         \/ Begin \/ OfferFresh \/ OfferExisting \/ Decline
         \/ DeclineAtOnce \/ Agree \/ Stop
  PROVE  CopyInv'
<1>1. /\ copy \in Copies /\ resume \in Nat
      /\ phase \in {"closed", "offered", "moving"} /\ complete \in BOOLEAN
      /\ copy.exists => \A i \in SourceSectors :
           i < resume => i \in copy.written \cup copy.lost
      /\ phase = "moving" => copy.exists
      /\ complete => phase = "closed"
      /\ Promise
  BY DEF CopyInv, CopyTypeOK
<1>2. CASE Begin \/ OfferExisting \/ Agree \/ (Stop /\ copy' = copy)
  <2>1. /\ UNCHANGED <<copy, resume>>
        /\ phase' \in {"closed", "offered", "moving"} /\ complete' \in BOOLEAN
        /\ phase' = "moving" => copy.exists
        /\ complete' => complete /\ phase' = "closed"
    <3>1. CASE Begin \/ OfferExisting
      BY <1>1, <3>1 DEF Begin, OfferExisting
    <3>2. CASE Agree
      BY <1>1, <3>2 DEF Agree
    <3>3. CASE (Stop /\ copy' = copy)
      BY <1>1, <3>3 DEF Stop
    <3> QED BY <1>2, <3>1, <3>2, <3>3
  <2> QED BY <1>1, <2>1 DEF CopyInv, CopyTypeOK, Promise, SourceSectors
<1>3. CASE OfferFresh \/ Decline \/ DeclineAtOnce
  <2>1. /\ copy' \in {copy, NoCopy, EmptyCopy}
        /\ resume' \in {0, resume}
        /\ resume' = 0 \/ copy' \in {copy, NoCopy}
        /\ phase' \in {"closed", "offered"} /\ complete' = FALSE
    BY <1>1, <1>3 DEF OfferFresh, Decline, DeclineAtOnce
  <2>2. copy' \in Copies /\ resume' \in Nat
    BY <1>1, <2>1, CopyTypes
  <2>3. copy'.exists => \A i \in SourceSectors :
          i < resume' => i \in copy'.written \cup copy'.lost
    BY <1>1, <2>1, CopyTypes DEF SourceSectors
  <2> QED BY <2>1, <2>2, <2>3 DEF CopyInv, CopyTypeOK, Promise, SourceSectors
<1>4. CASE Stop /\ copy' # copy
  <2>1. /\ copy' = Without(resume - 1) /\ UNCHANGED <<resume, complete>>
        /\ phase = "moving" /\ phase' = "closed"
    BY <1>4 DEF Stop
  <2>2. /\ copy' \in Copies /\ copy'.exists = copy.exists
        /\ \A i \in SourceSectors : i \in copy.written \cup copy.lost =>
             i \in copy'.written \cup copy'.lost
    BY <1>1, <2>1, OneSector
  <2>3. ~complete
    BY <1>1, <2>1
  <2>4. CopyTypeOK'
    BY <1>1, <2>1, <2>2 DEF CopyTypeOK
  <2>5. copy'.exists => \A i \in SourceSectors :
          i < resume' => i \in copy'.written \cup copy'.lost
    BY <1>1, <2>1, <2>2 DEF SourceSectors
  <2> QED BY <2>1, <2>3, <2>4, <2>5 DEF CopyInv, Promise
<1> QED BY <1>2, <1>3, <1>4

\* A sector extends the covered part by one, even if it is lost; the last one
\* completes it.
LEMMA PutKeepsInv ==
  ASSUME CopyInv, Put
  PROVE  CopyInv'
<1> USE DEF CopyInv, CopyTypeOK
<1>1. /\ resume' = resume + 1 /\ phase = "moving" /\ ~complete
      /\ phase' \in {"closed", "moving"}
      /\ complete' => phase' = "closed" /\ resume + 1 >= NumSectors
      /\ complete' \in BOOLEAN
      /\ \/ copy' \in {With(resume), Without(resume)}
         \/ resume \notin SourceSectors \ copy.written /\ copy' = copy
  BY DEF Put
<1>2. /\ copy' \in Copies /\ copy'.exists
      /\ \A i \in SourceSectors : i \in copy.written \cup copy.lost \/ i = resume =>
           i \in copy'.written \cup copy'.lost
  BY <1>1, OneSector
<1>3. \A i \in SourceSectors : i < resume' => i \in copy'.written \cup copy'.lost
  BY <1>1, <1>2 DEF SourceSectors
<1>4. Promise'
  BY <1>1, <1>2, <1>3, CopyAssumption DEF Promise, SourceSectors
<1> QED BY <1>1, <1>2, <1>3, <1>4

\* A failure forgets the resume point, so there is nothing left to cover.
LEMMA FailKeepsInv ==
  ASSUME CopyInv, Fail
  PROVE  CopyInv'
<1>1. copy \in Copies /\ resume \in Nat
  BY DEF CopyInv, CopyTypeOK
<1>2. resume' = 0 /\ phase' = "closed" /\ complete' = FALSE
  BY DEF Fail
<1>3. copy' \in Copies
  <2>1. Without(resume - 1) \in Copies
    BY <1>1, OneSector
  <2>2. [Without(resume - 1) EXCEPT !.lost = copy.lost] \in Copies
    BY <1>1, <2>1 DEF Copies
  <2> QED BY <1>1, <2>1, <2>2 DEF Fail
<1>4. \A i \in SourceSectors : ~(i < resume')
  BY <1>2, CopyAssumption DEF SourceSectors
<1>5. CopyTypeOK'
  BY <1>2, <1>3 DEF CopyTypeOK
<1>6. /\ copy'.exists => \A i \in SourceSectors :
           i < resume' => i \in copy'.written \cup copy'.lost
      /\ ~(phase' = "moving")
      /\ complete' => phase' = "closed"
      /\ Promise'
  BY <1>2, <1>4 DEF Promise
<1> QED BY <1>5, <1>6 DEF CopyInv

\* A transfer that is declared complete left every sector of the source in
\* the copy that no disk error has taken from it, whatever transfers, refusals
\* and failures went before (what execute_upload's "Completed" says).
THEOREM PromiseKept == CopySpec => []Promise
<1>1. CopyInv /\ [CopyNext]_copyVars => CopyInv'
  <2>1. CASE CopyNext
    BY <2>1, HandshakeKeepsInv, PutKeepsInv, FailKeepsInv DEF CopyNext
  <2>2. CASE UNCHANGED copyVars
    BY <2>2 DEF CopyInv, CopyTypeOK, copyVars, Promise
  <2> QED BY <2>1, <2>2
<1>2. CopyInv => Promise
  BY DEF CopyInv
<1> QED BY CopyInitInv, <1>1, <1>2, PTL DEF CopySpec
=============================================================================
