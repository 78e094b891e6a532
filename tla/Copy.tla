-------------------------------- MODULE Copy --------------------------------
(***************************************************************************)
(* What one file transfer promises to the side that receives the file,     *)
(* with no network, no peer and no handshake messages in sight.  The       *)
(* receiver opens its copy, the two sides agree or decline, and then the   *)
(* sectors arrive one by one, each exactly at the resume point.  A disk    *)
(* that refuses data costs the copy the sector that came last, and nobody  *)
(* need notice.  A copy that is declared complete holds every sector of    *)
(* the source but for those.                                               *)
(*                                                                         *)
(* FileTransfer implements this specification; see Abstraction there.      *)
(***************************************************************************)
EXTENDS Integers

CONSTANT NumSectors   \* sectors of the source file, sector_amount in the code

ASSUME CopyAssumption == NumSectors \in Nat \ {0}

VARIABLES
  copy,      \* the receiver's file
  resume,    \* the sector the receiver expects next
  phase,     \* "closed", "offered" (opened, not yet agreed) or "moving"
  complete   \* the last transfer ended with every sector received

copyVars == <<copy, resume, phase, complete>>

SourceSectors == 0 .. NumSectors - 1

(***************************************************************************)
(* A copy records which sectors hold the source's data, which have arrived *)
(* and been lost since, and whether bytes of an earlier file with the same *)
(* name may still be in it.                                                *)
(***************************************************************************)
Copies == [exists : BOOLEAN, written : SUBSET Nat, lost : SUBSET Nat,
           leftover : BOOLEAN]

NoCopy ==
  [exists |-> FALSE, written |-> {}, lost |-> {}, leftover |-> FALSE]

EmptyCopy ==
  [exists |-> TRUE, written |-> {}, lost |-> {}, leftover |-> FALSE]

OldCopy ==
  [exists |-> TRUE, written |-> {}, lost |-> {}, leftover |-> TRUE]

\* The copy with one more sector; nothing of the source is beyond its end.
With(k) ==
  [copy EXCEPT !.written = @ \cup ({k} \cap SourceSectors),
               !.lost = @ \ {k}]

\* The copy that has lost a sector.
Without(k) ==
  [copy EXCEPT !.written = @ \ {k},
               !.lost = @ \cup ({k} \cap SourceSectors)]

CopyInit ==
  /\ copy \in {NoCopy, OldCopy}
  /\ resume = 0
  /\ phase = "closed"
  /\ complete = FALSE

\* A new transfer forgets the outcome of the one before.
Begin ==
  /\ phase = "closed"
  /\ complete' = FALSE
  /\ UNCHANGED <<copy, resume, phase>>

\* A fresh transfer truncates the copy; opening it may also fail.
OfferFresh ==
  /\ phase = "closed"
  /\ copy' \in {copy, EmptyCopy}
  /\ resume' = 0
  /\ phase' = "offered"
  /\ complete' = FALSE

\* A continued transfer takes the copy and the resume point as they are.
OfferExisting ==
  /\ phase = "closed"
  /\ phase' = "offered"
  /\ complete' = FALSE
  /\ UNCHANGED <<copy, resume>>

\* Declining removes the copy, unless that fails.
Decline ==
  /\ phase = "offered"
  /\ copy' \in {copy, NoCopy}
  /\ phase' = "closed"
  /\ complete' = FALSE
  /\ UNCHANGED resume

\* A transfer that the receiver cannot even offer: opening it may already have
\* truncated the copy, and declining may have removed it.
DeclineAtOnce ==
  /\ phase = "closed"
  /\ \/ copy' \in {copy, NoCopy} /\ resume' \in {resume, 0}
     \/ copy' = EmptyCopy /\ resume' = 0
  /\ complete' = FALSE
  /\ UNCHANGED phase

Agree ==
  /\ phase = "offered"
  /\ copy.exists
  /\ phase' = "moving"
  /\ UNCHANGED <<copy, resume, complete>>

\* Mutant: the receiver skips a sector.
PutFurther ==
  /\ phase = "moving"
  /\ resume' = resume + 2
  /\ IF resume + 2 >= NumSectors
       THEN /\ copy' \in {With(resume), Without(resume), copy}
            /\ phase' = "closed" /\ complete' = TRUE
       ELSE copy' = With(resume) /\ UNCHANGED <<phase, complete>>

\* The next sector arrives; the one that reaches the end completes the copy,
\* even if that sector is lost (unless the copy had it before).
Put ==
  /\ phase = "moving"
  /\ resume' = resume + 1
  /\ IF resume + 1 >= NumSectors
       THEN /\ \/ copy' \in {With(resume), Without(resume)}
               \/ resume \notin SourceSectors \ copy.written /\ UNCHANGED copy
            /\ phase' = "closed" /\ complete' = TRUE
       ELSE copy' = With(resume) /\ UNCHANGED <<phase, complete>>

\* The transfer ends early.  A disk error may cost the sector that came last.
Stop ==
  /\ phase \in {"offered", "moving"}
  /\ phase' = "closed"
  /\ \/ UNCHANGED copy
     \/ phase = "moving" /\ copy' = Without(resume - 1)
  /\ UNCHANGED <<resume, complete>>

\* The receiving process ends: the resume point is forgotten, and the sector
\* that came last may not have reached the disk.
Fail ==
  /\ \/ UNCHANGED copy
     \/ /\ phase = "moving"
        /\ copy' \in {Without(resume - 1),
                      [Without(resume - 1) EXCEPT !.lost = copy.lost]}
  /\ resume' = 0
  /\ phase' = "closed"
  /\ complete' = FALSE

CopyNext ==
  \/ Begin \/ OfferFresh \/ OfferExisting \/ Decline
  \/ DeclineAtOnce \/ Agree \/ Put \/ Stop \/ Fail

CopySpec == CopyInit /\ [][CopyNext]_copyVars

-----------------------------------------------------------------------------
\* The promise: a transfer declared complete left every sector in the copy
\* that no disk error has taken from it.
Promise ==
  complete => copy.exists /\ SourceSectors \subseteq copy.written \cup copy.lost
=============================================================================
