-------------------------------- MODULE Icmp --------------------------------
(***************************************************************************)
(* What messageSwitchParsing of lab5/main.go makes of a packet of the raw  *)
(* socket.  Both modes of the program, ping and traceroute, use it.        *)
(*                                                                         *)
(* word is the first little-endian word of the echo data, which carries    *)
(* the number of the sender (idRoutineDelta + routine, or + hop), seq the  *)
(* sequence number of the echo.  body says whether the packet parses       *)
(* ("bad" does not) and whether it carries all the data: routers may       *)
(* return as little as eight bytes of the packet they drop ("short").      *)
(***************************************************************************)
EXTENDS Integers

idRoutineDelta == 234

Types == {"Echo", "EchoReply", "DestUnreach", "TimeExceeded", "Other"}

Packets == [type : Types, word : Nat, seq : Nat,
            body : {"whole", "short", "bad"}]

Packet(type, word, seq, body) ==
  [type |-> type, word |-> word, seq |-> seq, body |-> body]

\* Every error of the parsers ends in log.Fatal, an unknown type included.
Fatal(p) == p.type = "Other" \/ p.body = "bad"

\* ok = FALSE: only messages that are routed by their data need it.
Unwaited(p) == p.type # "TimeExceeded" /\ p.body = "short"

\* Mutant: the embedded echo of a message is never looked at.
ReqIDNoEmbedded(p) ==
  IF p.type \in {"TimeExceeded", "DestUnreach"} THEN p.seq
  ELSE p.word - idRoutineDelta

\* Mutant: a time-exceeded message counts hops from zero.
ReqIDFromZero(p) ==
  IF p.type = "TimeExceeded" THEN p.seq - 1 ELSE p.word - idRoutineDelta

\* reqID: a time-exceeded message is known by its sequence number, every other
\* message by its data.
ReqID(p) == IF p.type = "TimeExceeded" THEN p.seq ELSE p.word - idRoutineDelta
=============================================================================
