---------------------------- MODULE MCPingSwitch ----------------------------
(***************************************************************************)
(* PingSwitch for TLC: two addresses, the second one this host, and what   *)
(* other programs of the host may provoke: the reply to a program that     *)
(* numbers its routines alike, replies with a first word below and above   *)
(* the numbers in use, a time-exceeded message beyond the routines, and a  *)
(* message of another type.                                                *)
(***************************************************************************)
EXTENDS PingSwitch

MCLocal == {1}

MCStrangers ==
  {Packet("EchoReply", idRoutineDelta, 1, "whole"),
   Packet("EchoReply", 0, 1, "whole"),
   Packet("EchoReply", idRoutineDelta + N, 1, "whole"),
   Packet("TimeExceeded", 0, N, "whole"),
   Packet("Other", 0, 0, "whole")}
=============================================================================
