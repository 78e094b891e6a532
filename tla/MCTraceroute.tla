---------------------------- MODULE MCTraceroute ----------------------------
(***************************************************************************)
(* Traceroute for TLC.  Other programs of the host provoke the reply to a  *)
(* ping of theirs, a reply that is too short, and a message of a type that *)
(* the parser does not know.                                               *)
(***************************************************************************)
EXTENDS Traceroute

MCStrangers ==
  {Packet("EchoReply", 9, 1, "whole"),
   Packet("EchoReply", 9, 1, "short"),
   Packet("Other", 0, 0, "whole")}
=============================================================================
