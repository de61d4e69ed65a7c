--------------------------- MODULE MCControlStream ---------------------------
(***************************************************************************)
(* Instances of ControlStream.  With packets of two bytes the lengths fall *)
(* below, on and above one and two packets.                                *)
(***************************************************************************)
EXTENDS ControlStream
==============================================================================
