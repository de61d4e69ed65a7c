---------------------------- MODULE MCReportLayout ----------------------------
(***************************************************************************)
(* ReportLayout with each pin on its own, with none, some and all, and     *)
(* every output byte.                                                      *)
(***************************************************************************)
EXTENDS ReportLayout

SomePins == {0, 90, 255} \union {2^k : k \in 0..7}
AllOuts == 0..255
===============================================================================
