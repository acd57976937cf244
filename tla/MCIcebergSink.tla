--------------------------- MODULE MCIcebergSink ---------------------------
(* The instance of IcebergSink for TLC: one partition of the topic and two *)
(* cells of the table.                                                     *)
EXTENDS IcebergSinkInduction

CONSTANTS p1, c1, c2
=============================================================================
