--------------------------- MODULE MCMeterWriter ---------------------------
(* Two callers, three records, batches of two: one caller can fill a batch *)
(* while the other's flush or the loop's is still writing.                 *)
EXTENDS MeterWriter
=============================================================================
