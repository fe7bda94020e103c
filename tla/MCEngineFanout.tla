--------------------------- MODULE MCEngineFanout ---------------------------
(* Four trades in three batches: the shipped policy is one trade per batch, the
   planned grouping policies make longer ones. *)
EXTENDS EngineFanout

MCSizes == <<1, 2, 1>>
=============================================================================
