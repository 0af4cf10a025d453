--------------------------- MODULE MCPartitionIO ---------------------------
(* Four bytes through a buffer of two; images smaller than, as large as and
   larger than the partition. *)
EXTENDS PartitionIO

MCImageSizes == {1, 3, 4, 5}
=============================================================================
