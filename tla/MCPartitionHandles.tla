------------------------- MODULE MCPartitionHandles -------------------------
(* Two objects over two devices, one of which cannot be read; memory for three
   handles. *)
EXTENDS PartitionHandles, TLC
CONSTANTS o1, o2, boot, locked, h1, h2, h3

Symmetry == Permutations({o1, o2}) \cup Permutations({h1, h2, h3})
=============================================================================
