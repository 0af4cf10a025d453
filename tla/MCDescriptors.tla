---- MODULE MCDescriptors ----
(* Two objects of each kind that moves, one guard pair and two nested silencers. *)
EXTENDS Descriptors, TLC

Symmetric == Permutations(FDs) \cup Permutations(FPs) \cup Permutations(Guards)
====
