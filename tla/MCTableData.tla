---------------------------- MODULE MCTableData ----------------------------
(* Two tables, each readable or not, with two entries and a name that both may
   have; two objects. *)
EXTENDS TableData, TLC
CONSTANTS sda, sdb, a, b

MCLayouts == sda :> {<<1, 0>>, <<0, 2>>} @@ sdb :> {<<0, 1>>}
Symmetry == Permutations({a, b})
=============================================================================
