---------------------------- MODULE MCDynamicTable ----------------------------
(* Partitions a and b are in two groups, a also names a GPT partition, c names two. *)
EXTENDS DynamicTable

CONSTANTS a, b, c, g, h, image, short, x, y, main, sda, sdb

MCGroupOf == a :> g @@ b :> h @@ c :> h
MCSizeOf  == a :> 2 @@ b :> 1 @@ c :> 1
MCLimit   == g :> 1 @@ h :> 2
MCLayouts == {<<a, b>>, <<b>>}
MCClassic == <<<<sda, c>>, <<sda, a>>, <<sdb, c>>>>
MCAsked   == {<<b, a>>, <<a, c>>}
Symmetry  == Permutations({x, y})
=============================================================================
