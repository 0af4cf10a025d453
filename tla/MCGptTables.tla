---------------------------- MODULE MCGptTables ----------------------------
(* Two fixed tables and a removable one, at most two names, two files of which
   one is the default of two tables. *)
EXTENDS GptTables, TLC
CONSTANTS sda, sdb, mmc, f, g

MCDefault == sda :> f @@ sdb :> g @@ mmc :> g
=============================================================================
