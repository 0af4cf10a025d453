--------------------------- MODULE MCAsyncManager ---------------------------
(* Three jobs, free order of the owner's calls. *)
EXTENDS AsyncManager
=============================================================================
