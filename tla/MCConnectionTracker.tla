------------------------ MODULE MCConnectionTracker -------------------------
(* Small instances of ConnectionTracker. *)
EXTENDS ConnectionTracker
=============================================================================
