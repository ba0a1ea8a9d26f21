----------------------------- MODULE MCPipeline -----------------------------
(* A small instance of Pipeline: an event that has a row in PostgreSQL and    *)
(* none in MySQL, so that it is settled in either way.                       *)
EXTENDS Pipeline

CONSTANTS m1

MCKey == [m \in Msgs |-> "odd"]
=============================================================================
