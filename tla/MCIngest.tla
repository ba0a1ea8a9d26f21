------------------------------ MODULE MCIngest ------------------------------
(* Small instances of Ingest. *)
EXTENDS Ingest

\* Everything, everything but nacks, and the environments of the properties that
\* hold in few.
MCFaultSets == {AllFaults, AllFaults \ {"nack"}, {"redis", "expiry"}, {"expiry"}}
=============================================================================
