------------------------- MODULE MCPostgresConsumer -------------------------
(* Small instances of PostgresConsumer: m1 and m2 belong to one row, m3 was   *)
(* approved an hour later at the same terminal.                              *)
EXTENDS PostgresConsumer

CONSTANTS m1, m2, m3, p, g, u, k1, k2

MCRowOf == [m \in Usable |-> IF m = m3 THEN k2 ELSE k1]
=============================================================================
