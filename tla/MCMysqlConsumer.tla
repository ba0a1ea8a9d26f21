-------------------------- MODULE MCMysqlConsumer ---------------------------
(* Small instances of MysqlConsumer: two tables, m1 and m2 in the first. *)
EXTENDS MysqlConsumer

CONSTANTS m1, m2, m3, p, g, u, t1, t2

MCTableOf == [m \in Routable |-> IF m = m3 THEN t2 ELSE t1]
=============================================================================
