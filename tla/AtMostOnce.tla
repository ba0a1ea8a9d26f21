----------------------------- MODULE AtMostOnce -----------------------------
(***************************************************************************)
(* What the duplicate filter promises together with the publisher: a claim *)
(* is given out once, and a message published under it is queued once or   *)
(* never.  What was given up stays so: the claim is not given out again.   *)
(***************************************************************************)
EXTENDS FiniteSets

CONSTANTS
  Claims    \* what can be claimed

VARIABLES
  issued,   \* claims that were given out
  pending,  \* those whose message may still be queued
  queued    \* those whose message was queued

filter == <<issued, pending, queued>>

FilterInit ==
  /\ issued = {}
  /\ pending = {}
  /\ queued = {}

Issue(c) ==
  /\ c \notin issued
  /\ issued' = issued \cup {c}
  /\ pending' = pending \cup {c}
  /\ UNCHANGED queued

Enqueue(c) ==
  /\ c \in pending
  /\ pending' = pending \ {c}
  /\ queued' = queued \cup {c}
  /\ UNCHANGED issued

\* Messages are given up, and claims are given out to nobody.
Forget ==
  /\ pending' \subseteq pending
  /\ issued \subseteq issued'
  /\ issued' \subseteq Claims
  /\ UNCHANGED queued

FilterNext ==
  \/ \E c \in Claims : Issue(c) \/ Enqueue(c)
  \/ Forget

FilterSpec == FilterInit /\ [][FilterNext]_filter
=============================================================================
