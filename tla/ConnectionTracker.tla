------------------------- MODULE ConnectionTracker --------------------------
(***************************************************************************)
(* The TCP listener's connection limits (security.rs) as tcp_listener.rs    *)
(* and main.rs use them.  One accept loop acquires guards; connection       *)
(* tasks drop them on other threads.  An atomic counter and a DashMap entry *)
(* are two objects: a drop is three steps, and the accept loop may run      *)
(* between any two of them.  A listener that fails is started again with a  *)
(* new tracker, while guards of the old one live on.                        *)
(***************************************************************************)
EXTENDS Integers, FiniteSets

CONSTANTS
  Ips,       \* allowed peers
  Conns,     \* connections that can exist at once
  Trackers,  \* Arc<ConnectionTracker> objects that can exist at once
  MaxTotal,  \* tcp_max_connections
  MaxPerIp   \* tcp_max_conn_per_ip

ASSUME TrackerAssumption ==
  /\ IsFiniteSet(Conns)
  /\ MaxTotal \in Nat
  /\ MaxPerIp \in Nat

VARIABLES
  lis,      \* the accept loop: "accepting", "locked" or "undo" inside acquire,
            \* "down" while main waits to start it again
  tracker,  \* the tracker of the running accept loop
  cur,      \* the connection and peer that acquire works on
  total,    \* total[r]: the atomic counter of the tracker r
  per_ip,   \* per_ip[r][ip]: the entry of ip in the map of r
  st,       \* st[c]: how far the guard of c is: "free", "open" while it is
            \* held, "ended" and "removing" inside release
  guard     \* guard[c]: the tracker and the peer the guard of c names

vars == <<lis, tracker, cur, total, per_ip, st, guard>>

NoEntry == -1

Peer  == [tracker : Trackers, ip : Ips]
Stage == {"free", "open", "ended", "removing"}

TypeOK ==
  /\ lis \in {"accepting", "locked", "undo", "down"}
  /\ tracker \in Trackers
  /\ cur \in [conn : Conns, ip : Ips]
  /\ total \in [Trackers -> Nat]
  /\ per_ip \in [Trackers -> [Ips -> Nat \cup {NoEntry}]]
  /\ st \in [Conns -> Stage]
  /\ guard \in [Conns -> Peer]

Init ==
  /\ lis = "accepting"
  /\ tracker \in Trackers
  /\ cur \in [conn : Conns, ip : Ips]
  /\ total = [r \in Trackers |-> 0]
  /\ per_ip = [r \in Trackers |-> [ip \in Ips |-> NoEntry]]
  /\ st = [c \in Conns |-> "free"]
  /\ guard \in [Conns -> Peer]

\* The number behind an entry; a missing one counts as 0.
Count(r, ip) == IF per_ip[r][ip] = NoEntry THEN 0 ELSE per_ip[r][ip]

SetEntry(r, ip, n) == per_ip' = [per_ip EXCEPT ![r][ip] = n]

\* acquire holds the write lock of an entry from or_insert to its return.
Locked(r, ip) == lis \in {"locked", "undo"} /\ tracker = r /\ cur.ip = ip

-----------------------------------------------------------------------------
(* The accept loop. *)

\* A peer connects; acquire takes the entry and refuses at the peer's limit.
Begin(c, ip) ==
  /\ lis = "accepting"
  /\ st[c] = "free"
  /\ SetEntry(tracker, ip, Count(tracker, ip))
  /\ IF Count(tracker, ip) >= MaxPerIp
       THEN UNCHANGED <<lis, cur>>
       ELSE lis' = "locked" /\ cur' = [conn |-> c, ip |-> ip]
  /\ UNCHANGED <<tracker, total, st, guard>>

\* Mutant of Admit: the limit compared with >, as if fetch_add returned the sum.
AdmitOneMore ==
  /\ lis = "locked"
  /\ total[tracker] <= MaxTotal
  /\ total' = [total EXCEPT ![tracker] = @ + 1]
  /\ SetEntry(tracker, cur.ip, Count(tracker, cur.ip) + 1)
  /\ st' = [st EXCEPT ![cur.conn] = "open"]
  /\ guard' = [guard EXCEPT ![cur.conn] = [tracker |-> tracker, ip |-> cur.ip]]
  /\ lis' = "accepting"
  /\ UNCHANGED <<tracker, cur>>

\* fetch_add finds room: both counts go up and the guard is handed out.
Admit ==
  /\ lis = "locked"
  /\ total[tracker] < MaxTotal
  /\ total' = [total EXCEPT ![tracker] = @ + 1]
  /\ SetEntry(tracker, cur.ip, Count(tracker, cur.ip) + 1)
  /\ st' = [st EXCEPT ![cur.conn] = "open"]
  /\ guard' = [guard EXCEPT ![cur.conn] = [tracker |-> tracker, ip |-> cur.ip]]
  /\ lis' = "accepting"
  /\ UNCHANGED <<tracker, cur>>

\* Mutant of Overshoot: the counter is read before it is added to, so there is
\* nothing to undo, and it is undone all the same.
OvershootUncounted ==
  /\ lis = "locked"
  /\ total[tracker] >= MaxTotal
  /\ lis' = "undo"
  /\ UNCHANGED <<tracker, cur, total, per_ip, st, guard>>

\* Mutant of Overshoot: the sum is compared, as if fetch_add returned it.
OvershootEarly ==
  /\ lis = "locked"
  /\ total[tracker] + 1 >= MaxTotal
  /\ total' = [total EXCEPT ![tracker] = @ + 1]
  /\ lis' = "undo"
  /\ UNCHANGED <<tracker, cur, per_ip, st, guard>>

\* fetch_add finds no room; the counter is one too high until it is undone.
Overshoot ==
  /\ lis = "locked"
  /\ total[tracker] >= MaxTotal
  /\ total' = [total EXCEPT ![tracker] = @ + 1]
  /\ lis' = "undo"
  /\ UNCHANGED <<tracker, cur, per_ip, st, guard>>

\* Mutant of Undo: the refusal returns without the fetch_sub.
UndoForgotten ==
  /\ lis = "undo"
  /\ lis' = "accepting"
  /\ UNCHANGED <<tracker, cur, total, per_ip, st, guard>>

\* The connection is refused; its entry stays, even if it holds 0.
Undo ==
  /\ lis = "undo"
  /\ total' = [total EXCEPT ![tracker] = @ - 1]
  /\ lis' = "accepting"
  /\ UNCHANGED <<tracker, cur, per_ip, st, guard>>

\* accept returns an error and `?` ends start; its connections go on.
AcceptError ==
  /\ lis = "accepting"
  /\ lis' = "down"
  /\ UNCHANGED <<tracker, cur, total, per_ip, st, guard>>

\* A tracker is freed with the last guard that refers to it.
Unreferenced(r) == \A c \in Conns : st[c] # "free" => guard[c].tracker # r

\* After 5 seconds main calls start again, which makes a new tracker.
Rebind(r) ==
  /\ lis = "down"
  /\ Unreferenced(r)
  /\ lis' = "accepting"
  /\ tracker' = r
  /\ total' = [total EXCEPT ![r] = 0]
  /\ per_ip' = [per_ip EXCEPT ![r] = [ip \in Ips |-> NoEntry]]
  /\ UNCHANGED <<cur, st, guard>>

-----------------------------------------------------------------------------
(* A connection task that ends. *)

\* release: the atomic counter goes down first.
Drop(c) ==
  /\ st[c] = "open"
  /\ total' = [total EXCEPT ![guard[c].tracker] = @ - 1]
  /\ st' = [st EXCEPT ![c] = "ended"]
  /\ UNCHANGED <<lis, tracker, cur, per_ip, guard>>

\* Mutant of Decrement: the entry of a peer with connections left is kept as is.
DecrementLast(c) ==
  /\ st[c] = "ended"
  /\ ~Locked(guard[c].tracker, guard[c].ip)
  /\ IF Count(guard[c].tracker, guard[c].ip) > 1
       THEN st' = [st EXCEPT ![c] = "free"]
       ELSE st' = [st EXCEPT ![c] = "removing"]
  /\ UNCHANGED <<lis, tracker, cur, total, per_ip, guard>>

\* get_mut, saturating_sub(1), and `drop(count)`; an entry that is gone is left
\* alone, one that reaches 0 is to be removed.
Decrement(c) ==
  LET r  == guard[c].tracker
      ip == guard[c].ip
      n  == IF Count(r, ip) = 0 THEN 0 ELSE Count(r, ip) - 1
  IN  /\ st[c] = "ended"
      /\ ~Locked(r, ip)
      /\ IF per_ip[r][ip] = NoEntry
           THEN st' = [st EXCEPT ![c] = "free"] /\ UNCHANGED per_ip
           ELSE /\ st' = [st EXCEPT ![c] = IF n = 0 THEN "removing" ELSE "free"]
                /\ SetEntry(r, ip, n)
      /\ UNCHANGED <<lis, tracker, cur, total, guard>>

\* Mutant of Remove: the entry's guard is not dropped before remove locks it.
RemoveSelfLocked(c) ==
  /\ st[c] = "removing"
  /\ FALSE
  /\ UNCHANGED vars

\* per_ip.remove, whatever the entry holds by now.
Remove(c) ==
  /\ st[c] = "removing"
  /\ ~Locked(guard[c].tracker, guard[c].ip)
  /\ SetEntry(guard[c].tracker, guard[c].ip, NoEntry)
  /\ st' = [st EXCEPT ![c] = "free"]
  /\ UNCHANGED <<lis, tracker, cur, total, guard>>

Listener == Admit \/ Overshoot \/ Undo

Release(c) == Decrement(c) \/ Remove(c)

Next ==
  \/ \E c \in Conns, ip \in Ips : Begin(c, ip)
  \/ Listener
  \/ AcceptError
  \/ \E r \in Trackers : Rebind(r)
  \/ \E c \in Conns : Drop(c) \/ Release(c)

Spec == Init /\ [][Next]_vars

\* There is no await inside acquire and release, so they are never suspended.
\* acquire holds an entry's lock for a few instructions and the accept loop then
\* waits for a peer, so a release that waits for the lock gets it in the end.
FairSpec == Spec /\ WF_vars(Listener) /\ \A c \in Conns : SF_vars(Release(c))

-----------------------------------------------------------------------------
(* Properties. *)

Open(r) == {c \in Conns : st[c] = "open" /\ guard[c].tracker = r}

\* Guards of ip that have not yet been counted down in its entry.
Held(r, ip) == {c \in Conns : /\ st[c] \in {"open", "ended"}
                              /\ guard[c] = [tracker |-> r, ip |-> ip]}

Overshot(r) == IF lis = "undo" /\ tracker = r THEN 1 ELSE 0

\* security.rs, total: whatever acquire and release interleave, the counter is
\* the number of guards held, and one more while a refusal is being undone; so
\* fetch_sub never wraps and a refusal means that the server was full.
TotalIsExact == \A r \in Trackers : total[r] = Cardinality(Open(r)) + Overshot(r)

\* One tracker never has more than max_total connections open.
TotalBound == \A r \in Trackers : Cardinality(Open(r)) <= MaxTotal

\* security.rs, per_ip: an entry never counts more than the guards its peer
\* holds, so a peer below its limit is not refused for it.
NeverOvercounted ==
  \A r \in Trackers, ip \in Ips : Count(r, ip) <= Cardinality(Held(r, ip))

\* security.rs, acquire: whatever releases run beside it, and whatever refusals came
\* before, a connection is refused for the server only at a moment when max_total
\* others are open.
RefusedWhenFull == [][Overshoot => Cardinality(Open(tracker)) = MaxTotal]_vars

\* A peer never has more connections than its limit on one tracker.
PerIpBound ==
  \A r \in Trackers, ip \in Ips :
    Cardinality({c \in Open(r) : guard[c].ip = ip}) <= MaxPerIp

\* A dropped guard is accounted for in the end: release cannot deadlock.
GuardsReturn == \A c \in Conns : st[c] = "ended" ~> st[c] = "free"
=============================================================================
