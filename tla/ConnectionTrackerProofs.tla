---------------------- MODULE ConnectionTrackerProofs -----------------------
(***************************************************************************)
(* The counters of ConnectionTracker for any number of peers, connections, *)
(* trackers and any limits.                                                *)
(***************************************************************************)
EXTENDS ConnectionTracker, FiniteSetTheorems, TLAPS

\* The sets that the counters count are finite.
LEMMA OpenIsFinite ==
  \A r \in Trackers : IsFiniteSet(Open(r)) /\ Cardinality(Open(r)) \in Nat
BY TrackerAssumption, FS_Subset, FS_CardinalityType DEF Open

\* The guards of a peer are finite in number, before and after a step.
LEMMA HeldIsFinite ==
  \A r \in Trackers, ip \in Ips :
    IsFiniteSet(Held(r, ip)) /\ Cardinality(Held(r, ip)) \in Nat
BY TrackerAssumption, FS_Subset, FS_CardinalityType DEF Held

-----------------------------------------------------------------------------
(* The atomic counter. *)

\* The counter is exact, so `fetch_add < max_total` is a test of the guards.
TotalInv == TypeOK /\ TotalIsExact

\* A server that has just started has no connection to count.
LEMMA InitTotalInv == Init => TotalInv
<1> SUFFICES ASSUME Init
             PROVE  TotalInv
  OBVIOUS
<1>1. TypeOK
  BY DEF Init, TypeOK, NoEntry, Stage
<1>2. \A r \in Trackers : Open(r) = {}
  BY DEF Init, Open
<1>3. TotalIsExact
  BY <1>2, FS_EmptySet DEF Init, TotalIsExact, Overshot
<1> QED
  BY <1>1, <1>3 DEF TotalInv

\* acquire, release and the listener's restarts keep the state well-typed; the
\* exact counter is what keeps fetch_sub above zero.
LEMMA TypeStep == TotalInv /\ [Next]_vars => TypeOK'
<1> SUFFICES ASSUME TotalInv, [Next]_vars
             PROVE  TypeOK'
  OBVIOUS
<1> USE TrackerAssumption DEF TotalInv, TypeOK, NoEntry, Stage, Peer
<1>1. ASSUME NEW c \in Conns, NEW ip \in Ips, Begin(c, ip)
      PROVE  TypeOK'
  BY <1>1 DEF Begin, SetEntry, Count
<1>2. CASE Admit
  BY <1>2 DEF Admit, SetEntry, Count
<1>3. CASE Overshoot
  BY <1>3 DEF Overshoot
<1>4. CASE Undo
  <2>1. total[tracker] \in Nat \ {0}
    BY <1>4, OpenIsFinite DEF Undo, TotalIsExact, Overshot
  <2>2. total' \in [Trackers -> Nat]
    <3>1. total[tracker] - 1 \in Nat
      BY <2>1
    <3> QED
      BY <1>4, <3>1 DEF Undo
  <2> QED
    BY <1>4, <2>2 DEF Undo
<1>5. CASE AcceptError
  BY <1>5 DEF AcceptError
<1>6. ASSUME NEW r \in Trackers, Rebind(r)
      PROVE  TypeOK'
  BY <1>6 DEF Rebind
<1>7. ASSUME NEW c \in Conns, Drop(c)
      PROVE  TypeOK'
  <2> DEFINE r == guard[c].tracker
  <2>1. c \in Open(r) /\ r \in Trackers
    BY <1>7 DEF Drop, Open
  <2>2. Cardinality(Open(r)) # 0
    BY <2>1, OpenIsFinite, FS_EmptySet
  <2>3. total[r] \in Nat \ {0}
    BY <2>1, <2>2, OpenIsFinite DEF TotalIsExact, Overshot
  <2>4. total' \in [Trackers -> Nat]
    <3>1. total[r] - 1 \in Nat
      BY <2>3
    <3> QED
      BY <1>7, <2>1, <3>1 DEF Drop
  <2> QED
    BY <1>7, <2>4 DEF Drop
<1>8. ASSUME NEW c \in Conns, Decrement(c)
      PROVE  TypeOK'
  <2>1. PICK r \in Trackers, ip \in Ips : r = guard[c].tracker /\ ip = guard[c].ip
    OBVIOUS
  <2>2. per_ip[r][ip] \in Nat \cup {-1}
    OBVIOUS
  <2>3. per_ip' \in [Trackers -> [Ips -> Nat \cup {-1}]]
    <3>1. CASE per_ip[r][ip] = -1
      BY <1>8, <2>1, <3>1 DEF Decrement
    <3>2. CASE per_ip[r][ip] # -1
      <4> DEFINE n == IF Count(r, ip) = 0 THEN 0 ELSE Count(r, ip) - 1
      <4>1. n \in Nat
        BY <2>2 DEF Count
      <4>2. per_ip' = [per_ip EXCEPT ![r][ip] = n]
        BY <1>8, <2>1, <3>2 DEF Decrement, SetEntry
      <4> HIDE DEF n
      <4> QED
        BY <4>1, <4>2
    <3> QED
      BY <3>1, <3>2
  <2> QED
    BY <1>8, <2>3 DEF Decrement
<1>9. ASSUME NEW c \in Conns, Remove(c)
      PROVE  TypeOK'
  BY <1>9 DEF Remove, SetEntry
<1>10. CASE UNCHANGED vars
  BY <1>10 DEF vars
<1> QED
  BY <1>1, <1>2, <1>3, <1>4, <1>5, <1>6, <1>7, <1>8, <1>9, <1>10
     DEF Next, Listener, Release

\* Steps that open and drop no guard leave the counted sets alone.
LEMMA OpenUnchanged ==
  ASSUME TypeOK, UNCHANGED guard, st' \in [Conns -> Stage],
         \A c \in Conns : (st'[c] = "open") <=> (st[c] = "open")
  PROVE  \A r : Open(r)' = Open(r)
BY DEF Open

\* While acquire works on a connection, that connection has no guard.
CurIsFree == lis = "locked" => st[cur.conn] = "free"

\* The accept loop handles one connection at a time.
LEMMA CurStep == TypeOK /\ CurIsFree /\ [Next]_vars => CurIsFree'
<1> SUFFICES ASSUME TypeOK, CurIsFree, [Next]_vars
             PROVE  CurIsFree'
  OBVIOUS
<1> USE DEF TypeOK, CurIsFree, Stage
<1>1. ASSUME NEW c \in Conns, NEW ip \in Ips, Begin(c, ip)
      PROVE  CurIsFree'
  BY <1>1 DEF Begin
<1>2. CASE Listener \/ AcceptError \/ UNCHANGED vars
  BY <1>2 DEF Listener, Admit, Overshoot, Undo, AcceptError, vars
<1>3. ASSUME NEW r \in Trackers, Rebind(r)
      PROVE  CurIsFree'
  BY <1>3 DEF Rebind
<1>4. ASSUME NEW c \in Conns, Drop(c) \/ Release(c)
      PROVE  CurIsFree'
  BY <1>4 DEF Drop, Release, Decrement, Remove
<1> QED
  BY <1>1, <1>2, <1>3, <1>4 DEF Next

\* The counter follows every guard that is opened or dropped, and every refusal
\* that is undone.
LEMMA TotalStep ==
  TotalInv /\ CurIsFree /\ [Next]_vars => TotalIsExact'
<1> SUFFICES ASSUME TotalInv, CurIsFree, [Next]_vars
             PROVE  TotalIsExact'
  OBVIOUS
<1>0. TypeOK'
  BY TypeStep
<1> USE DEF TotalInv, TypeOK
<1>1. ASSUME NEW c \in Conns, NEW ip \in Ips, Begin(c, ip)
      PROVE  TotalIsExact'
  <2>1. \A r : Open(r)' = Open(r)
    BY <1>1 DEF Begin, Open
  <2> QED
    BY <1>1, <2>1 DEF Begin, TotalIsExact, Overshot
<1>2. CASE Admit
  <2>1. cur.conn \in Conns /\ cur.conn \notin Open(tracker)
    BY <1>2 DEF Admit, CurIsFree, Open
  <2>2. Open(tracker)' = Open(tracker) \cup {cur.conn}
    BY <1>2, <2>1 DEF Admit, Open
  <2>3. \A r \in Trackers \ {tracker} : Open(r)' = Open(r)
    BY <1>2, <2>1 DEF Admit, Open, CurIsFree
  <2>4. Cardinality(Open(tracker)') = Cardinality(Open(tracker)) + 1
    BY <2>1, <2>2, OpenIsFinite, FS_AddElement
  <2> QED
    BY <1>2, <2>3, <2>4, OpenIsFinite DEF Admit, TotalIsExact, Overshot
<1>3. CASE Overshoot
  <2>1. \A r : Open(r)' = Open(r)
    BY <1>3 DEF Overshoot, Open
  <2> QED
    BY <1>3, <2>1, OpenIsFinite DEF Overshoot, TotalIsExact, Overshot
<1>4. CASE Undo
  <2>1. \A r : Open(r)' = Open(r)
    BY <1>4 DEF Undo, Open
  <2> QED
    BY <1>4, <2>1, OpenIsFinite DEF Undo, TotalIsExact, Overshot
<1>5. CASE AcceptError
  <2>1. \A r : Open(r)' = Open(r)
    BY <1>5 DEF AcceptError, Open
  <2> QED
    BY <1>5, <2>1 DEF AcceptError, TotalIsExact, Overshot
<1>6. ASSUME NEW r \in Trackers, Rebind(r)
      PROVE  TotalIsExact'
  <2>1. \A q : Open(q)' = Open(q)
    BY <1>6 DEF Rebind, Open
  <2>2. Open(r) = {}
    BY <1>6 DEF Rebind, Unreferenced, Open
  <2>3. Cardinality(Open(r)) = 0
    BY <2>2, FS_EmptySet
  <2>4. \A q \in Trackers : total'[q] = Cardinality(Open(q)) /\ lis' = "accepting"
    BY <1>6, <2>3, OpenIsFinite DEF Rebind, TotalIsExact, Overshot
  <2> QED
    BY <2>1, <2>4, OpenIsFinite DEF TotalIsExact, Overshot
<1>7. ASSUME NEW c \in Conns, Drop(c)
      PROVE  TotalIsExact'
  <2>0. PICK r \in Trackers : r = guard[c].tracker
    BY DEF Peer
  <2>1. c \in Open(r)
    BY <1>7, <2>0 DEF Drop, Open
  <2>2. Open(r)' = Open(r) \ {c}
    BY <1>7, <2>0 DEF Drop, Open
  <2>3. \A q \in Trackers \ {r} : Open(q)' = Open(q)
    BY <1>7, <2>0 DEF Drop, Open
  <2>4. Cardinality(Open(r)') = Cardinality(Open(r)) - 1
    BY <2>1, <2>2, OpenIsFinite, FS_RemoveElement
  <2> QED
    BY <1>7, <2>0, <2>1, <2>3, <2>4, OpenIsFinite DEF Drop, TotalIsExact, Overshot
<1>8. ASSUME NEW c \in Conns, Release(c)
      PROVE  TotalIsExact'
  <2>1. \A r : Open(r)' = Open(r)
    BY <1>0, <1>8, OpenUnchanged DEF Release, Decrement, Remove
  <2> QED
    BY <1>8, <2>1 DEF Release, Decrement, Remove, TotalIsExact, Overshot
<1>9. CASE UNCHANGED vars
  <2>1. \A r : Open(r)' = Open(r)
    BY <1>9 DEF vars, Open
  <2> QED
    BY <1>9, <2>1 DEF vars, TotalIsExact, Overshot
<1> QED
  BY <1>1, <1>2, <1>3, <1>4, <1>5, <1>6, <1>7, <1>8, <1>9 DEF Next, Listener

\* Both parts of the argument hold in every reachable state.
LEMMA AlwaysTotalInv == Spec => [](TotalInv /\ CurIsFree)
<1>1. Init => CurIsFree
  BY DEF Init, CurIsFree
<1>2. TotalInv /\ CurIsFree /\ [Next]_vars => (TotalInv /\ CurIsFree)'
  BY TypeStep, TotalStep, CurStep DEF TotalInv
<1> QED
  BY InitTotalInv, <1>1, <1>2, PTL DEF Spec

\* The tracker's state is always well-typed: no counter wraps below zero.
THEOREM TypeCorrect == Spec => []TypeOK
<1>1. TotalInv => TypeOK
  BY DEF TotalInv
<1> QED
  BY AlwaysTotalInv, <1>1, PTL

\* The atomic counter always equals the guards held, plus a refusal in progress.
THEOREM CounterIsExact == Spec => []TotalIsExact
<1>1. TotalInv => TotalIsExact
  BY DEF TotalInv
<1> QED
  BY AlwaysTotalInv, <1>1, PTL

\* Only Admit opens a guard, and it does so when the exact counter is below the
\* limit; every other step leaves the guards of a tracker or drops some.
LEMMA BoundStep ==
  TotalInv /\ CurIsFree /\ TotalBound /\ [Next]_vars => TotalBound'
<1> SUFFICES ASSUME TotalInv, CurIsFree, TotalBound, [Next]_vars,
                    NEW r \in Trackers
             PROVE  Cardinality(Open(r)') <= MaxTotal
  BY DEF TotalBound
<1> USE DEF TotalInv, TypeOK
<1>1. CASE Admit /\ r = tracker
  <2>1. cur.conn \in Conns /\ cur.conn \notin Open(tracker)
    BY <1>1 DEF Admit, CurIsFree, Open
  <2>2. Open(tracker)' = Open(tracker) \cup {cur.conn}
    BY <1>1, <2>1 DEF Admit, Open
  <2>3. Cardinality(Open(tracker)') = Cardinality(Open(tracker)) + 1
    BY <2>1, <2>2, OpenIsFinite, FS_AddElement
  <2>4. Cardinality(Open(tracker)) < MaxTotal
    BY <1>1, OpenIsFinite DEF Admit, TotalIsExact, Overshot
  <2>5. Open(r)' = Open(tracker)'
    BY <1>1 DEF Admit, Open
  <2> QED
    BY <2>3, <2>4, <2>5, OpenIsFinite, TrackerAssumption
<1>2. CASE Open(r)' \subseteq Open(r)
  <2>1. Cardinality(Open(r)') <= Cardinality(Open(r))
    BY <1>2, OpenIsFinite, FS_Subset
  <2>2. IsFiniteSet(Open(r)') /\ Cardinality(Open(r)') \in Nat
    BY <1>2, OpenIsFinite, FS_Subset, FS_CardinalityType
  <2> QED
    BY <2>1, <2>2, OpenIsFinite, TrackerAssumption DEF TotalBound
<1>3. (Admit /\ r = tracker) \/ Open(r)' \subseteq Open(r)
  <2>1. CASE Admit
    BY <2>1 DEF Admit, Open, CurIsFree
  <2>2. CASE Overshoot \/ Undo \/ AcceptError \/ UNCHANGED vars
    BY <2>2 DEF Overshoot, Undo, AcceptError, vars, Open
  <2>3. CASE \E c \in Conns, ip \in Ips : Begin(c, ip)
    BY <2>3 DEF Begin, Open
  <2>4. CASE \E q \in Trackers : Rebind(q)
    BY <2>4 DEF Rebind, Open
  <2>5. ASSUME NEW c \in Conns, Drop(c) \/ Decrement(c) \/ Remove(c)
        PROVE  Open(r)' \subseteq Open(r)
    BY <2>5 DEF Drop, Decrement, Remove, Open
  <2> QED
    BY <2>1, <2>2, <2>3, <2>4, <2>5 DEF Next, Listener, Release
<1> QED
  BY <1>1, <1>2, <1>3

\* One tracker never hands out more guards than the limit of the server.
THEOREM ServerLimitPerTracker == Spec => []TotalBound
<1>1. Init => TotalBound
  <2> SUFFICES ASSUME Init, NEW r \in Trackers
               PROVE  Cardinality(Open(r)) <= MaxTotal
    BY DEF TotalBound
  <2>1. Open(r) = {}
    BY DEF Init, Open
  <2> QED
    BY <2>1, FS_EmptySet, TrackerAssumption
<1>2. TotalInv /\ CurIsFree /\ TotalBound /\ [Next]_vars => TotalBound'
  BY BoundStep
<1> QED
  BY AlwaysTotalInv, <1>1, <1>2, PTL DEF Spec

-----------------------------------------------------------------------------
(* The entries of the map. *)

\* An entry is raised with a guard of its peer and lowered, or forgotten, before
\* that guard is gone.
LEMMA EntryStep ==
  TotalInv /\ CurIsFree /\ NeverOvercounted /\ [Next]_vars => NeverOvercounted'
<1> SUFFICES ASSUME TotalInv, CurIsFree, NeverOvercounted, [Next]_vars,
                    NEW r \in Trackers, NEW ip \in Ips
             PROVE  Count(r, ip)' <= Cardinality(Held(r, ip)')
  BY DEF NeverOvercounted
<1> USE DEF TotalInv, TypeOK, NoEntry
<1>0. /\ Count(r, ip) \in Nat
      /\ Count(r, ip) <= Cardinality(Held(r, ip))
      /\ IsFiniteSet(Held(r, ip))
      /\ Cardinality(Held(r, ip)) \in Nat
  BY HeldIsFinite DEF Count, NeverOvercounted
<1>1. CASE Count(r, ip)' = Count(r, ip) /\ Held(r, ip)' = Held(r, ip)
  BY <1>0, <1>1
<1>2. CASE Count(r, ip)' = 0 /\ Held(r, ip)' = Held(r, ip)
  BY <1>0, <1>2
<1>3. ASSUME NEW c \in Conns, NEW peer \in Ips, Begin(c, peer)
      PROVE  Count(r, ip)' = Count(r, ip) /\ Held(r, ip)' = Held(r, ip)
  <2>1. Held(r, ip)' = Held(r, ip)
    BY <1>3 DEF Begin, Held
  <2>2. Count(tracker, peer) \in Nat
    BY DEF Count
  <2>3. Count(r, ip)' = Count(r, ip)
    BY <1>3, <2>2 DEF Begin, SetEntry, Count
  <2> QED
    BY <2>1, <2>3
<1>4. CASE Admit
  <2>1. CASE r = tracker /\ ip = cur.ip
    <3>1. cur.conn \in Conns /\ cur.conn \notin Held(r, ip)
      BY <1>4 DEF Admit, CurIsFree, Held
    <3>2. Held(r, ip)' = Held(r, ip) \cup {cur.conn}
      BY <1>4, <2>1, <3>1 DEF Admit, Held, Stage
    <3>3. Cardinality(Held(r, ip)') = Cardinality(Held(r, ip)) + 1
      BY <1>0, <3>1, <3>2, FS_AddElement
    <3>4. per_ip' = [per_ip EXCEPT ![r][ip] = Count(r, ip) + 1]
      BY <1>4, <2>1 DEF Admit, SetEntry
    <3>5. Count(r, ip)' = Count(r, ip) + 1
      BY <1>0, <3>4 DEF Count
    <3> QED
      BY <1>0, <3>3, <3>5
  <2>2. CASE ~(r = tracker /\ ip = cur.ip)
    <3>1. Held(r, ip)' = Held(r, ip)
      BY <1>4, <2>2 DEF Admit, Held, CurIsFree, Stage
    <3>2. Count(r, ip)' = Count(r, ip)
      BY <1>4, <2>2 DEF Admit, SetEntry, Count
    <3> QED
      BY <1>1, <3>1, <3>2
  <2> QED
    BY <2>1, <2>2
<1>5. CASE Overshoot \/ Undo \/ AcceptError \/ UNCHANGED vars
  BY <1>1, <1>5 DEF Overshoot, Undo, AcceptError, vars, Held, Count
<1>6. ASSUME NEW q \in Trackers, Rebind(q)
      PROVE  Count(r, ip)' \in {0, Count(r, ip)} /\ Held(r, ip)' = Held(r, ip)
  BY <1>6 DEF Rebind, Held, Count
<1>7. ASSUME NEW c \in Conns, Drop(c)
      PROVE  Count(r, ip)' = Count(r, ip) /\ Held(r, ip)' = Held(r, ip)
  BY <1>7 DEF Drop, Held, Count, Stage
<1>8. ASSUME NEW c \in Conns, Decrement(c)
      PROVE  Count(r, ip)' <= Cardinality(Held(r, ip)')
  <2>1. CASE guard[c] = [tracker |-> r, ip |-> ip]
    <3>1. c \in Held(r, ip)
      BY <1>8, <2>1 DEF Decrement, Held
    <3>2. Held(r, ip)' = Held(r, ip) \ {c}
      BY <1>8, <2>1 DEF Decrement, Held, Stage
    <3>3. Cardinality(Held(r, ip)') = Cardinality(Held(r, ip)) - 1
      BY <1>0, <3>1, <3>2, FS_RemoveElement
    <3>4. Cardinality(Held(r, ip)) # 0
      BY <1>0, <3>1, FS_EmptySet
    <3>5. CASE per_ip[r][ip] = NoEntry
      <4>1. Count(r, ip)' = 0
        BY <1>8, <2>1, <3>5 DEF Decrement, Count
      <4> QED
        BY <1>0, <3>3, <3>4, <4>1
    <3>6. CASE per_ip[r][ip] # NoEntry
      <4> DEFINE n == IF Count(r, ip) = 0 THEN 0 ELSE Count(r, ip) - 1
      <4>1. n \in Nat /\ n <= Cardinality(Held(r, ip)) - 1
        BY <1>0, <3>4
      <4>2. per_ip' = [per_ip EXCEPT ![r][ip] = n]
        BY <1>8, <2>1, <3>6 DEF Decrement, SetEntry
      <4>3. per_ip'[r][ip] = n /\ n # -1
        BY <4>1, <4>2
      <4>4. Count(r, ip)' = n
        BY <4>3 DEF Count
      <4> QED
        BY <3>3, <4>1, <4>4
    <3> QED
      BY <3>5, <3>6
  <2>2. CASE guard[c] # [tracker |-> r, ip |-> ip]
    <3>1. Held(r, ip)' = Held(r, ip)
      BY <1>8, <2>2 DEF Decrement, Held
    <3>2. ~(guard[c].tracker = r /\ guard[c].ip = ip)
      BY <2>2 DEF Peer
    <3>3. per_ip'[r][ip] = per_ip[r][ip]
      BY <1>8, <3>2 DEF Decrement, SetEntry, Peer
    <3>4. Count(r, ip)' = Count(r, ip)
      BY <3>3 DEF Count
    <3> QED
      BY <1>1, <3>1, <3>4
  <2> QED
    BY <2>1, <2>2
<1>9. ASSUME NEW c \in Conns, Remove(c)
      PROVE  Count(r, ip)' \in {0, Count(r, ip)} /\ Held(r, ip)' = Held(r, ip)
  <2>1. Held(r, ip)' = Held(r, ip)
    BY <1>9 DEF Remove, Held, Stage
  <2>2. Count(r, ip)' \in {0, Count(r, ip)}
    BY <1>9 DEF Remove, SetEntry, Count, Peer
  <2> QED
    BY <2>1, <2>2
<1> QED
  BY <1>1, <1>2, <1>3, <1>4, <1>5, <1>6, <1>7, <1>8, <1>9
     DEF Next, Listener, Release

\* An entry never counts more than the guards of its peer: the per-peer limit
\* refuses no one who is below it.
THEOREM PeersAreNotOvercounted == Spec => []NeverOvercounted
<1>1. Init => NeverOvercounted
  <2> SUFFICES ASSUME Init, NEW r \in Trackers, NEW ip \in Ips
               PROVE  Count(r, ip) <= Cardinality(Held(r, ip))
    BY DEF NeverOvercounted
  <2>1. Held(r, ip) = {} /\ Count(r, ip) = 0
    BY DEF Init, Held, Count, NoEntry
  <2> QED
    BY <2>1, FS_EmptySet
<1>2. TotalInv /\ CurIsFree /\ NeverOvercounted /\ [Next]_vars => NeverOvercounted'
  BY EntryStep
<1> QED
  BY AlwaysTotalInv, <1>1, <1>2, PTL DEF Spec

\* acquire refuses nobody for the server's limit unless it is reached: the counter it
\* decides by is never above what is really open.
THEOREM RefusalsNeedAFullServer == Spec => RefusedWhenFull
<1> DEFINE Just == Overshoot => Cardinality(Open(tracker)) = MaxTotal
<1>1. TotalInv /\ TotalBound => Just
  <2> SUFFICES ASSUME TotalInv, TotalBound, Overshoot
               PROVE  Cardinality(Open(tracker)) = MaxTotal
    OBVIOUS
  <2>1. tracker \in Trackers
    BY DEF TotalInv, TypeOK
  <2>2. Cardinality(Open(tracker)) \in Nat
    BY <2>1, OpenIsFinite
  <2>3. Overshot(tracker) = 0 /\ total[tracker] >= MaxTotal
    BY DEF Overshoot, Overshot
  <2>4. total[tracker] = Cardinality(Open(tracker)) + Overshot(tracker)
    BY <2>1 DEF TotalInv, TotalIsExact
  <2>5. Cardinality(Open(tracker)) <= MaxTotal
    BY <2>1 DEF TotalBound
  <2> QED
    BY <2>2, <2>3, <2>4, <2>5, TrackerAssumption
<1>2. TotalInv /\ TotalBound => [Just]_vars
  BY <1>1
<1> HIDE DEF Just
<1>3. Spec => [][Just]_vars
  BY AlwaysTotalInv, ServerLimitPerTracker, <1>2, PTL DEF Spec
<1> QED
  BY <1>3 DEF RefusedWhenFull, Just
=============================================================================
