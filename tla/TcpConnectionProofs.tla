------------------------ MODULE TcpConnectionProofs -------------------------
(***************************************************************************)
(* Proofs about TcpConnection for every stream, size and limit.  The        *)
(* invariant says that the buffer begins where a unit does, that the frame  *)
(* in hand is a unit as it was sent, and that every frame before it was     *)
(* answered on this connection or an earlier one.                           *)
(***************************************************************************)
EXTENDS TcpConnection, TLAPS

Bounds == stream.units \cup {stream.size}

InHand == phase \in {"process", "write"}

Aligned ==
  Clean => /\ pos \in Bounds
           /\ InHand => /\ frame.at \in Frames
                        /\ frame = Sent(frame.at)
                        /\ pos = UnitEnd(stream, frame.at)

\* What comes before this position was answered.
Cursor == IF InHand THEN frame.at ELSE pos

Answers ==
  Clean =>
    /\ \A p \in got, q \in Frames : q < p => q \in got
    /\ \A p \in wire, q \in Frames : q < p => q \in got \cup wire
    /\ phase # "closed" => \A q \in Frames : q < Cursor => q \in got \cup wire

IInv ==
  /\ TypeOK /\ Aligned /\ FramesAsSent /\ Answers
  /\ NoFrameWaits /\ BufferBounded

USE ConnectionAssumption DEF guards

-----------------------------------------------------------------------------
(* The units of a stream. *)

\* What WellFormed says of the stream at hand.
LEMMA StreamIs ==
  ASSUME stream \in Streams
  PROVE  /\ stream.size \in Nat
         /\ stream.head \in [0..(stream.size - 1) -> Nat \cup {NoHeader}]
         /\ stream.units \subseteq 0..(stream.size - 1)
         /\ stream.fixed \subseteq stream.units /\ stream.eager \in BOOLEAN
         /\ stream.limit \in Nat
         /\ \A p \in stream.units :
              /\ p \in stream.fixed \/ stream.head[p] # NoHeader
              /\ UnitEnd(stream, p) \in Bounds
              /\ \A q \in stream.units : q > p => q >= UnitEnd(stream, p)
         /\ stream.size > 0 => 0 \in stream.units
<1>1. WellFormed(stream)
  OBVIOUS
<1> QED
  BY <1>1 DEF WellFormed, Bounds

\* A unit is as long as a header at least, and ends inside the stream.
LEMMA UnitIs ==
  ASSUME stream \in Streams, NEW p \in stream.units
  PROVE  /\ p \in Nat /\ p < stream.size
         /\ UnitEnd(stream, p) \in Nat
         /\ UnitEnd(stream, p) >= p + HeaderLen
         /\ UnitEnd(stream, p) <= stream.size
<1>1. p \in 0..(stream.size - 1) /\ stream.size \in Nat
  BY StreamIs
<1>2. stream.head[p] \in Nat \cup {NoHeader}
  BY <1>1, StreamIs
<1>3. p \in stream.fixed \/ stream.head[p] # NoHeader
  BY StreamIs
<1>4. UnitEnd(stream, p) \in Nat /\ UnitEnd(stream, p) >= p + HeaderLen
  BY <1>1, <1>2, <1>3 DEF UnitEnd, NoHeader
<1>5. UnitEnd(stream, p) \in stream.units \cup {stream.size}
  BY StreamIs DEF Bounds
<1>6. stream.units \subseteq 0..(stream.size - 1)
  BY StreamIs
<1>7. UnitEnd(stream, p) <= stream.size
  BY <1>1, <1>4, <1>5, <1>6
<1> QED
  BY <1>1, <1>4, <1>7

\* The largest frame is at least a header.
LEMMA LargestIs ==
  ASSUME stream \in Streams
  PROVE  /\ stream.limit \in Nat /\ Largest \in Nat
         /\ Largest >= HeaderLen + stream.limit /\ Largest >= FixedSize
<1>1. stream.limit \in Nat
  BY StreamIs
<1> QED
  BY <1>1 DEF Largest

-----------------------------------------------------------------------------
(* extract_frame. *)

\* Whatever the bytes are: the buffer only gets shorter at its front, and if the
\* task then waits, what is left is less than the largest frame, or a header of 0 was
\* just taken off.
LEMMA ExtractShrinks ==
  ASSUME stream \in Streams, frame \in FrameType,
         NEW p \in Nat, NEW t \in Nat, p <= t, t <= stream.size,
         Extract(p, t)
  PROVE  /\ phase' \in {"read", "process"}
         /\ pos' \in Nat /\ p <= pos' /\ pos' <= t
         /\ frame' \in FrameType
         /\ phase' = "read" =>
              t - pos' < Largest \/ (pos' >= HeaderLen /\ stream.head[pos' - HeaderLen] = 0)
<1> DEFINE h    == stream.head[p]
           from == IF h = NoHeader THEN p ELSE p + HeaderLen
           size == IF h = NoHeader THEN FixedSize ELSE h
           to   == from + size
<1>1. CASE t - p < HeaderLen
  <2>1. None(p)
    BY <1>1 DEF Extract
  <2>2. t - p < Largest
    BY <1>1, LargestIs
  <2> QED
    BY <2>1, <2>2 DEF None
<1>2. CASE t - p >= HeaderLen
  <2>1. p \in 0..(stream.size - 1) /\ stream.size \in Nat
    BY <1>2, StreamIs
  <2>2. h \in Nat \cup {NoHeader}
    BY <2>1, StreamIs
  <2>3. from \in Nat /\ size \in Nat /\ to \in Nat /\ p <= from /\ from <= to
    BY <2>2 DEF NoHeader
  <2> HIDE DEF h
  <2>4. \/ h = 0 /\ None(p + HeaderLen)
        \/ h > 0 /\ h > stream.limit /\ None(t)
        \/ h > 0 /\ h <= stream.limit /\ t < to /\ None(p)
        \/ h = NoHeader /\ t < to /\ None(p)
        \/ h = NoHeader /\ FixedSize > stream.limit /\ t >= to /\ None(t)
        \/ h # 0 /\ size <= stream.limit /\ t >= to /\ Some(p, from, to)
    BY <1>2, <2>2, LargestIs DEF Extract, From, TooLarge, Complete, NoHeader, h
  <2>5. CASE h = 0 /\ None(p + HeaderLen)
    <3>1. pos' = p + HeaderLen /\ pos' - HeaderLen = p
      BY <2>5 DEF None
    <3> QED
      BY <1>2, <2>5, <3>1 DEF None, h
  <2>6. CASE None(t)
    BY <2>6, LargestIs DEF None
  <2>7. CASE (h <= stream.limit \/ h = NoHeader) /\ t < to /\ None(p)
    <3>1. t - p < Largest
      BY <2>2, <2>7, LargestIs DEF NoHeader
    <3> QED
      BY <2>7, <3>1 DEF None
  <2>8. CASE t >= to /\ Some(p, from, to)
    <3>1. phase' = "process" /\ pos' = to
      BY <2>8 DEF Some
    <3>2. frame' = [at |-> p, from |-> from, to |-> to]
      BY <2>8 DEF Some
    <3>3. frame' \in FrameType
      BY <2>3, <3>2 DEF FrameType
    <3> QED
      BY <2>3, <2>8, <3>1, <3>3
  <2> QED
    BY <2>4, <2>5, <2>6, <2>7, <2>8
<1> QED
  BY <1>1, <1>2

\* On a clean stream, from the beginning of a unit: the frame that comes out is that
\* unit as it was sent, and if none does, no frame was skipped, and none is complete
\* unless the unit is empty.
LEMMA ExtractAligned ==
  ASSUME stream \in Streams, Clean,
         NEW p \in Bounds, NEW t \in Nat, p <= t, t <= stream.size,
         Extract(p, t)
  PROVE  /\ pos' \in Bounds
         /\ phase' = "process" => /\ p \in Frames /\ frame' = Sent(p)
                                  /\ pos' = UnitEnd(stream, p)
         /\ phase' = "read" => \A q \in Frames : q < pos' => q < p
         /\ phase' = "read" =>
              \/ \A q \in Frames : q >= pos' => UnitEnd(stream, q) > t
              \/ \E z \in stream.units \ Frames : UnitEnd(stream, z) = pos'
<1> DEFINE h    == stream.head[p]
           from == IF h = NoHeader THEN p ELSE p + HeaderLen
           size == IF h = NoHeader THEN FixedSize ELSE h
           to   == from + size
<1>0. p \in Nat /\ stream.size \in Nat
  BY StreamIs DEF Bounds
<1>f. Frames \subseteq stream.units
  BY DEF Frames
<1>u. \A q \in stream.units : /\ q \in Nat /\ UnitEnd(stream, q) \in Nat
                              /\ UnitEnd(stream, q) >= q + HeaderLen
  BY UnitIs
<1>1. CASE t - p < HeaderLen
  <2>1. phase' = "read" /\ pos' = p
    BY <1>0, <1>1 DEF Extract, None
  <2>2. \A q \in Frames : q >= p => UnitEnd(stream, q) > t
    BY <1>0, <1>1, <1>f, <1>u
  <2> QED
    BY <2>1, <2>2
<1>2. CASE t - p >= HeaderLen
  <2>1. p \in stream.units
    BY <1>0, <1>2 DEF Bounds
  <2>2. /\ h \in Nat \cup {NoHeader}
        /\ p \in stream.fixed => h = NoHeader /\ FixedSize <= stream.limit
        /\ p \notin stream.fixed => h # NoHeader /\ h <= stream.limit
    <3>1. p \in 0..(stream.size - 1)
      BY <2>1, StreamIs
    <3>2. h \in Nat \cup {NoHeader}
      BY <3>1, StreamIs
    <3>3. p \in stream.fixed \/ h # NoHeader
      BY <2>1, StreamIs
    <3> QED
      BY <2>1, <3>2, <3>3 DEF Clean
  <2>3. to = UnitEnd(stream, p) /\ to \in Nat
    BY <1>0, <2>2 DEF UnitEnd, NoHeader
  <2>4. to \in Bounds /\ \A q \in stream.units : q > p => q >= to
    BY <2>1, <2>3, StreamIs
  <2>5. \A q \in stream.units : q < to => q <= p
    BY <1>0, <1>u, <2>3, <2>4
  <2>6. \/ h = 0 /\ None(p + HeaderLen)
        \/ h > 0 /\ h > stream.limit /\ None(t)
        \/ h > 0 /\ h <= stream.limit /\ t < to /\ None(p)
        \/ h = NoHeader /\ t < to /\ None(p)
        \/ h = NoHeader /\ FixedSize > stream.limit /\ t >= to /\ None(t)
        \/ h # 0 /\ size <= stream.limit /\ t >= to /\ Some(p, from, to)
    BY <1>0, <1>2, <2>2, LargestIs DEF Extract, From, TooLarge, Complete, NoHeader
  <2> HIDE DEF h
  <2>7. CASE h = 0 /\ None(p + HeaderLen)
    <3>1. p \notin stream.fixed /\ to = p + HeaderLen
      BY <1>0, <2>2, <2>7 DEF NoHeader
    <3>2. p \notin Frames
      BY <2>7, <3>1 DEF Frames, h
    <3>3. phase' = "read" /\ pos' = to
      BY <2>7, <3>1 DEF None
    <3>4. \E z \in stream.units \ Frames : UnitEnd(stream, z) = pos'
      BY <2>1, <2>3, <3>2, <3>3
    <3>5. \A q \in Frames : q < to => q < p
      BY <1>0, <1>f, <1>u, <2>5, <3>2
    <3> QED
      BY <2>4, <3>3, <3>4, <3>5
  <2>8. ~(h > 0 /\ h > stream.limit) /\ ~(h = NoHeader /\ FixedSize > stream.limit)
    BY <2>2, LargestIs DEF NoHeader
  <2>9. CASE t < to /\ None(p)
    <3>1. phase' = "read" /\ pos' = p
      BY <2>9 DEF None
    <3>2. \A q \in Frames : q >= p => UnitEnd(stream, q) > t
      <4>1. SUFFICES ASSUME NEW q \in Frames, q >= p PROVE UnitEnd(stream, q) > t
        OBVIOUS
      <4>2. CASE q = p
        BY <2>3, <2>9, <4>2
      <4>3. CASE q > p
        BY <1>f, <1>u, <2>3, <2>4, <2>9, <4>3
      <4> QED
        BY <1>0, <1>f, <1>u, <4>1, <4>2, <4>3
    <3> QED
      BY <3>1, <3>2
  <2>10. CASE h # 0 /\ t >= to /\ Some(p, from, to)
    <3>1. phase' = "process" /\ pos' = to
      BY <2>10 DEF Some
    <3>2. p \in Frames
      BY <2>1, <2>10 DEF Frames, h
    <3>3. from = IF p \in stream.fixed THEN p ELSE p + HeaderLen
      BY <2>2
    <3>4. frame' = [at |-> p, from |-> from, to |-> to]
      BY <2>10 DEF Some
    <3>5. frame' = Sent(p)
      BY <2>3, <3>3, <3>4 DEF Sent
    <3> QED
      BY <2>3, <2>4, <3>1, <3>2, <3>5
  <2> QED
    BY <2>6, <2>7, <2>8, <2>9, <2>10
<1> QED
  BY <1>0, <1>1, <1>2

-----------------------------------------------------------------------------
(* The invariant. *)

\* A connection that was just accepted has read nothing and owes no answer.
LEMMA InitIsGood == Init => IInv
<1> SUFFICES ASSUME Init PROVE IInv
  OBVIOUS
<1>1. TypeOK
  <2>1. stream.size \in Nat
    BY StreamIs DEF Init
  <2>2. [at |-> 0, from |-> 0, to |-> 0] \in FrameType
    BY DEF FrameType
  <2>3. /\ stream \in Streams /\ fin \in BOOLEAN
        /\ phase \in {"read", "process", "write", "closed"}
        /\ handled \subseteq FrameType /\ wire \subseteq Nat /\ got \subseteq Nat
    BY DEF Init
  <2>4. /\ pos = 0 /\ taken = 0 /\ arrived = 0 /\ losses = 0 /\ notifying = 0 /\ kept = 0
        /\ frame \in FrameType
    BY <2>2 DEF Init
  <2>5. /\ pos \in Nat /\ taken \in Nat /\ arrived \in Nat /\ losses \in Nat
        /\ notifying \in Nat /\ kept \in Nat
        /\ pos <= taken /\ taken <= arrived /\ arrived <= stream.size
    BY <2>1, <2>4
  <2> QED
    BY <2>3, <2>4, <2>5 DEF TypeOK
<1>2. Aligned /\ FramesAsSent /\ BufferBounded
  <2>1. stream.size = 0 \/ 0 \in stream.units
    BY StreamIs DEF Init
  <2>2. Largest \in Nat /\ Largest > 0
    BY LargestIs DEF Init
  <2> QED
    BY <2>1, <2>2 DEF Init, Aligned, InHand, FramesAsSent, BufferBounded, Bounds
<1>3. \A q \in Frames : q \in Nat /\ UnitEnd(stream, q) \in Nat
                        /\ UnitEnd(stream, q) >= q + HeaderLen
  BY UnitIs DEF Init, Frames
<1>4. Answers /\ NoFrameWaits
  BY <1>3 DEF Init, Answers, InHand, Cursor, NoFrameWaits, WholeFrame
<1> QED
  BY <1>1, <1>2, <1>4 DEF IInv

\* The stream does not change, and with it what is said about it.
LEMMA Rigid ==
  ASSUME UNCHANGED stream
  PROVE  /\ Clean' = Clean /\ Frames' = Frames
         /\ Bounds' = Bounds /\ \A p : Sent(p)' = Sent(p)
         /\ \A p : UnitEnd(stream, p)' = UnitEnd(stream, p)
BY DEF Clean, Frames, Bounds, Sent, UnitEnd

\* A step of the task that ends in extract_frame on its buffer, which may have grown.
LEMMA LoopGoesOn ==
  ASSUME IInv, UNCHANGED <<stream, handled, arrived, fin, got, losses, notifying, kept>>,
         phase \in {"read", "write"},
         taken' \in Nat, taken <= taken', taken' <= arrived,
         Extract(pos, taken'),
         wire' = IF phase = "write" THEN wire \cup {frame.at} ELSE wire
  PROVE  IInv'
<1>1. /\ TypeOK /\ Aligned /\ FramesAsSent /\ Answers /\ BufferBounded
      /\ stream \in Streams /\ stream.size \in Nat
  BY StreamIs DEF IInv, TypeOK
<1>2. pos \in Nat /\ taken \in Nat /\ arrived \in Nat /\ pos <= taken'
      /\ taken' <= stream.size /\ frame \in FrameType
  BY <1>1 DEF TypeOK
<1>3. /\ phase' \in {"read", "process"}
      /\ pos' \in Nat /\ pos <= pos' /\ pos' <= taken'
      /\ frame' \in FrameType
      /\ phase' = "read" =>
           \/ taken' - pos' < Largest
           \/ pos' >= HeaderLen /\ stream.head[pos' - HeaderLen] = 0
  BY <1>1, <1>2, ExtractShrinks
<1>4. Clean => /\ pos' \in Bounds
               /\ phase' = "process" => /\ pos \in Frames /\ frame' = Sent(pos)
                                        /\ pos' = UnitEnd(stream, pos)
               /\ phase' = "read" => \A q \in Frames : q < pos' => q < pos
               /\ phase' = "read" =>
                    \/ \A q \in Frames : q >= pos' => UnitEnd(stream, q) > taken'
                    \/ \E z \in stream.units \ Frames : UnitEnd(stream, z) = pos'
  BY <1>1, <1>2, ExtractAligned DEF Aligned
<1>5. TypeOK'
  <2>1. frame.at \in Nat
    BY <1>2 DEF FrameType
  <2> QED
    BY <1>1, <1>2, <1>3, <2>1 DEF TypeOK
<1>6. Aligned' /\ FramesAsSent'
  <2>1. pos \in Nat /\ Sent(pos).at = pos
    BY <1>2 DEF Sent
  <2> QED
    BY <1>1, <1>3, <1>4, <2>1, Rigid DEF Aligned, FramesAsSent, InHand
<1>7. Answers'
  <2> SUFFICES ASSUME Clean PROVE Answers'
    BY Rigid DEF Answers
  <2>1. \A q \in stream.units : q \in Nat
    BY <1>1, UnitIs
  <2>2. Frames \subseteq stream.units
    BY DEF Frames
  <2>3. \A q \in Frames : q < pos => q \in got \cup wire'
    <3>1. CASE phase = "read"
      BY <1>1, <3>1 DEF Answers, Cursor, InHand
    <3>2. CASE phase = "write"
      <4>1. frame.at \in Frames /\ pos = UnitEnd(stream, frame.at)
        BY <1>1, <3>2 DEF Aligned, InHand
      <4>2. \A q \in Frames : q < frame.at => q \in got \cup wire
        BY <1>1, <3>2 DEF Answers, Cursor, InHand
      <4>3. \A q \in stream.units : q > frame.at => q >= pos
        BY <1>1, <2>2, <4>1, StreamIs
      <4> QED
        BY <1>2, <2>1, <2>2, <3>2, <4>1, <4>2, <4>3
    <3> QED
      BY <3>1, <3>2
  <2>4. \A p \in wire', q \in Frames : q < p => q \in got \cup wire'
    <3>1. CASE phase = "read"
      BY <1>1, <3>1 DEF Answers
    <3>2. CASE phase = "write"
      BY <1>1, <3>2 DEF Answers, Cursor, InHand
    <3> QED
      BY <3>1, <3>2
  <2>5. \A q \in Frames : q < Cursor' => q \in got \cup wire'
    <3>1. CASE phase' = "read"
      BY <1>3, <1>4, <2>3, <3>1 DEF Cursor, InHand
    <3>2. CASE phase' = "process"
      <4>1. Cursor' = pos
        BY <1>4, <3>2 DEF Cursor, InHand, Sent
      <4> QED
        BY <2>3, <4>1
    <3> QED
      BY <1>3, <3>1, <3>2
  <2> QED
    BY <1>1, <2>4, <2>5, Rigid DEF Answers
<1>8. NoFrameWaits'
  <2>1. \A q \in Frames : q \in Nat /\ UnitEnd(stream, q) \in Nat
    BY <1>1, UnitIs DEF Frames
  <2>2. Clean /\ phase' = "read" =>
          \/ ~(\E q \in Frames : pos' <= q /\ UnitEnd(stream, q) <= taken')
          \/ \E z \in stream.units \ Frames : UnitEnd(stream, z) = pos'
    BY <1>2, <1>3, <1>4, <2>1
  <2>3. WholeFrame' => \E q \in Frames : pos' <= q /\ UnitEnd(stream, q) <= taken'
    BY DEF WholeFrame, Frames, UnitEnd
  <2>4. (\E z \in stream.units \ Frames : UnitEnd(stream, z) = pos') => BehindEmpty'
    BY DEF BehindEmpty, Frames, UnitEnd
  <2> SUFFICES ASSUME Clean', phase' = "read", WholeFrame'
               PROVE  BehindEmpty'
    BY DEF NoFrameWaits
  <2>5. Clean
    BY Rigid
  <2> QED
    BY <2>2, <2>3, <2>4, <2>5
<1>9. BufferBounded'
  <2>1. Largest' = Largest
    BY DEF Largest
  <2>2. Largest \in Nat
    BY <1>1, ConnectionAssumption DEF Largest, WellFormed
  <2> SUFFICES ASSUME phase' = "read", taken' - pos' >= Largest
               PROVE  pos' >= HeaderLen /\ stream.head[pos' - HeaderLen] = 0
    BY <2>1 DEF BufferBounded
  <2>3. taken' \in Nat /\ pos' \in Nat
    BY <1>3
  <2>4. \A a, b, c \in Nat : a - b >= c => ~(a - b < c)
    OBVIOUS
  <2> QED
    BY <1>3, <2>2, <2>3, <2>4
<1> QED
  BY <1>5, <1>6, <1>7, <1>8, <1>9 DEF IInv

\* The connection goes at once: only the first answers on the way may arrive.
LEMMA CutIsGood ==
  ASSUME IInv, Cut, UNCHANGED <<stream, arrived, taken, pos, frame, fin, got>>,
         losses' \in Nat, notifying' \in Nat, kept' \in Nat,
         handled' = handled \/ (InHand /\ handled' = handled \cup {frame})
  PROVE  IInv'
<1>1. /\ TypeOK /\ Aligned /\ FramesAsSent /\ Answers /\ BufferBounded
  BY DEF IInv
<1>2. phase' = "closed" /\ wire' \subseteq wire
      /\ \A p \in wire', q \in wire : q < p => q \in wire'
  BY DEF Cut
<1>3. TypeOK'
  BY <1>1, <1>2 DEF TypeOK
<1>4. Aligned' /\ FramesAsSent'
  BY <1>1, <1>2, Rigid DEF Aligned, FramesAsSent, InHand
<1>5. Answers'
  BY <1>1, <1>2, Rigid DEF Answers
<1>6. NoFrameWaits' /\ BufferBounded'
  BY <1>1, <1>2, Rigid DEF NoFrameWaits, BufferBounded, Largest
<1> QED
  BY <1>3, <1>4, <1>5, <1>6 DEF IInv

\* Steps that leave the buffer and the frame in hand alone.
LEMMA OutsideIsGood ==
  ASSUME IInv, UNCHANGED <<stream, phase, taken, pos, frame, handled>>,
         arrived' \in Nat, arrived <= arrived', arrived' <= stream.size,
         fin' \in BOOLEAN, losses' \in Nat, notifying' \in Nat, kept' \in Nat,
         wire' \subseteq Nat, got' \subseteq Nat,
         wire' \subseteq wire, got' \cup wire' = got \cup wire,
         Clean => \A p \in got', q \in Frames : q < p => q \in got'
  PROVE  IInv'
<1>1. /\ TypeOK /\ Aligned /\ FramesAsSent /\ Answers
      /\ NoFrameWaits /\ BufferBounded
  BY DEF IInv
<1>2. TypeOK'
  <2>1. stream.size \in Nat
    BY <1>1, StreamIs DEF TypeOK
  <2> QED
    BY <1>1, <2>1 DEF TypeOK
<1>3. Aligned' /\ FramesAsSent'
  BY <1>1, Rigid DEF Aligned, FramesAsSent, InHand
<1>4. Answers'
  BY <1>1, Rigid DEF Answers, Cursor, InHand
<1>5. NoFrameWaits' /\ BufferBounded'
  <2>1. WholeFrame' = WholeFrame
    BY DEF WholeFrame, Frames, UnitEnd
  <2>2. BehindEmpty' = BehindEmpty
    BY DEF BehindEmpty, Frames, UnitEnd
  <2> QED
    BY <1>1, <2>1, <2>2, Rigid DEF NoFrameWaits, BufferBounded, Largest
<1> QED
  BY <1>2, <1>3, <1>4, <1>5 DEF IInv

\* A new connection begins at a frame with everything before it answered.
LEMMA ReconnectIsGood ==
  ASSUME IInv, NEW p \in Frames, Reconnect(p)
  PROVE  IInv'
<1>1. TypeOK /\ FramesAsSent /\ Answers /\ stream \in Streams /\ stream.size \in Nat
  BY StreamIs DEF IInv, TypeOK
<1>2. p \in Nat /\ p < stream.size /\ p \in Bounds
  BY <1>1, UnitIs DEF Frames, Bounds
<1>3. /\ phase' = "read" /\ arrived' = p /\ taken' = p /\ pos' = p /\ fin' = FALSE
      /\ UNCHANGED <<stream, frame, handled, wire, got, losses, notifying, kept>>
      /\ wire = {} /\ \A q \in Frames : q < p => q \in got
  BY DEF Reconnect
<1>4. TypeOK'
  <2>1. fin' \in BOOLEAN
    BY <1>3
  <2> QED
    BY <1>1, <1>2, <1>3, <2>1 DEF TypeOK
<1>5. Aligned' /\ FramesAsSent'
  BY <1>1, <1>2, <1>3, Rigid DEF Aligned, FramesAsSent, InHand
<1>6. Answers'
  BY <1>1, <1>3, Rigid DEF Answers, Cursor, InHand
<1>7. NoFrameWaits'
  <2>1. \A q \in Frames : /\ q \in Nat /\ UnitEnd(stream, q) \in Nat
                          /\ UnitEnd(stream, q) >= q + HeaderLen
    BY <1>1, UnitIs DEF Frames
  <2>2. ~(\E q \in Frames : p <= q /\ UnitEnd(stream, q) <= p)
    BY <1>2, <2>1
  <2>3. WholeFrame' = (\E q \in Frames : p <= q /\ UnitEnd(stream, q) <= p)
    BY <1>3 DEF WholeFrame, Frames, UnitEnd
  <2> QED
    BY <2>2, <2>3 DEF NoFrameWaits
<1>8. BufferBounded'
  <2>1. Largest \in Nat /\ Largest > 0 /\ Largest' = Largest /\ taken' - pos' = 0
    BY <1>1, <1>2, <1>3, LargestIs DEF Largest
  <2> QED
    BY <2>1 DEF BufferBounded
<1> QED
  BY <1>4, <1>5, <1>6, <1>7, <1>8 DEF IInv

\* Every step of the connection and of its terminal keeps the invariant.
LEMMA StepIsGood == IInv /\ [Next]_vars => IInv'
<1> SUFFICES ASSUME IInv, [Next]_vars PROVE IInv'
  OBVIOUS
<1>1. TypeOK /\ Aligned /\ FramesAsSent /\ Answers /\ stream \in Streams
      /\ stream.size \in Nat
  BY StreamIs DEF IInv, TypeOK
<1>2. CASE Arrive
  <2>1. arrived' \in Nat /\ arrived <= arrived' /\ arrived' <= stream.size
    BY <1>1, <1>2 DEF Arrive, TypeOK
  <2> QED
    BY <1>1, <1>2, <2>1, OutsideIsGood DEF Arrive, TypeOK, Answers
<1>3. CASE Shutdown
  BY <1>1, <1>3, OutsideIsGood DEF Shutdown, TypeOK, Answers
<1>4. ASSUME NEW p \in wire, Collect(p) PROVE IInv'
  <2>1. /\ wire' = wire \ {p} /\ got' = got \cup {p} /\ \A q \in wire : p <= q
        /\ UNCHANGED <<stream, phase, arrived, taken, pos, frame, fin, handled, losses,
                     notifying, kept>>
    BY <1>4 DEF Collect
  <2>2. p \in Nat /\ wire \subseteq Nat /\ got \subseteq Nat
    BY <1>1 DEF TypeOK
  <2>3. ASSUME Clean PROVE \A r \in got', q \in Frames : q < r => q \in got'
    <3>1. \A q \in Frames : q < p => q \in got
      <4>1. SUFFICES ASSUME NEW q \in Frames, q < p PROVE q \in got
        OBVIOUS
      <4>2. q \in got \cup wire
        BY <1>1, <2>3, <4>1 DEF Answers
      <4>3. ASSUME q \in wire PROVE FALSE
        <5>1. p <= q /\ p \in Nat /\ q \in Nat
          BY <2>1, <2>2, <4>3
        <5>2. ~(q < p)
          BY <5>1
        <5> QED
          BY <4>1, <5>2
      <4> QED
        BY <4>2, <4>3
    <3> QED
      BY <1>1, <2>1, <2>3, <3>1 DEF Answers
  <2> QED
    BY <1>1, <2>1, <2>2, <2>3, OutsideIsGood DEF TypeOK
<1>5. ASSUME NEW p \in Frames, Reconnect(p) PROVE IInv'
  BY <1>5, ReconnectIsGood
<1>6. CASE Read
  <2>1. /\ phase = "read" /\ taken < arrived
        /\ taken' = IF arrived - taken < ReadMax THEN arrived ELSE taken + ReadMax
        /\ Extract(pos, taken')
        /\ UNCHANGED <<stream, arrived, fin, got, losses, handled, wire, notifying, kept>>
    BY <1>6 DEF Read, link
  <2>2. ReadMax \in Nat
    OBVIOUS
  <2>3. taken' \in Nat /\ taken <= taken' /\ taken' <= arrived
    BY <1>1, <2>1, <2>2 DEF TypeOK
  <2> QED
    BY <2>1, <2>3, LoopGoesOn
<1>7. CASE Process
  <2>1. /\ phase = "process" /\ handled' = handled \cup {frame} /\ phase' = "write"
        /\ UNCHANGED <<stream, arrived, fin, got, losses, taken, pos, frame, wire, notifying,
                     kept>>
    BY <1>7 DEF Process, link
  <2>2. TypeOK'
    BY <1>1, <2>1 DEF TypeOK
  <2>3. Aligned' /\ FramesAsSent'
    BY <1>1, <2>1, Rigid DEF Aligned, FramesAsSent, InHand
  <2>4. Answers'
    BY <1>1, <2>1, Rigid DEF Answers, Cursor, InHand
  <2>5. NoFrameWaits' /\ BufferBounded'
    BY <2>1 DEF NoFrameWaits, BufferBounded
  <2> QED
    BY <2>2, <2>3, <2>4, <2>5 DEF IInv
<1>8. CASE Panic
  BY <1>1, <1>8, CutIsGood DEF Panic, InHand, link, TypeOK
<1>9. CASE Write
  <2>1. taken \in Nat /\ taken <= arrived
    BY <1>1 DEF TypeOK
  <2>2. /\ phase = "write" /\ wire' = wire \cup {frame.at} /\ Extract(pos, taken)
        /\ UNCHANGED <<stream, arrived, fin, got, losses, taken, handled, notifying, kept>>
    BY <1>9 DEF Write, link
  <2> QED
    BY <2>1, <2>2, LoopGoesOn
<1>10. CASE Timeout
  <2>1. CASE arrived = stream.size
    <3>1. /\ phase' = "closed"
          /\ UNCHANGED <<stream, arrived, taken, pos, frame, fin, handled, wire, got, losses,
                        notifying, kept>>
      BY <1>10, <2>1 DEF Timeout
    <3>2. Cut
      BY <3>1 DEF Cut
    <3> QED
      BY <1>1, <3>1, <3>2, CutIsGood DEF TypeOK
  <2>2. CASE arrived # stream.size
    BY <1>1, <1>10, <2>2, CutIsGood DEF Timeout, TypeOK
  <2> QED
    BY <2>1, <2>2
<1>11. CASE Eof
  <2>1. Cut
    BY <1>11 DEF Eof, Cut
  <2> QED
    BY <1>1, <1>11, <2>1, CutIsGood DEF Eof, link, TypeOK
<1>12. CASE Reset
  BY <1>1, <1>12, CutIsGood DEF Reset, TypeOK
<1>13. CASE NotifyEnds
  BY <1>1, <1>13, OutsideIsGood DEF NotifyEnds, TypeOK, Answers
<1>14. CASE UNCHANGED vars
  BY <1>1, <1>14, OutsideIsGood DEF vars, TypeOK, Answers
<1> QED
  BY <1>2, <1>3, <1>4, <1>5, <1>6, <1>7, <1>8, <1>9, <1>10, <1>11, <1>12, <1>13, <1>14
  DEF Next, Task

\* The invariant holds in every reachable state of a connection.
THEOREM Invariance == Spec => []IInv
<1> QED
  BY InitIsGood, StepIsGood, PTL DEF Spec

-----------------------------------------------------------------------------
(* What follows. *)

\* Every variable keeps its type: the buffer is an interval of what was received.
THEOREM TypeCorrect == Spec => []TypeOK
<1>1. IInv => TypeOK
  BY DEF IInv
<1> QED
  BY <1>1, Invariance, PTL

\* On a clean stream process_frame is given the terminal's payloads and nothing else,
\* however the bytes are cut and however often the connection is lost.
THEOREM FramesAreAsSent == Spec => []FramesAsSent
<1>1. IInv => FramesAsSent
  BY DEF IInv
<1> QED
  BY <1>1, Invariance, PTL

\* A terminal on a clean stream can match answers to frames by counting.
THEOREM AnswersStayInOrder == Spec => []AnswersInOrder
<1>1. IInv => AnswersInOrder
  BY DEF IInv, Answers, AnswersInOrder
<1> QED
  BY <1>1, Invariance, PTL

\* On a clean stream, whatever its payloads are, a frame lies in the buffer while the
\* task waits for bytes only right behind a unit that is no more than a header of 0.
THEOREM NoFrameIsLeft == Spec => []NoFrameWaits
<1>1. IInv => NoFrameWaits
  BY DEF IInv
<1> QED
  BY <1>1, Invariance, PTL

\* On any stream, less than one frame stays in the buffer between two reads, unless
\* what was taken off last reads as a header of 0.
THEOREM BufferIsBounded == Spec => []BufferBounded
<1>1. IInv => BufferBounded
  BY DEF IInv
<1> QED
  BY <1>1, Invariance, PTL

-----------------------------------------------------------------------------
(* The task is a frame server. *)

\* Every answer is one to a frame that was handled, and the task is past it.
Account ==
  Clean =>
    /\ got \cup wire \subseteq {f.at : f \in handled}
    /\ phase = "write" => frame \in handled
    /\ phase # "closed" => \A p \in got \cup wire : p < Cursor

\* The first connection has answered nothing.
LEMMA InitAccount == Init => Account
BY DEF Init, Account

\* What was handled are frames, and so is what was answered.
LEMMA AnsweredIs ==
  ASSUME IInv, Account, Clean
  PROVE  /\ {f.at : f \in handled} \subseteq Frames
         /\ got \subseteq {f.at : f \in handled}
         /\ got \cup wire \subseteq Frames
         /\ Frames \subseteq Nat
<1>1. {f.at : f \in handled} \subseteq Frames
  BY DEF IInv, FramesAsSent, Sent
<1>2. Frames \subseteq Nat
  BY UnitIs DEF IInv, TypeOK, Frames
<1> QED
  BY <1>1, <1>2 DEF Account

\* A turn of the loop keeps account, and the next frame it takes comes after
\* everything that was answered.
LEMMA LoopAccount ==
  ASSUME IInv, Account,
         UNCHANGED <<stream, handled, arrived, fin, got, losses, notifying, kept>>,
         phase \in {"read", "write"},
         taken' \in Nat, taken <= taken', taken' <= arrived,
         Extract(pos, taken'),
         wire' = IF phase = "write" THEN wire \cup {frame.at} ELSE wire
  PROVE  /\ Account'
         /\ phase' \in {"read", "process"}
         /\ Clean /\ phase' = "process" =>
              /\ frame'.at \in Frames \ got
              /\ \A q \in Frames : q < frame'.at => q \in got \cup wire'
<1> SUFFICES ASSUME Clean
             PROVE  /\ Account'
                    /\ phase' \in {"read", "process"}
                    /\ phase' = "process" =>
                         /\ frame'.at \in Frames \ got
                         /\ \A q \in Frames : q < frame'.at => q \in got \cup wire'
  <2>1. phase' \in {"read", "process"}
    BY DEF Extract, None, Some
  <2> QED
    BY <2>1, Rigid DEF Account
<1>1. /\ TypeOK /\ Aligned /\ Answers
      /\ stream \in Streams /\ stream.size \in Nat
  BY StreamIs DEF IInv, TypeOK
<1>2. pos \in Nat /\ taken \in Nat /\ arrived \in Nat /\ pos <= taken'
      /\ taken' <= stream.size /\ frame \in FrameType /\ pos \in Bounds
      /\ wire \subseteq Nat /\ got \subseteq Nat
  BY <1>1 DEF TypeOK, Aligned
<1>3. phase' \in {"read", "process"} /\ pos' \in Nat /\ pos <= pos'
  BY <1>1, <1>2, ExtractShrinks
<1>4. phase' = "process" => pos \in Frames /\ frame' = Sent(pos)
  BY <1>1, <1>2, ExtractAligned
<1>5. phase' = "process" => frame'.at = pos
  BY <1>4 DEF Sent
<1>6. IInv'
  BY LoopGoesOn
<1>7. \A q \in got \cup wire' : q \in Nat /\ q < pos
  <2>1. CASE phase = "read"
    BY <1>2, <2>1 DEF Account, Cursor, InHand
  <2>2. CASE phase = "write"
    <3>1. frame.at \in Frames /\ pos = UnitEnd(stream, frame.at)
      BY <1>1, <2>2 DEF Aligned, InHand
    <3>2. frame.at \in Nat /\ frame.at < pos
      BY <1>1, <3>1, UnitIs DEF Frames
    <3>3. \A q \in got \cup wire : q \in Nat /\ q < frame.at
      BY <1>2, <2>2 DEF Account, Cursor, InHand
    <3>4. \A q \in got \cup wire : q \in Nat /\ q < pos
      BY <1>2, <3>2, <3>3
    <3> QED
      BY <2>2, <3>2, <3>4
  <2> QED
    BY <2>1, <2>2
<1>8. got \cup wire' \subseteq {f.at : f \in handled}
  BY DEF Account
<1>9. \A q \in got' \cup wire' : q < Cursor'
  <2>1. Cursor' = IF phase' = "process" THEN frame'.at ELSE pos'
    BY <1>3 DEF Cursor, InHand
  <2> QED
    BY <1>2, <1>3, <1>5, <1>7, <2>1
<1>10. Account'
  BY <1>3, <1>8, <1>9 DEF Account
<1>11. ASSUME phase' = "process"
       PROVE  /\ frame'.at \in Frames \ got
              /\ \A q \in Frames : q < frame'.at => q \in got \cup wire'
  <2>1. Answers' /\ Cursor' = frame'.at
    BY <1>6, <1>11 DEF IInv, Cursor, InHand
  <2>2. \A q \in Frames : q < frame'.at => q \in got \cup wire'
    BY <1>11, <2>1, Rigid DEF Answers
  <2>3. pos \notin got
    BY <1>2, <1>7
  <2> QED
    BY <1>4, <1>5, <1>11, <2>2, <2>3
<1> QED
  BY <1>3, <1>10, <1>11

\* A turn of the loop begins to serve the next frame, or is not seen.
LEMMA LoopServes ==
  ASSUME IInv, Account,
         UNCHANGED <<stream, handled, arrived, fin, got, losses, notifying, kept>>,
         phase \in {"read", "write"},
         taken' \in Nat, taken <= taken', taken' <= arrived,
         Extract(pos, taken'),
         wire' = IF phase = "write" THEN wire \cup {frame.at} ELSE wire
  PROVE  Account' /\ [Server!ServerNext]_(Server!server)
<1>1. /\ Account'
      /\ phase' \in {"read", "process"}
      /\ Clean /\ phase' = "process" =>
           /\ frame'.at \in Frames \ got
           /\ \A q \in Frames : q < frame'.at => q \in got \cup wire'
  BY LoopAccount
<1>2. Clean' = Clean /\ Frames' = Frames /\ Promised' = Promised
  BY Rigid DEF Promised
<1>3. CASE Clean /\ phase' = "process"
  <2> DEFINE p == frame'.at
  <2>1. p \in Frames \ got
    BY <1>1, <1>3
  <2>2. \A q \in Frames : q < p => q \in {f.at : f \in handled}
    BY <1>1, <1>3 DEF Account
  <2>3. Server!Begin(p) /\ p \in Promised
    BY <1>2, <1>3, <2>1, <2>2 DEF Server!Begin, Server!Before, Promised
  <2> QED
    BY <1>1, <2>3 DEF Server!ServerNext
<1>4. CASE ~Clean \/ phase' # "process"
  BY <1>1, <1>2, <1>4 DEF Server!server, Promised
<1> QED
  BY <1>1, <1>3, <1>4

\* process_frame comes back, or the task ends in it: the frame at hand was served.
LEMMA ServedStep ==
  ASSUME IInv, Account, phase = "process", phase' \in {"write", "closed"},
         UNCHANGED <<stream, pos, frame, got>>,
         handled' = handled \cup {frame}, wire' \subseteq wire
  PROVE  Account' /\ Server!Finish
<1>1. Clean' = Clean /\ Frames' = Frames /\ Promised' = Promised
  BY Rigid DEF Promised
<1>2. Account'
  BY <1>1 DEF Account, Cursor, InHand
<1>3. {f.at : f \in handled'} = {f.at : f \in handled} \cup {frame.at}
  OBVIOUS
<1> QED
  BY <1>1, <1>2, <1>3 DEF Server!Finish

\* Outside of process_frame the connection may end without a trace.
LEMMA EndStep ==
  ASSUME IInv, Account, phase \in {"read", "write"}, Cut,
         UNCHANGED <<stream, pos, frame, handled, got>>
  PROVE  Account' /\ Server!Finish
<1>1. Clean' = Clean /\ Frames' = Frames /\ Promised' = Promised
  BY Rigid DEF Promised
<1>2. Account'
  BY <1>1 DEF Account, Cut
<1> QED
  BY <1>1, <1>2 DEF Cut, Server!Finish

\* Every step of a connection, and of the terminal that reads its answers, is a
\* step of the frame server.
LEMMA ServerStep ==
  ASSUME IInv, Account, [Next]_vars
  PROVE  Account' /\ [Server!ServerNext]_(Server!server)
<1> USE DEF Server!ServerNext
<1>1. ASSUME UNCHANGED <<stream, phase, pos, frame, handled, wire, got>>
      PROVE  Account' /\ UNCHANGED Server!server
  <2>1. Clean' = Clean /\ Frames' = Frames
    BY <1>1, Rigid
  <2> QED
    BY <1>1, <2>1 DEF Account, Cursor, InHand, Server!server, Promised
<1>2. CASE Arrive
  BY <1>1, <1>2 DEF Arrive
<1>3. CASE Shutdown
  BY <1>1, <1>3 DEF Shutdown
<1>4. ASSUME NEW p \in wire, Collect(p)
      PROVE  Account' /\ [Server!ServerNext]_(Server!server)
  <2>1. /\ wire' = wire \ {p} /\ got' = got \cup {p} /\ \A q \in wire : p <= q
        /\ UNCHANGED <<stream, phase, pos, frame, handled>>
    BY <1>4 DEF Collect
  <2>2. Clean' = Clean /\ Frames' = Frames /\ Promised' = Promised
    BY <2>1, Rigid DEF Promised
  <2>3. got' \cup wire' = got \cup wire
    BY <2>1
  <2>4. Account'
    BY <2>1, <2>2, <2>3 DEF Account, Cursor, InHand
  <2>5. CASE Clean /\ p \notin got
    <3>1. p \in {f.at : f \in handled} /\ p \in Frames /\ p \in Nat
      BY <2>5, AnsweredIs DEF Account
    <3>2. phase = "process" => p # frame.at
      BY <2>5, <3>1 DEF Account, Cursor, InHand, IInv, TypeOK, FrameType
    <3>3. ASSUME NEW q \in Frames, q < p PROVE q \in got
      <4>1. q \in got'
        BY <2>1, <2>2, <2>5, <3>3, StepIsGood
           DEF IInv, Answers, Next
      <4>2. q # p
        BY <3>1, <3>3, AnsweredIs, <2>5
      <4> QED
        BY <2>1, <4>1, <4>2
    <3>4. Server!Reply(p) /\ p \in Promised
      BY <2>1, <2>2, <2>5, <3>1, <3>2, <3>3
         DEF Server!Reply, Server!Before, Promised
    <3> QED
      BY <2>4, <3>4
  <2>6. CASE ~Clean \/ p \in got
    BY <2>1, <2>2, <2>4, <2>6 DEF Server!server, Promised
  <2> QED
    BY <2>5, <2>6
<1>5. ASSUME NEW p \in Frames, Reconnect(p)
      PROVE  Account' /\ [Server!ServerNext]_(Server!server)
  <2>1. /\ phase = "closed" /\ wire = {} /\ p \notin got
        /\ phase' = "read" /\ pos' = p
        /\ UNCHANGED <<stream, handled, wire, got>>
    BY <1>5 DEF Reconnect
  <2>2. Clean' = Clean /\ Frames' = Frames /\ Promised' = Promised
    BY <2>1, Rigid DEF Promised
  <2>3. Clean => \A q \in got : q < p
    <3>1. SUFFICES ASSUME Clean, NEW q \in got PROVE q < p
      OBVIOUS
    <3>2. p < q => p \in got
      BY <3>1 DEF IInv, Answers
    <3>3. p \in Nat /\ q \in Nat
      BY <3>1, AnsweredIs
    <3> QED
      BY <2>1, <3>2, <3>3
  <2>4. Account'
    BY <2>1, <2>2, <2>3 DEF Account, Cursor, InHand
  <2> QED
    BY <2>1, <2>2, <2>4 DEF Server!server
<1>6. CASE Read
  <2>1. /\ phase = "read" /\ taken < arrived
        /\ taken' = IF arrived - taken < ReadMax THEN arrived ELSE taken + ReadMax
        /\ Extract(pos, taken')
        /\ UNCHANGED <<stream, arrived, fin, got, losses, handled, wire, notifying, kept>>
    BY <1>6 DEF Read, link
  <2>2. ReadMax \in Nat
    OBVIOUS
  <2>3. taken' \in Nat /\ taken <= taken' /\ taken' <= arrived
    BY <2>1, <2>2 DEF IInv, TypeOK
  <2> QED
    BY <2>1, <2>3, LoopServes
<1>7. CASE Process
  BY <1>7, ServedStep DEF Process, link
<1>8. CASE Panic
  BY <1>8, ServedStep DEF Panic, Cut, link
<1>9. CASE Write
  <2>1. taken \in Nat /\ taken <= arrived
    BY DEF IInv, TypeOK
  <2>2. /\ phase = "write" /\ wire' = wire \cup {frame.at} /\ Extract(pos, taken)
        /\ UNCHANGED <<stream, arrived, fin, got, losses, taken, handled, notifying, kept>>
    BY <1>9 DEF Write, link
  <2> QED
    BY <2>1, <2>2, LoopServes
<1>10. CASE Timeout
  <2>1. Cut
    BY <1>10 DEF Timeout, Cut
  <2> QED
    BY <1>10, <2>1, EndStep DEF Timeout
<1>11. CASE Eof
  <2>1. Cut
    BY <1>11 DEF Eof, Cut
  <2> QED
    BY <1>11, <2>1, EndStep DEF Eof, link
<1>12. CASE Reset
  BY <1>12, EndStep DEF Reset
<1>13. CASE NotifyEnds
  BY <1>1, <1>13 DEF NotifyEnds
<1>14. CASE UNCHANGED vars
  BY <1>1, <1>14 DEF vars
<1> QED
  BY <1>2, <1>3, <1>4, <1>5, <1>6, <1>7, <1>8, <1>9, <1>10, <1>11, <1>12, <1>13, <1>14
  DEF Next, Task

\* Account holds in every reachable state.
LEMMA AlwaysAccount == Spec => []Account
<1> QED
  BY InitAccount, ServerStep, Invariance, PTL DEF Spec

\* Over all connections of a terminal with a clean stream: frames are served one at a
\* time and in order, answers follow in that order, and what was answered is not
\* served again.
THEOREM FramesAreServedInOrder == Spec => InOrderService
<1>1. Init => Server!ServerInit
  <2>1. Init => stream \in Streams
    BY DEF Init
  <2> QED
    BY <2>1, UnitIs DEF Init, Server!ServerInit, Promised, Frames
<1> QED
  BY <1>1, AlwaysAccount, ServerStep, Invariance, PTL
     DEF Spec, InOrderService, Server!ServerSpec

\* The frame in hand is one without an answer, with the terminal or on the way, of
\* this connection or an earlier one.
NotYetAnswered == Clean /\ InHand => frame.at \notin got \cup wire

\* tcp_listener.rs: process_frame is never given a frame that the terminal has an
\* answer to, nor is a second answer sent to one whose first is on the way.
THEOREM AnsweredForGood == Spec => []NotYetAnswered
<1>1. IInv /\ Account => NotYetAnswered
  <2> SUFFICES ASSUME IInv, Account, Clean, InHand, frame.at \in got \cup wire
               PROVE  FALSE
    BY DEF NotYetAnswered
  <2>1. frame.at < frame.at
    BY DEF Account, InHand, Cursor
  <2>2. frame.at \in Nat
    BY DEF IInv, TypeOK, FrameType
  <2> QED
    BY <2>1, <2>2
<1> QED
  BY <1>1, AlwaysAccount, Invariance, PTL
=============================================================================
