--------------------------- MODULE TcpConnection ----------------------------
(***************************************************************************)
(* One terminal and the task of its connection (the task that start        *)
(* spawns, handle_connection and extract_frame, tcp_listener.rs).  The     *)
(* terminal has a stream of bytes to send, cut into units: a header and    *)
(* the payload it announces, or a payload of fixed size.  Bytes are        *)
(* positions of that stream, so the buffer of the task is the interval     *)
(* from pos to taken.  A terminal that loses its connection opens another  *)
(* and goes on with the first unit that was not answered; the task of the  *)
(* lost one may still be there, with its guard, to send a notification.    *)
(***************************************************************************)
EXTENDS Integers, FiniteSets

CONSTANTS
  HeaderLen,   \* the 4 digits of LLLL
  FixedSize,   \* FIXED_FRAME_SIZE
  MinPayload,  \* parse_frame refuses what is shorter
  ReadMax,     \* size of tmp, what one read returns at most
  InCap,       \* bytes that the socket holds for the task
  OutCap,      \* answers that the socket holds for the terminal
  Streams,     \* what a terminal may have to send
  MaxLosses    \* bound on resets, on pauses that time out and on early closes

NoHeader == -1   \* four bytes that are not all digits

(***************************************************************************)
(* A stream: its size; head[p], what the four bytes from p on parse to;     *)
(* units, where the terminal's units begin; fixed, those sent without a     *)
(* header; odd, the positions whose 8th to 11th byte, trimmed, are a        *)
(* msg_type of one to three bytes or of more than four; eager, whether the  *)
(* terminal reads answers before it has sent everything; and limit, the     *)
(* tcp_max_frame_bytes of the receiver that it meets.                       *)
(***************************************************************************)
UnitEnd(s, p) == IF p \in s.fixed THEN p + FixedSize ELSE p + HeaderLen + s.head[p]

WellFormed(s) ==
  /\ s.size \in Nat
  /\ s.head \in [0..(s.size - 1) -> Nat \cup {NoHeader}]
  /\ s.units \subseteq 0..(s.size - 1)
  /\ s.fixed \subseteq s.units /\ s.odd \subseteq Nat /\ s.eager \in BOOLEAN
  /\ s.limit \in Nat
  /\ \A p \in s.units :
       /\ p \in s.fixed \/ s.head[p] # NoHeader
       /\ UnitEnd(s, p) \in s.units \cup {s.size}
       /\ \A q \in s.units : q > p => q >= UnitEnd(s, p)
  /\ s.size > 0 => 0 \in s.units

ASSUME ConnectionAssumption ==
  /\ HeaderLen \in Nat \ {0} /\ FixedSize \in Nat /\ MinPayload \in Nat
  /\ FixedSize >= HeaderLen
  /\ ReadMax \in Nat \ {0}
  /\ InCap \in Nat \ {0} /\ OutCap \in Nat \ {0}
  /\ \A s \in Streams : WellFormed(s)
  /\ MaxLosses \in Nat

VARIABLES
  stream,    \* what the terminal has to send; no step changes it
  phase,     \* the await handle_connection is in; "closed" without a connection
  arrived,   \* bytes that have come to the socket
  taken,     \* bytes the task has read
  pos,       \* start of buf
  frame,     \* the frame that is processed: where it begins, and its payload
  fin,       \* the terminal has shut down its side
  handled,   \* history: the frames that process_frame was given
  wire,      \* beginnings of the frames whose answers are on the way
  got,       \* those whose answers the terminal has read
  losses,    \* resets, pauses that timed out and early closes so far
  notifying, \* tasks of lost connections that hold their guard in notify
  kept       \* those whose notification never gets its answer

guards == <<notifying, kept>>
link == <<stream, arrived, fin, got, losses, notifying, kept>>
vars == <<stream, phase, arrived, taken, pos, frame, fin, handled, wire, got, losses,
          notifying, kept>>

\* Where units begin that are to be answered: a header of 0 announces nothing.
Frames == {p \in stream.units : p \in stream.fixed \/ stream.head[p] # 0}

\* The payload of the unit at p, as the terminal sent it.
Sent(p) == [at |-> p, to |-> UnitEnd(stream, p),
            from |-> IF p \in stream.fixed THEN p ELSE p + HeaderLen]

FrameType == [at : Nat, from : Nat, to : Nat]

TypeOK ==
  /\ stream \in Streams
  /\ phase \in {"read", "process", "write", "closed"}
  /\ pos \in Nat /\ taken \in Nat /\ arrived \in Nat
  /\ pos <= taken /\ taken <= arrived /\ arrived <= stream.size
  /\ frame \in FrameType
  /\ fin \in BOOLEAN
  /\ handled \subseteq FrameType
  /\ wire \subseteq Nat /\ got \subseteq Nat
  /\ losses \in Nat /\ notifying \in Nat /\ kept \in Nat

Init ==
  /\ stream \in Streams
  /\ phase = "read"
  /\ arrived = 0 /\ taken = 0 /\ pos = 0
  /\ frame = [at |-> 0, from |-> 0, to |-> 0]
  /\ fin = FALSE
  /\ handled = {} /\ wire = {} /\ got = {}
  /\ losses = 0 /\ notifying = 0 /\ kept = 0

-----------------------------------------------------------------------------
(* The terminal. *)

Arrive ==
  /\ phase # "closed" /\ ~fin
  /\ arrived < stream.size
  /\ arrived - taken < InCap
  /\ arrived' = arrived + 1
  /\ UNCHANGED <<stream, phase, taken, pos, frame, fin, handled, wire, got, losses, guards>>

\* The terminal reads the answer that was sent first.
Collect(p) ==
  /\ stream.eager \/ arrived = stream.size \/ fin \/ phase = "closed"
  /\ p \in wire /\ \A q \in wire : p <= q
  /\ wire' = wire \ {p}
  /\ got' = got \cup {p}
  /\ UNCHANGED <<stream, phase, arrived, taken, pos, frame, fin, handled, losses, guards>>

\* It has sent everything, or gives up early.
Shutdown ==
  /\ phase # "closed" /\ ~fin
  /\ arrived = stream.size \/ losses < MaxLosses
  /\ fin' = TRUE
  /\ losses' = IF arrived = stream.size THEN losses ELSE losses + 1
  /\ UNCHANGED <<stream, phase, arrived, taken, pos, frame, handled, wire, got, guards>>

\* The next connection begins with the first unit that was not answered.
Reconnect(p) ==
  /\ phase = "closed" /\ wire = {}
  /\ p \in Frames \ got /\ \A q \in Frames : q < p => q \in got
  /\ phase' = "read"
  /\ arrived' = p /\ taken' = p /\ pos' = p
  /\ fin' = FALSE
  /\ UNCHANGED <<stream, frame, handled, wire, got, losses, guards>>

-----------------------------------------------------------------------------
(* The task. *)

\* extract_frame returns None; the buffer now begins at p.
None(p) == phase' = "read" /\ pos' = p /\ UNCHANGED frame

\* Mutant of Some: the buffer is emptied, not drained.
SomeOnly(p, from, to) ==
  /\ phase' = "process"
  /\ pos' = taken'
  /\ frame' = [at |-> p, from |-> from, to |-> to]

\* Mutant of Some: the frame is copied from the buffer and left there.
SomeKept(p, from, to) ==
  /\ phase' = "process"
  /\ pos' = p
  /\ frame' = [at |-> p, from |-> from, to |-> to]

\* extract_frame returns the payload from..to of the frame at p.
Some(p, from, to) ==
  /\ phase' = "process"
  /\ pos' = to
  /\ frame' = [at |-> p, from |-> from, to |-> to]

\* Mutant of From: the header is left in the payload.
FromHeader(p) == p

\* Where the payload of the frame at p begins.
From(p) == IF stream.head[p] = NoHeader THEN p ELSE p + HeaderLen

\* Mutant of TooLarge: no size is refused.
NeverTooLarge(size) == size > stream.limit /\ FALSE

TooLarge(size) == size > stream.limit

\* Mutant of Complete: the header is forgotten.
CompletePayload(p, size, t) == t - p >= size

Complete(p, size, t) == t >= From(p) + size

\* extract_frame on the bytes from p to t.  A header is checked against the
\* limit before the payload is complete, a payload without one when it is.
Extract(p, t) ==
  LET h    == stream.head[p]
      size == IF h = NoHeader THEN FixedSize ELSE h
  IN  \/ t - p < HeaderLen /\ None(p)
      \/ /\ t - p >= HeaderLen
         /\ \/ h = 0 /\ None(p + HeaderLen)
            \/ h > 0 /\ TooLarge(h) /\ None(t)
            \/ h > 0 /\ ~TooLarge(h) /\ ~Complete(p, h, t) /\ None(p)
            \/ h = NoHeader /\ ~Complete(p, FixedSize, t) /\ None(p)
            \/ h = NoHeader /\ Complete(p, FixedSize, t) /\ TooLarge(FixedSize) /\ None(t)
            \/ /\ h # 0 /\ ~TooLarge(size) /\ Complete(p, size, t)
               /\ Some(p, From(p), From(p) + size)

\* read returns what the socket holds, and the loop starts over its frames.
Read ==
  /\ phase = "read"
  /\ taken < arrived
  /\ taken' = IF arrived - taken < ReadMax THEN arrived ELSE taken + ReadMax
  /\ Extract(pos, taken')
  /\ UNCHANGED <<link, handled, wire>>

\* The frame is long enough to be parsed, and its msg_type has another length than
\* the four bytes it is to be copied to.
Panics == frame.to - frame.from >= MinPayload /\ frame.from \in stream.odd

\* Mutant of Process: a frame that cannot be parsed is not answered.
ProcessSilent ==
  /\ phase = "process"
  /\ ~Panics
  /\ handled' = handled \cup {frame}
  /\ phase' = IF frame.to - frame.from < MinPayload THEN "read" ELSE "write"
  /\ UNCHANGED <<link, taken, pos, frame, wire>>

\* process_frame comes back with an answer, whatever became of the event.
Process ==
  /\ phase = "process"
  /\ ~Panics
  /\ handled' = handled \cup {frame}
  /\ phase' = "write"
  /\ UNCHANGED <<link, taken, pos, frame, wire>>

\* The connection is gone at once; of the answers on the way the first may arrive.
Cut ==
  /\ phase' = "closed"
  /\ wire' \in SUBSET wire
  /\ \A p \in wire', q \in wire : q < p => q \in wire'

\* build_response panics after the event was published; the task ends.
Panic ==
  /\ phase = "process"
  /\ Panics
  /\ handled' = handled \cup {frame}
  /\ Cut
  /\ UNCHANGED <<link, taken, pos, frame>>

\* Mutant of Write: the loop is left after the first answer.
WriteOnce ==
  /\ phase = "write"
  /\ Cardinality(wire) < OutCap
  /\ wire' = wire \cup {frame.at}
  /\ None(pos)
  /\ UNCHANGED <<link, taken, handled>>

\* write_all has handed over the answer, and the loop goes on.
Write ==
  /\ phase = "write"
  /\ Cardinality(wire) < OutCap
  /\ wire' = wire \cup {frame.at}
  /\ Extract(pos, taken)
  /\ UNCHANGED <<link, taken, handled>>

\* Mutant of Timeout: a half received frame is waited for without limit.
TimeoutIfEmpty ==
  /\ phase = "read" /\ ~fin
  /\ taken = arrived /\ pos = taken
  /\ IF arrived = stream.size
       THEN phase' = "closed" /\ UNCHANGED <<wire, losses>>
       ELSE losses < MaxLosses /\ losses' = losses + 1 /\ Cut
  /\ UNCHANGED <<stream, arrived, taken, pos, frame, fin, handled, got, guards>>

\* Nothing came for 30 seconds; what the buffer holds is dropped.  A pause of the
\* terminal or the network before the end of the stream counts as a loss.
Timeout ==
  /\ phase = "read" /\ ~fin
  /\ taken = arrived
  /\ IF arrived = stream.size
       THEN phase' = "closed" /\ UNCHANGED <<wire, losses>>
       ELSE losses < MaxLosses /\ losses' = losses + 1 /\ Cut
  /\ UNCHANGED <<stream, arrived, taken, pos, frame, fin, handled, got, guards>>

\* read returns 0.
Eof ==
  /\ phase = "read" /\ fin
  /\ taken = arrived
  /\ phase' = "closed"
  /\ UNCHANGED <<link, taken, pos, frame, handled, wire>>

\* read or write_all fails; process_frame does not notice.  handle_connection returns
\* the error and the socket is closed.  The task drops its guard at once if the error is
\* a reset or an abort, or nobody is to be notified, and otherwise after notify.
Reset ==
  /\ phase \in {"read", "write"}
  /\ losses < MaxLosses
  /\ losses' = losses + 1
  /\ Cut
  /\ notifying' \in {notifying, notifying + 1}
  /\ UNCHANGED <<stream, arrived, taken, pos, frame, fin, handled, got, kept>>

\* notify comes back, or its request, which has no timeout, is never answered.
NotifyEnds ==
  /\ notifying > 0
  /\ notifying' = notifying - 1
  /\ kept' \in {kept, kept + 1}
  /\ UNCHANGED <<stream, phase, arrived, taken, pos, frame, fin, handled, wire, got, losses>>

Task == Read \/ Process \/ Panic \/ Write \/ Eof

Next ==
  \/ Arrive \/ Shutdown
  \/ \E p \in wire : Collect(p)
  \/ \E p \in Frames : Reconnect(p)
  \/ Task \/ Timeout \/ Reset \/ NotifyEnds

Spec == Init /\ [][Next]_vars

\* tokio polls a task that can go on, the timer fires, the network delivers, and the
\* terminal reads its answers and comes back as long as one is missing.  That NotifyEnds
\* is fair says nothing of Telegram: one of its outcomes is that there is no answer.
Fairness ==
  /\ WF_vars(Task) /\ WF_vars(Timeout) /\ WF_vars(Arrive) /\ WF_vars(NotifyEnds)
  /\ WF_vars(\E p \in wire : Collect(p))
  /\ WF_vars(\E p \in Frames : Reconnect(p))

FairSpec == Spec /\ Fairness

-----------------------------------------------------------------------------
(* Properties. *)

\* The units are what extract_frame takes them for, and none is too large.
Clean ==
  \A p \in stream.units :
    IF p \in stream.fixed
      THEN stream.head[p] = NoHeader /\ FixedSize <= stream.limit
      ELSE stream.head[p] <= stream.limit

\* However the bytes are cut by the network, by resets and by timeouts, the
\* handlers are given the payloads that the terminal sent, and nothing else.
FramesAsSent == Clean => handled \subseteq {Sent(p) : p \in Frames}

\* Answers never get ahead: the terminal has none for a frame while an earlier frame
\* of its stream is without, so it can match them by counting.
AnswersInOrder ==
  Clean => \A p \in got, q \in Frames : q < p => q \in got

Promised == IF Clean THEN Frames ELSE {}

Server == INSTANCE FrameServer WITH
  frames   <- Promised,
  serving  <- IF phase = "process" THEN {frame.at} \cap Promised ELSE {},
  served   <- {f.at : f \in handled} \cap Promised,
  answered <- got \cap Promised

\* tcp_listener.rs: over all connections of a terminal with a clean stream, its frames
\* are served one at a time and in order, answers follow in that order and only after
\* the frame was served, and no answered frame is served again, although an unanswered
\* one is sent and served again after a loss.
InOrderService == Server!ServerSpec

\* While the task waits for bytes, its buffer holds no frame that it could handle
\* (extract_frame is called until there is none), unless the loop was left right there
\* at a unit that is no more than a header of 0.
WholeFrame == \E p \in Frames : pos <= p /\ UnitEnd(stream, p) <= taken
BehindEmpty == \E z \in stream.units \ Frames : UnitEnd(stream, z) = pos
NoFrameWaits == Clean /\ phase = "read" /\ WholeFrame => BehindEmpty

\* Between two reads less than one frame is kept, also after garbage: a client cannot
\* make the buffer grow by never completing anything.  Only when the bytes that were
\* taken off last read as a header of 0 may there be more.
Largest == IF HeaderLen + stream.limit > FixedSize THEN HeaderLen + stream.limit ELSE FixedSize
BufferBounded ==
  phase = "read" /\ taken - pos >= Largest =>
    pos >= HeaderLen /\ stream.head[pos - HeaderLen] = 0

\* What is thrown away at the end of a stream is an incomplete frame.
DiscardedIsIncomplete == [][Eof => ~WholeFrame]_vars

\* Every frame of a terminal that reads its answers is answered in the end, over as
\* many connections as it takes, if acquire admits them.
Answered ==
  Clean /\ stream.eager /\ stream.odd = {} => <>(Frames \subseteq got)

\* Every task ends and drops its guard, but for two awaits that have no timeout:
\* write_all, if the terminal sends on without reading, and notify, if Telegram never
\* answers (`kept` counts these).  A connection that is lost keeps its place until its
\* notification is out, while the terminal may already be back.
ConnectionEnds ==
  phase # "closed" \/ notifying > 0
    ~> (phase = "closed" /\ notifying = 0) \/ (phase = "write" /\ ~stream.eager)
=============================================================================
