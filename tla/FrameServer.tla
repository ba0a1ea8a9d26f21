---------------------------- MODULE FrameServer -----------------------------
(***************************************************************************)
(* What a terminal may rely on: its frames are served one at a time and in  *)
(* the order of its stream, answers come in that order and only for what    *)
(* was served, and a frame whose answer came is never served again.  Until  *)
(* then a frame may be served again, as often as connections are lost.      *)
(***************************************************************************)
EXTENDS Naturals

VARIABLES
  frames,    \* positions of the frames in the stream; no step changes it
  serving,   \* the frame at hand, if there is one
  served,    \* frames that were served, once or more
  answered   \* frames whose answers the terminal has read

server == <<frames, serving, served, answered>>

Before(p) == {q \in frames : q < p}

ServerInit ==
  /\ frames \subseteq Nat
  /\ serving = {}
  /\ served = {}
  /\ answered = {}

Begin(p) ==
  /\ serving = {}
  /\ p \notin answered
  /\ Before(p) \subseteq served
  /\ serving' = {p}
  /\ UNCHANGED <<frames, served, answered>>

Finish ==
  /\ serving' = {}
  /\ served' = served \cup serving
  /\ UNCHANGED <<frames, answered>>

Reply(p) ==
  /\ p \in served \ (serving \cup answered)
  /\ Before(p) \subseteq answered
  /\ answered' = answered \cup {p}
  /\ UNCHANGED <<frames, serving, served>>

ServerNext == Finish \/ \E p \in frames : Begin(p) \/ Reply(p)

ServerSpec == ServerInit /\ [][ServerNext]_server
=============================================================================
