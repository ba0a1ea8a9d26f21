-------------------------- MODULE MCTcpConnection ---------------------------
(* Small streams: a header of 2 bytes, payloads of 1 to 4 bytes, fixed        *)
(* payloads of 4.                                                            *)
EXTENDS TcpConnection

\* In between units nothing is known of the bytes; they are no header, or `inner`.
Heads(size, headers, inner) ==
  [p \in 0..(size - 1) |-> IF p \in DOMAIN headers THEN headers[p] ELSE inner]

Stream(size, headers, inner, fixed, odd, eager, limit) ==
  [size |-> size, head |-> Heads(size, headers, inner),
   units |-> DOMAIN headers, fixed |-> fixed, odd |-> odd, eager |-> eager, limit |-> limit]

At(p, h) == [x \in {p} |-> h]
And(f, g) == [x \in DOMAIN f \cup DOMAIN g |-> IF x \in DOMAIN f THEN f[x] ELSE g[x]]

MCStreams ==
  LET three == And(At(0, 3), And(At(5, NoHeader), At(9, 1)))
      four  == And(At(0, 3), And(At(5, 2), And(At(9, 2), At(13, 2))))
      zero  == And(At(0, 0), And(At(2, 2), At(6, 3)))
      large == And(At(0, 3), And(At(5, 5), At(12, 3)))
      digit == And(At(0, 3), And(At(5, 2), At(9, 3)))
  IN  {Stream(12, three, 1, {5}, {}, TRUE, 4),
       Stream(12, three, NoHeader, {5}, {5}, TRUE, 4),
       Stream(17, four, 0, {}, {}, FALSE, 4),
       Stream(11, zero, NoHeader, {}, {}, TRUE, 4),
       Stream(17, large, 3, {}, {}, TRUE, 4),
       Stream(17, large, 0, {}, {}, TRUE, 4),
       Stream(14, digit, NoHeader, {5}, {}, TRUE, 4),
       Stream(12, three, NoHeader, {5}, {}, TRUE, 3)}

\* A header of 0, and a frame behind it.
MCZero == {Stream(6, And(At(0, 0), At(2, 2)), NoHeader, {}, {}, TRUE, 4)}
=============================================================================
