-------------------------- MODULE MCSessionManager --------------------------
(* Finite instances of SessionManager.                                     *)
EXTENDS SessionManager, TLC

CONSTANTS i1, i2, p1, p2

Rebatedor(i, p) == [id |-> i, mode |-> "Rebatedor", port |-> p, target |-> FALSE, framed |-> TRUE]
Outbound(i) == [id |-> i, mode |-> "Injetor", port |-> p1, target |-> TRUE, framed |-> TRUE]

\* One id: a listener, an outbound connection, and one of each with a HeaderSize
\* the framer rejects; an Injetor without a target; a port no listener can have.
ConfigsOneId ==
  {Rebatedor(i1, p1), Outbound(i1),
   [Rebatedor(i1, p1) EXCEPT !.framed = FALSE], [Outbound(i1) EXCEPT !.framed = FALSE],
   [Outbound(i1) EXCEPT !.target = FALSE], Rebatedor(i1, NoPort)}

\* Two ids on one port, so that listeners compete for it; an impossible port.
ConfigsTwoIds == {Rebatedor(i1, p1), Rebatedor(i2, p1), Outbound(i1), Rebatedor(i1, NoPort)}

\* Also a reader that dies at once: the remote stays connected until DELETE.
ConfigsReaders == {Rebatedor(i1, p1), Outbound(i1), [Outbound(i1) EXCEPT !.framed = FALSE]}

ConfigsPlain == {Rebatedor(i1, p1), Outbound(i1)}

Symmetry == Permutations(Attempts) \cup Permutations(Stops)
=============================================================================
