---------------------------- MODULE MCChatServer ----------------------------
(* Small instances of ChatServer.                                          *)
EXTENDS ChatServer, TLC

CONSTANTS s1, s2, o1, o2

TwoSessions == {s1, s2}
TwoObjects  == {o1, o2}

Packet(k, a, c, b) == [kind |-> k, acc |-> a, pos |-> c, ok |-> b]
Plain(k)           == Packet(k, 0, <<0, 0>>, TRUE)

\* Two cells that touch, one too far from the first, one outside the map; the right and
\* a wrong account; a move and a chat of the wrong length.
WorldPackets ==
    {Packet("login", 1, <<0, 0>>, TRUE), Plain("other")}
    \cup {Packet("move", 1, c, TRUE) : c \in {<<0, 0>>, <<1, 1>>, <<2, 1>>, <<3, 0>>}}
    \cup {Packet("move", 0, <<0, 0>>, TRUE), Packet("move", 1, <<0, 0>>, FALSE)}
    \cup {Packet("chat", 0, <<0, 0>>, TRUE)}
    \cup {Packet("chat", 1, <<0, 0>>, b) : b \in BOOLEAN}

OnePacket == {Plain("heartbeat")}

Symmetry == Permutations(TwoSessions) \cup Permutations(TwoObjects)
=============================================================================
