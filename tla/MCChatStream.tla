---------------------------- MODULE MCChatStream ----------------------------
(* Small instances of ChatStream for TLC.                                  *)
EXTENDS ChatStream

CONSTANTS s1, s2, c1, u1, u2

TwoStreams      == {s1, s2}
OneConversation == {c1}
TwoUsers        == {u1, u2}
Shared          == [s \in Streams |-> c1]
OwnUser         == [s \in Streams |-> IF s = s1 THEN u1 ELSE u2]

=============================================================================
