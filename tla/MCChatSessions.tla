---------------------------- MODULE MCChatSessions ----------------------------
(* ChatSessions with a few requests over two stored sessions, for TLC.     *)
EXTENDS ChatSessions, TLC

CONSTANTS s1, s2, s3

MCIds3   == {s1, s2, s3}
MCIds2   == {s1, s2}
MCOld1   == {s1}
MCOld2   == {s1, s2}
Symmetry == Permutations(Requests)

=============================================================================
