---------------------------- MODULE MCChatPresence ----------------------------
(* Instance of ChatPresence for TLC. *)
EXTENDS ChatPresence

CONSTANTS u1, u2, s1, s2, s3

MCUsers == {u1, u2}
OneUser == {u1}
MCSockets == {s1, s2, s3}
MCFaulty == {u2}
NoUser == {}
=============================================================================
