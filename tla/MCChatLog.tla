----------------------------- MODULE MCChatLog -----------------------------
(* Constants for model-checking ChatLog.                                   *)
EXTENDS ChatLog, TLC

CONSTANTS alice, bob, system, c1, noClient

TwoUsers == {alice, bob}
OneClientId == {c1}
NoClientIds == {}
TextOnly == {"text"}
TextAndFiles == {"text", "file"}

\* A direct conversation starts with both users, the others with one.
Founders == [t \in Types |-> IF t = "direct" THEN TwoUsers ELSE {alice}]

\* alice and bob are interchangeable in a direct conversation.
UserSymmetry == Permutations(TwoUsers)
=============================================================================
