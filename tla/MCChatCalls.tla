---------------------------- MODULE MCChatCalls ----------------------------
(* Constants for model-checking ChatCalls.                                 *)
EXTENDS ChatCalls, TLC

CONSTANTS alice, bob, carol, c1, c2

ThreeUsers == {alice, bob, carol}
TwoConversations == {c1, c2}

\* Users are interchangeable, and so are the conversations.
CallsSymmetry == Permutations(ThreeUsers) \cup Permutations(TwoConversations)
=============================================================================
