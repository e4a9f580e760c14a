----------------------------- MODULE MCChatHub -----------------------------
(* Constants for model-checking ChatHub.                                   *)
EXTENDS ChatHub

CONSTANTS alice, bob, a1, a2, b1, persisted

\* alice on two devices, or alice and bob on one each.
OneUser == {alice}
TwoDevices == {a1, a2}
TwoDevicesOwner == [c \in TwoDevices |-> alice]

TwoUsers == {alice, bob}
OneEach == {a1, b1}
OneEachOwner == [c \in OneEach |-> IF c = a1 THEN alice ELSE bob]

NoListeners == {}
OneListener == {persisted}
=============================================================================
