--------------------------- MODULE MCChatDelivery ---------------------------
(* A group of three and the direct conversation of two, for TLC.           *)
EXTENDS ChatDelivery

CONSTANTS alice, bob, carol, system, c1, noClient, speaker

MCUsers == {alice, bob, carol}

Founders == [t \in Types |-> IF t = "direct" THEN {alice, bob} ELSE MCUsers]

\* Two members share a speaker.
Speakers == [u \in {bob, carol} |-> speaker]

=============================================================================
