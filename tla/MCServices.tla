----------------------------- MODULE MCServices -----------------------------
(* Constants for model-checking Services.                                  *)
EXTENDS Services

CONSTANTS alice, bob, carol, g1, ip1, ip2

OneDirect == {{alice, bob}}
OneSystem == {{carol}}
EveryoneSees == {alice, bob, carol} \X {alice, bob, carol}
TwoFolders == <<"/var/go", "/var/www">>
FourWords == UNION {[1 .. n -> 1 .. 5]: n \in 0 .. 4}
=============================================================================
