---------------------------- MODULE MCConfigLock ----------------------------
(* Connection a is inbound, r goes to a routing daemon. *)
EXTENDS ConfigLock, TLC

CONSTANTS a, r, s1, s2


=============================================================================
