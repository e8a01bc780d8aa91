------------------------ MODULE MCAvatarAnimation ------------------------
(* An avatar with each of the controller's three policies; Chained is the  *)
(* one the program gives its avatars.                                      *)
EXTENDS AvatarAnimation

MCPolicies == {Chained, Strict, QueueChain}
MCDeltas == {1, 2}
=============================================================================
