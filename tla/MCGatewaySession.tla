--------------------------- MODULE MCGatewaySession ---------------------------
(* Small instances of GatewaySession for TLC.                              *)
EXTENDS GatewaySession, TLC

CONSTANTS d1, d2

TwoStreams == {1, 2}

Symmetric == Permutations(Commands)

=============================================================================
