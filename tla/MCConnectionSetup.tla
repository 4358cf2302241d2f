------------------------- MODULE MCConnectionSetup -------------------------
(* ConnectionSetup with one slot, which the host has to share.             *)
EXTENDS ConnectionSetup

CONSTANTS c1, c2
=============================================================================
