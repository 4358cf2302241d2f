---------------------------- MODULE MCServerPool ----------------------------
(* ServerPool with fewer slots than connection attempts; the attempts are  *)
(* alike.                                                                  *)
EXTENDS ServerPool, TLC

Alike == Permutations(Connections)
=============================================================================
