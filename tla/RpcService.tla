------------------------------ MODULE RpcService ------------------------------
(***************************************************************************)
(* What an application on the host is promised by naaice_do_data_transfer  *)
(* (lib/naaice.h): a call writes the inputs to the NAA, the kernel runs,   *)
(* and when the call returns the outputs are back.  Calls are numbered and *)
(* made one at a time; the kernel runs exactly once for each; the answer   *)
(* the application finds is the one of its last call.                      *)
(***************************************************************************)
EXTENDS Naturals, Sequences

VARIABLES requested,   \* number of calls made
          busy,        \* the last one has not returned
          runs,        \* the calls the kernel was run for, in order
          answer       \* the call whose results the idle application holds

vars == <<requested, busy, runs, answer>>

Init == requested = 0 /\ busy = FALSE /\ runs = <<>> /\ answer = 0

Request == /\ ~busy
           /\ requested' = requested + 1
           /\ busy' = TRUE
           /\ answer' = 0
           /\ UNCHANGED runs

Execute == /\ busy /\ Len(runs) < requested
           /\ runs' = Append(runs, requested)
           /\ UNCHANGED <<requested, busy, answer>>

Return == /\ busy /\ Len(runs) = requested
          /\ busy' = FALSE
          /\ answer' = requested
          /\ UNCHANGED <<requested, runs>>

Next == Request \/ Execute \/ Return

Spec == Init /\ [][Next]_vars /\ WF_vars(Execute) /\ WF_vars(Return)
===============================================================================
