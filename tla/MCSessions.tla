------------------------------ MODULE MCSessions ------------------------------
(* Values for the constants of Sessions: two blocks, and two NAAs for one  *)
(* function with different numbers of inputs.                              *)
EXTENDS Sessions

CONSTANTS b1, b2, h1, h2

MCSize == [b \in {b1, b2} |-> IF b = b1 THEN 1 ELSE 2]
MCInternal == <<2>>
MCAp1Params == <<b1, b2>>
MCJobSpec == <<[fn_code |-> 256 + 5, param_count |-> 1],
               [fn_code |-> 256 + 5, param_count |-> 2]>>
===============================================================================
