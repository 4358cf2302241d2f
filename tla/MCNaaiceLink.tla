----------------------------- MODULE MCNaaiceLink -----------------------------
(* Values for the constants of NaaiceLink: three regions, of which the     *)
(* first is written once, the second is input and output in place, and the *)
(* third is output only.                                                   *)
EXTENDS NaaiceLink

MCInputs == <<1, 2>>
MCRepeatInputs == <<2>>
MCOutputs == <<2, 3>>
MCOneOutput == <<2>>
===============================================================================
