---------------------------- MODULE MCInterrupts ----------------------------
(* Instances of Interrupts for TLC.                                        *)
EXTENDS Interrupts

\* everything, everything but the channels of group 5, nothing
AllOrNothing == {0..9, {}}

\* what FI and the operator load: nothing, or the memory's own request
NoMemOrNone == {{}, {INT_NO_MEM}}

NoRequest == {{}}
=============================================================================
