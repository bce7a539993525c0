---------------------------- MODULE MCCpuControl ----------------------------
(* Instances of CpuControl for model checking. *)
EXTENDS CpuControl

\* a program that opens and closes all interrupts
OpenClosed == {{}, 0..9}

\* the operator empties RZ, or sets a request by hand
RzByHand == {{}, {INT_OPRQ}}
=============================================================================
