------------------------------ MODULE MCMultix ------------------------------
(* Instances of Multix for TLC.                                            *)
EXTENDS Multix

\* a list of the code holds 1024: more than any queue of these instances
Ample == 20

\* Every command is answered once, and the status words say what the line is doing
\* (mx_line_cmd_dispatch() and the protocols' ends).
AnswersSound == TypeOK /\ OneAnswerEach /\ StatusTells
=============================================================================
