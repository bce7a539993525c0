------------------------------ MODULE MCServed ------------------------------
(* What is raised gets served, at both ends of the line: a behaviour is one of *)
(* the CPU's interrupt system or one of a character channel with its units.    *)
(* Fairness is that of the two modules, for the part that runs.                *)
EXTENDS MCInterrupts, CChar

VARIABLE part
servedVars == <<part, vars, ccharVars>>

Cpu == part = "cpu" /\ Next /\ UNCHANGED <<part, ccharVars>>
Channel == part = "channel" /\ CCharNext /\ UNCHANGED <<part, vars>>

ServedNext == Cpu \/ Channel
Stays == UNCHANGED <<part, vars>>

ServedInit == part \in {"cpu", "channel"} /\ Init /\ CCharInit

ServedSpec ==
  /\ ServedInit
  /\ [][ServedNext]_servedVars
  /\ WF_servedVars(part = "cpu" /\ CpuStep /\ UNCHANGED <<part, ccharVars>>)
  /\ WF_servedVars(LoopTrigger /\ Stays)
  /\ WF_servedVars(CpuTrigger /\ Stays)
  /\ WF_servedVars(Cancel /\ Stays)
  /\ SF_servedVars(CpuTakes /\ Stays)
  /\ WF_servedVars(IntSpec /\ cpu_pc = "ask" /\ Stays)
=============================================================================
