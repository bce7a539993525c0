------------------------------- MODULE CChar --------------------------------
(***************************************************************************)
(* A character channel (src/io/cchar/cchar.c): up to eight controllers     *)
(* ("units") share one interrupt of the CPU.  The channel reports one unit *)
(* at a time; the CPU asks which one and why, and the channel goes on to   *)
(* the next in turn.                                                       *)
(*                                                                         *)
(* Two threads meet here: the I/O loop, in which the units raise, and the  *)
(* CPU, which asks, cancels and resets.  A step is a section guarded by    *)
(* int_mutex or by a unit's own mutex.  The units are abstract: lines[u]   *)
(* is what unit u has to report, most urgent first in the order of numbers.*)
(* UzDat, UzFx and Meclo extend this module with units of their own.       *)
(***************************************************************************)
EXTENDS Integers, FiniteSets

CONSTANTS
  NUnits,       \* CCHAR_MAX_DEVICES
  Units,        \* the places of the channel that have a unit
  Reasons,      \* what a unit can report
  Clearing,     \* units whose reset takes their interrupts back (uzfx_reset())
  MaxResets     \* bound: resets of the channel

None == -1      \* NO_INTERRUPT_REPORTED

ASSUME CCharAssumption ==
  /\ NUnits \in Nat \ {0} /\ Units \subseteq 0..NUnits - 1
  /\ Reasons \subseteq Nat /\ Clearing \subseteq Units /\ MaxResets \in Nat

VARIABLES
  interrupting_device, last_reported_device,
  lines,        \* intspec or interrupts of each unit
  irq,          \* the channel's bit in the CPU's request word
  loop_pc,      \* the I/O loop: "idle", or "trigger" between raising and reporting
  cpu_pc,       \* the CPU: "idle", "ask" in the handler, "cancel", "trigger", "reset", "clear"
  cpu_unit,     \* the unit in the CPU's hands
  resetting,    \* in cchar_reset()
  resets,
  told,         \* history: the CPU took the interrupt and has not asked since
  left          \* history: units that a reset of the channel left raising

channel == <<interrupting_device, last_reported_device>>
history == <<told, left>>
ccharVars == <<interrupting_device, last_reported_device, lines, irq, loop_pc, cpu_pc,
               cpu_unit, resetting, resets, told, left>>

CCharInit ==
  /\ interrupting_device = None /\ last_reported_device = 0
  /\ lines = [u \in Units |-> {}]
  /\ irq = FALSE /\ loop_pc = "idle" /\ cpu_pc = "idle"
  /\ cpu_unit = 0 /\ resetting = FALSE /\ resets = 0
  /\ told = FALSE /\ left = {}

\* unit->has_interrupt()
HasInterrupt(u) == lines[u] # {}

\* unit->intspec() takes the most urgent
Urgent(s) == CHOOSE i \in s : \A j \in s : i <= j

\* Mutant of ScanFrom: every scan starts at unit 0.
ScanFromZero == NUnits - 1

ScanFrom == last_reported_device

\* the unit that comes first after the one reported last
InTurn ==
  LET at(i) == (ScanFrom + i) % NUnits
      found == {i \in 1..NUnits : at(i) \in Units /\ HasInterrupt(at(i))}
  IN at(CHOOSE i \in found : \A j \in found : i <= j)

Reported(u) == u

(* cchar_int_trigger() *)
Trigger ==
  IF interrupting_device # None \/ \A u \in Units : ~HasInterrupt(u)
  THEN UNCHANGED <<channel, irq, told>>
  ELSE /\ interrupting_device' = InTurn /\ last_reported_device' = Reported(InTurn)
       /\ irq' = TRUE /\ told' = FALSE

(* A unit raises in the loop, then has the channel report. *)
Raising(u, reasons) == /\ loop_pc = "idle" /\ loop_pc' = "trigger"
                       /\ lines' = [lines EXCEPT ![u] = reasons]
                       /\ left' = left \ {u}

Raise(u, r) ==
  /\ Raising(u, lines[u] \cup {r})
  /\ UNCHANGED <<channel, irq, cpu_pc, cpu_unit, resetting, resets, told>>

LoopTrigger ==
  /\ loop_pc = "trigger" /\ loop_pc' = "idle"
  /\ Trigger
  /\ UNCHANGED <<lines, cpu_pc, cpu_unit, resetting, resets, left>>

(* The CPU serves the interrupt; its handler asks for the specification, and a *)
(* program may ask without one.                                                *)
CpuTakes ==
  /\ cpu_pc = "idle" /\ irq
  /\ irq' = FALSE /\ cpu_pc' = "ask" /\ told' = TRUE
  /\ UNCHANGED <<channel, lines, loop_pc, cpu_unit, resetting, resets, left>>

Asked == "trigger"

(* cchar_cmd_intspec() up to its unlock; OUTDATED when the unit has nothing. *)
IntSpec ==
  /\ cpu_pc \in {"idle", "ask"}
  /\ IF interrupting_device = None THEN UNCHANGED lines
     ELSE LET u == interrupting_device
          IN lines' = [lines EXCEPT ![u] = IF @ = {} THEN {} ELSE @ \ {Urgent(@)}]
  /\ interrupting_device' = None
  /\ told' = FALSE
  /\ cpu_pc' = Asked
  /\ UNCHANGED <<last_reported_device, irq, loop_pc, cpu_unit, resetting, resets, left>>

(* The second half of cchar_cmd_intspec() and of cchar_int_cancel(). *)
CpuTrigger ==
  /\ cpu_pc = "trigger"
  /\ cpu_pc' = IF resetting THEN "reset" ELSE "idle"
  /\ cpu_unit' = IF resetting THEN cpu_unit + 1 ELSE 0
  /\ Trigger
  /\ UNCHANGED <<lines, loop_pc, resetting, resets, left>>

(* A unit takes its interrupts back and goes on to cchar_int_cancel(). *)
TakingBack(u) == lines' = [lines EXCEPT ![u] = {}] /\ cpu_pc' = "cancel"

Withdraw(u) ==
  /\ cpu_pc = "idle" /\ u \in Clearing
  /\ TakingBack(u) /\ cpu_unit' = u
  /\ UNCHANGED <<channel, irq, loop_pc, resetting, resets, history>>

(* The first half of cchar_int_cancel(). *)
Cancel ==
  /\ cpu_pc = "cancel" /\ cpu_pc' = "trigger"
  /\ interrupting_device' = IF interrupting_device = cpu_unit THEN None ELSE interrupting_device
  /\ UNCHANGED <<last_reported_device, lines, irq, loop_pc, cpu_unit, resetting, resets, history>>

(* cchar_reset(): the units one after the other, then the report. *)
ChanReset ==
  /\ cpu_pc \in {"idle", "ask"} /\ resets < MaxResets
  /\ cpu_pc' = "reset" /\ cpu_unit' = 0 /\ resetting' = TRUE /\ resets' = resets + 1
  /\ UNCHANGED <<channel, lines, irq, loop_pc, history>>

ResetUnit ==
  /\ cpu_pc = "reset" /\ cpu_unit < NUnits
  /\ IF cpu_unit \in Clearing THEN TakingBack(cpu_unit) /\ UNCHANGED cpu_unit
     ELSE cpu_unit' = cpu_unit + 1 /\ UNCHANGED <<lines, cpu_pc>>
  /\ UNCHANGED <<channel, irq, loop_pc, resetting, resets, history>>

ResetReport ==
  /\ cpu_pc = "reset" /\ cpu_unit = NUnits
  /\ interrupting_device' = None
  /\ left' = {u \in Units : HasInterrupt(u)}
  /\ cpu_pc' = "clear" /\ cpu_unit' = 0 /\ resetting' = FALSE
  /\ UNCHANGED <<last_reported_device, lines, irq, loop_pc, resets, told>>

(* int_clear_all() of cpu_do_clear(), after all channels are reset. *)
ClearRequests ==
  /\ cpu_pc = "clear" /\ cpu_pc' = "idle"
  /\ irq' = FALSE /\ told' = FALSE
  /\ UNCHANGED <<channel, lines, loop_pc, cpu_unit, resetting, resets, left>>

CCharCpu == IntSpec \/ CpuTrigger \/ Cancel \/ ChanReset \/ ResetUnit \/ ResetReport \/ ClearRequests

CCharNext == \/ \E u \in Units, r \in Reasons : Raise(u, r)
        \/ LoopTrigger
        \/ CpuTakes
        \/ \E u \in Units : Withdraw(u)
        \/ CCharCpu

\* the loop ends what it began; a CPU that does not mask the channel serves it
\* between two instructions, so CpuTakes cannot be passed over for ever
CCharFairness == /\ WF_ccharVars(LoopTrigger) /\ WF_ccharVars(CpuTrigger) /\ WF_ccharVars(Cancel)
            /\ SF_ccharVars(CpuTakes) /\ WF_ccharVars(IntSpec /\ cpu_pc = "ask")

CCharSpec == CCharInit /\ [][CCharNext]_ccharVars /\ CCharFairness

(***************************************************************************)
(* Properties                                                              *)
(***************************************************************************)
CCharTypeOK ==
  /\ interrupting_device \in Units \cup {None} /\ last_reported_device \in 0..NUnits - 1
  /\ lines \in [Units -> SUBSET Reasons]
  /\ irq \in BOOLEAN /\ told \in BOOLEAN /\ left \subseteq Units
  /\ loop_pc \in {"idle", "trigger"}
  /\ cpu_pc \in {"idle", "ask", "cancel", "trigger", "reset", "clear"}
  /\ cpu_unit \in 0..NUnits /\ resetting \in BOOLEAN /\ resets \in 0..MaxResets

\* No interrupt of a unit is forgotten by the channel: while one waits, another is
\* reported or somebody is about to look.  Only a reset of the channel may
\* leave one behind (cchar_reset() drops the report and does not look again).
NoneForgotten ==
  (\E u \in Units \ left : HasInterrupt(u)) =>
    \/ interrupting_device # None \/ loop_pc = "trigger"
    \/ cpu_pc \in {"trigger", "cancel", "reset"}

\* A chatty low-numbered unit cannot starve a higher-numbered one (comment in
\* cchar_int_trigger()): what a unit raises is reported or taken back.
NoUnitStarves ==
  \A u \in Units : HasInterrupt(u) ~> (interrupting_device = u \/ ~HasInterrupt(u))

\* A report is known to the CPU: its request is up, or was served and the question
\* has not been asked yet.  Otherwise the channel is silent for good.
ReportedIsSignalled == interrupting_device # None => irq \/ told
=============================================================================
