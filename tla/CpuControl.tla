----------------------------- MODULE CpuControl -----------------------------
(***************************************************************************)
(* The run-state machine of the emulated processor and everything that     *)
(* drives it: the CPU thread (cpu_loop in src/cpu/cpu.c), the control      *)
(* panel called from the front-end's thread (src/cp/cp.c), the timer       *)
(* thread (src/cpu/clock.c), one I/O thread raising channel interrupts,    *)
(* and power on/off (cpu_init, cpu_shutdown, em400_shutdown).              *)
(*                                                                         *)
(* A section the code runs under cpu_wake_mutex is one step.  An int_set() *)
(* from another thread is two: the atomic OR into rz, then the signal      *)
(* given under the mutex by cpu_wake_up().  The CPU thread's own int_set() *)
(* is one step, for nobody but that thread ever waits on cpu_wake_cond.    *)
(*                                                                         *)
(* Instructions are abstracted to what they do to the control state: the   *)
(* skip flag p, the pre-modification counter mc, the mask rm, the requests *)
(* rz, and HLT, MCL, CRON and MD themselves.  Memory accesses may fail at  *)
(* any time.  Registers and memory contents belong to other modules.       *)
(***************************************************************************)
EXTENDS Naturals

CONSTANTS
  SpeedReal,    \* host timing is not EM400_TIMING_NONE: WAIT polls, never sleeps
  NomemStop,    \* machine->cpu.nomem_stop
  ModPresent,   \* machine->cpu.mod
  Keys,         \* the panel operations the operator uses
  Instrs,       \* the instruction classes the program executes
  MemFails,     \* whether memory may refuse an access
  RmValues,     \* interrupt masks a program or the operator loads into SR
  RzValues,     \* requests the operator loads into the non-channel part of RZ
  DevInts       \* interrupt numbers of the channels present

KeyNames == { "start", "stop", "lock", "unlock", "clock", "cycle", "bin",
              "load", "store", "fetch", "clear", "oprq", "regload", "refresh",
              "power" }

InstrNames == { "plain", "skip", "setmask", "softint", "hlt", "mcl", "cron",
                "md", "illegal", "jumpnef" }

INT_NO_MEM == 2
INT_CLOCK == 5
INT_ILLEGAL_INSTRUCTION == 6
INT_EXTRA == 11
INT_OPRQ == 28
INT_SOFT_U == 30
INT_SOFT_L == 31

Chan == 12..27
NChan == (0..31) \ Chan

ASSUME CpuControlAssumption ==
  /\ SpeedReal \in BOOLEAN /\ NomemStop \in BOOLEAN /\ ModPresent \in BOOLEAN
  /\ MemFails \in BOOLEAN
  /\ Keys \subseteq KeyNames
  /\ Instrs \subseteq InstrNames
  /\ RmValues \subseteq SUBSET (0..9)
  /\ RzValues \subseteq SUBSET NChan
  /\ DevInts \subseteq Chan

VARIABLES
  cpu_state,      \* the atomic shared by all threads
  brk_hit,        \* a breakpoint hit is being reported
  rALARM,
  start_switch, lock_switch, clock_switch, clock_latch,
  rz, rm,         \* interrupt requests; mask groups enabled (gives int_xmask)
  p, mc,          \* skip flag; pre-modification counter
  clock_int,      \* interrupt the timer raises
  cpu_pc,         \* where the CPU thread is
  ui_pc,          \* where the front-end's thread is
  clk_pc,         \* where the timer thread is
  dev_pc          \* where the I/O thread is

panel == <<start_switch, lock_switch, clock_switch, clock_latch>>
shared == <<cpu_state, brk_hit, rALARM>>
ints == <<rz, rm>>
flow == <<p, mc>>
others == <<ui_pc, clk_pc, dev_pc>>
vars == <<cpu_state, brk_hit, rALARM, start_switch, lock_switch, clock_switch,
          clock_latch, rz, rm, p, mc, clock_int, cpu_pc, ui_pc, clk_pc, dev_pc>>

States == { "RUN", "STOP", "WAIT", "CLO", "OFF", "CYCLE", "BIN", "LOAD",
            "STORE", "FETCH" }

CpuPcs == { "none", "top", "cycle", "run", "serve", "exec", "brk", "brk_stop",
            "mcl", "mcl_ints", "clear", "clear_ints", "clear_stop",
            "bin", "bin_io", "bin_end", "load", "load_end",
            "store", "store_end", "fetch", "fetch_end",
            "stop_check", "stop_blocked", "wait_check", "wait_blocked",
            "wait_run", "exited" }

UiPcs == { "idle", "stop", "wake", "sd_stop", "sd_io", "sd_off", "sd_join",
           "sd_zero", "sd_clock" }

TypeOK ==
  /\ cpu_state \in States
  /\ brk_hit \in BOOLEAN /\ rALARM \in BOOLEAN
  /\ start_switch \in BOOLEAN /\ lock_switch \in BOOLEAN
  /\ clock_switch \in BOOLEAN /\ clock_latch \in BOOLEAN
  /\ rz \in SUBSET (0..31) /\ rm \in SUBSET (0..9)
  /\ p \in BOOLEAN /\ mc \in 0..3
  /\ clock_int \in {INT_CLOCK, INT_EXTRA}
  /\ cpu_pc \in CpuPcs
  /\ ui_pc \in UiPcs
  /\ clk_pc \in {"off", "idle", "armed", "wake"}
  /\ dev_pc \in {"off", "idle", "wake"}

-----------------------------------------------------------------------------
(* Interrupt masks (src/cpu/interrupts.c).                                 *)

\* int_rm2xmask: the RM group that gates an interrupt; 0 is non-maskable
Group(i) == CASE i = 1 -> 0 [] i = 2 -> 1 [] i = 3 -> 2 [] i = 4 -> 3
              [] i \in 5..11 -> 4 [] i \in 12..13 -> 5 [] i \in 14..15 -> 6
              [] i \in 16..21 -> 7 [] i \in 22..27 -> 8 [] OTHER -> 9

Enabled(i) == i = 0 \/ Group(i) \in rm

\* int_int2mask: what serving an interrupt leaves enabled
MaskAfter(i) == {g \in rm : i # 0 /\ g < Group(i)}

int_pending == \E i \in rz : Enabled(i)

cpu_irq_ready == int_pending /\ ~p /\ mc = 0

cpu_should_idle ==
  \/ cpu_state = "STOP"
  \/ cpu_state = "WAIT" /\ ~cpu_irq_ready

-----------------------------------------------------------------------------
(* The wake-up protocol.                                                   *)

Blocked == cpu_pc \in {"stop_blocked", "wait_blocked"}

\* Mutant of Signalled: the signal is forgotten for a CPU sleeping in HLT.
SignalledNotInWait == IF cpu_pc = "stop_blocked" THEN "stop_check" ELSE cpu_pc

\* pthread_cond_signal on cpu_wake_cond: the waiter evaluates its condition
\* again once it holds the mutex
Signalled == CASE cpu_pc = "stop_blocked" -> "stop_check"
               [] cpu_pc = "wait_blocked" -> "wait_check"
               [] OTHER -> cpu_pc

\* Mutant of StateVars: only RUN invalidates the last breakpoint hit.
StateVarsRunOnly(to) ==
  /\ cpu_state' = to
  /\ brk_hit' = (brk_hit /\ to # "RUN")

\* a change of state, and what it does to the last breakpoint hit
StateVars(to) ==
  /\ cpu_state' = to
  /\ brk_hit' = (brk_hit /\ to \notin {"RUN", "CYCLE", "CLO"})

\* cpu_state_change() called from the front-end's thread
UiStateChange(to, from) ==
  IF from = "ANY" \/ cpu_state = from
  THEN StateVars(to) /\ cpu_pc' = Signalled
  ELSE UNCHANGED <<cpu_state, brk_hit, cpu_pc>>

\* cpu_state_change() called from the CPU thread
CpuStateChange(to, from) ==
  IF from = "ANY" \/ cpu_state = from
  THEN StateVars(to)
  ELSE UNCHANGED <<cpu_state, brk_hit>>

-----------------------------------------------------------------------------
(* CPU thread: cpu_loop().                                                 *)

CpuGoto(from, to) == cpu_pc = from /\ cpu_pc' = to

cpu_mod_active == clock_int = INT_EXTRA

\* cpu_mem_fail(): barnb is TRUE for an access to the user's memory block
MemFail(barnb) ==
  /\ MemFails
  /\ rz' = rz \cup {INT_NO_MEM}
  /\ rALARM' = (rALARM \/ ~barnb)
  /\ IF ~barnb /\ NomemStop
     THEN CpuStateChange("STOP", "ANY")
     ELSE UNCHANGED <<cpu_state, brk_hit>>

\* cpu_do_load(): only SR and RZ touch the control state
DoLoad(requests) ==
  \/ rz' = requests /\ UNCHANGED rm
  \/ rz' = requests /\ rm' \in RmValues
  \/ \E v \in RzValues : rz' = (requests \cap Chan) \cup v /\ UNCHANGED rm

\* the switch at the head of the loop: where the thread goes from here
Dispatch ==
  CASE cpu_state = "CYCLE" -> "cycle"
    [] cpu_state = "RUN"   -> "run"
    [] cpu_state = "OFF"   -> "exited"
    [] cpu_state = "CLO"   -> "clear"
    [] cpu_state = "BIN"   -> "bin"
    [] cpu_state = "LOAD"  -> "load"
    [] cpu_state = "STORE" -> "store"
    [] cpu_state = "FETCH" -> "fetch"
    [] cpu_state = "STOP"  -> "stop_check"
    [] cpu_state = "WAIT"  -> IF ~SpeedReal THEN "wait_check"
                              ELSE IF cpu_irq_ready THEN "wait_run" ELSE "top"

Top ==
  /\ CpuGoto("top", Dispatch)
  /\ UNCHANGED <<shared, panel, ints, flow, clock_int, others>>

\* CYCLE: back to STOP first, then one pass through the RUN case
Cycle ==
  /\ CpuGoto("cycle", "run")
  /\ CpuStateChange("STOP", "ANY")
  /\ UNCHANGED <<rALARM, panel, ints, flow, clock_int, others>>

Run ==
  /\ CpuGoto("run", IF cpu_irq_ready THEN "serve" ELSE "exec")
  /\ UNCHANGED <<shared, panel, ints, flow, clock_int, others>>

\* the interrupt int_serve() takes: the lowest-numbered enabled request
Highest(i) == i \in rz /\ Enabled(i) /\ \A j \in rz : Enabled(j) => i <= j

\* int_serve(): the request may have been withdrawn since cpu_irq_ready(); a
\* failed access to the vector or to the stack leaves the mask as it was
Serve ==
  /\ CpuGoto("serve", "top")
  /\ \/ /\ ~int_pending
        /\ UNCHANGED <<shared, ints>>
     \/ \E i \in rz :
          /\ Highest(i)
          /\ \/ /\ rz' = rz \ {i}
                /\ rm' = {g \in MaskAfter(i) :
                            (cpu_mod_active /\ i \in Chan) => g < 4}
                /\ UNCHANGED shared
             \/ /\ MemFails
                /\ rz' = (rz \ {i}) \cup {INT_NO_MEM}
                /\ rALARM' = TRUE
                /\ IF NomemStop THEN CpuStateChange("STOP", "ANY")
                                ELSE UNCHANGED <<cpu_state, brk_hit>>
                /\ UNCHANGED rm
  /\ UNCHANGED <<panel, flow, clock_int, others>>

\* cpu_do_cycle(): an access fails and the instruction goes on regardless
ExecMemFail ==
  /\ cpu_pc = "exec"
  /\ \E barnb \in BOOLEAN : MemFail(barnb)
  /\ UNCHANGED <<cpu_pc, rm, panel, flow, clock_int, others>>

\* the handler at P2: skipped, conditionally ineffective or illegal
Ineffective ==
  /\ CpuGoto("exec", "brk")
  /\ \/ p /\ UNCHANGED rz
     \/ ~p /\ "jumpnef" \in Instrs /\ UNCHANGED rz
     \/ ~p /\ ("illegal" \in Instrs \/ ("md" \in Instrs /\ mc = 3))
           /\ rz' = rz \cup {INT_ILLEGAL_INSTRUCTION}
  /\ p' = FALSE /\ mc' = 0
  /\ UNCHANGED <<shared, rm, panel, clock_int, others>>

\* Mutant of EffectiveMc: HLT leaves a pending pre-modification alone.
EffectiveMcKept(i) == IF i = "md" THEN mc + 1 ELSE mc

\* every effective instruction but MD ends a pre-modification
EffectiveMc(i) == IF i = "md" THEN mc + 1 ELSE 0

\* Mutant of MdAllowed: pre-modifications are not counted to three.
MdAllowedAlways(i) == TRUE

\* a fourth MD in a row is illegal
MdAllowed(i) == i = "md" => mc < 3

\* op->fun(): what an effective instruction does to the control state
Effective(i) ==
  /\ i \in Instrs \ {"illegal", "jumpnef", "mcl"}
  /\ CpuGoto("exec", "brk")
  /\ ~p
  /\ MdAllowed(i)
  /\ mc' = EffectiveMc(i)
  /\ p' = (i = "skip")
  /\ rm' \in IF i = "setmask" THEN RmValues ELSE {rm}
  /\ CASE i = "cron" -> rz' = rz \cup {INT_ILLEGAL_INSTRUCTION}
       [] i = "softint" -> rz' \in {rz \ {INT_SOFT_U, INT_SOFT_L}, rz \cup {INT_SOFT_L},
                                    rz \cup {INT_SOFT_U}, rz \cup {INT_SOFT_U, INT_SOFT_L}}
       [] OTHER -> UNCHANGED rz
  /\ clock_int' = IF i = "cron" /\ ModPresent THEN INT_EXTRA ELSE clock_int
  /\ IF i = "hlt" THEN CpuStateChange("WAIT", "ANY") ELSE UNCHANGED <<cpu_state, brk_hit>>
  /\ UNCHANGED <<rALARM, panel, others>>

\* op_73_mcl() entering cpu_do_clear(false)
Mcl ==
  /\ "mcl" \in Instrs /\ ~p
  /\ CpuGoto("exec", "mcl")
  /\ mc' = 0
  /\ UNCHANGED <<shared, p, ints, panel, clock_int, others>>

\* brk_check() after the instruction
BrkCheck ==
  /\ \/ CpuGoto("brk", "top") /\ UNCHANGED brk_hit
     \/ CpuGoto("brk", "brk_stop") /\ brk_hit' = TRUE
  /\ UNCHANGED <<cpu_state, rALARM, panel, ints, flow, clock_int, others>>

BrkStop ==
  /\ CpuGoto("brk_stop", "top")
  /\ CpuStateChange("STOP", "ANY")
  /\ UNCHANGED <<rALARM, panel, ints, flow, clock_int, others>>

\* cpu_do_clear(): I/O and memory are reset (io_reset returns), then the
\* registers, then the requests
ClearRegs ==
  /\ CpuGoto("clear", "clear_ints") \/ CpuGoto("mcl", "mcl_ints")
  /\ clock_int' = INT_CLOCK
  /\ mc' = 0 /\ p' = FALSE /\ rm' = {}
  /\ UNCHANGED <<shared, rz, panel, others>>

ClearInts ==
  /\ CpuGoto("clear_ints", "clear_stop") \/ CpuGoto("mcl_ints", "brk")
  /\ rz' = {}
  /\ rALARM' = (rALARM /\ cpu_pc # "clear_ints")
  /\ UNCHANGED <<cpu_state, brk_hit, rm, panel, flow, clock_int, others>>

ClearStop ==
  /\ CpuGoto("clear_stop", "top")
  /\ CpuStateChange("STOP", "ANY")
  /\ UNCHANGED <<rALARM, panel, ints, flow, clock_int, others>>

\* Mutant of BinStates: the load is only abandoned by OFF.
BinStatesNoClear == {"OFF"}

\* the states that make cpu_do_bin() give up at K1
BinStates == {"CLO", "OFF"}

BinK1 ==
  /\ CpuGoto("bin", IF cpu_state \in BinStates THEN "bin_end" ELSE "bin_io")
  /\ UNCHANGED <<shared, panel, ints, flow, clock_int, others>>

\* one character: end byte, part of a word, or a complete word to store
BinIo ==
  /\ \/ CpuGoto("bin_io", "bin_end") /\ UNCHANGED shared /\ rz' = rz \ Chan
     \/ CpuGoto("bin_io", "bin") /\ UNCHANGED shared /\ rz' = rz \ Chan
     \/ /\ CpuGoto("bin_io", "bin")
        /\ MemFails
        /\ rz' = (rz \ Chan) \cup {INT_NO_MEM}
        /\ \E barnb \in BOOLEAN :
             /\ rALARM' = (rALARM \/ ~barnb)
             /\ IF ~barnb /\ NomemStop THEN CpuStateChange("STOP", "ANY")
                                       ELSE UNCHANGED <<cpu_state, brk_hit>>
  /\ UNCHANGED <<rm, panel, flow, clock_int, others>>

\* LOAD: the keys go to the selected register
LoadKey ==
  /\ CpuGoto("load", "load_end")
  /\ DoLoad(rz)
  /\ UNCHANGED <<shared, panel, flow, clock_int, others>>

StoreKey ==
  /\ CpuGoto("store", "store_end")
  /\ MemFail(FALSE) \/ UNCHANGED <<shared, rz>>
  /\ UNCHANGED <<rm, panel, flow, clock_int, others>>

FetchKey ==
  /\ CpuGoto("fetch", "fetch_end")
  /\ \/ UNCHANGED shared /\ DoLoad(rz)
     \/ /\ MemFails
        /\ DoLoad(rz \cup {INT_NO_MEM})
        /\ rALARM' = TRUE
        /\ IF NomemStop THEN CpuStateChange("STOP", "ANY")
                        ELSE UNCHANGED <<cpu_state, brk_hit>>
  /\ UNCHANGED <<panel, flow, clock_int, others>>

EndPcs == {"bin_end", "load_end", "store_end", "fetch_end"}

\* Mutant of EndedState: a finished function key stops the machine whatever
\* was asked of it meanwhile.
EndedStateAny == "ANY"

\* the state from which a finished BIN, LOAD, STORE or FETCH goes back to STOP
EndedState == CASE cpu_pc = "bin_end" -> "BIN" [] cpu_pc = "load_end" -> "LOAD"
                [] cpu_pc = "store_end" -> "STORE" [] OTHER -> "FETCH"

KeyEnd ==
  /\ \E pc \in EndPcs : CpuGoto(pc, "top")
  /\ CpuStateChange("STOP", EndedState)
  /\ UNCHANGED <<rALARM, panel, ints, flow, clock_int, others>>

\* cpu_do_wait(): the condition is evaluated and the wait entered under the mutex
WaitCheck ==
  /\ \/ CpuGoto("stop_check", IF cpu_should_idle THEN "stop_blocked" ELSE "top")
     \/ CpuGoto("wait_check", IF cpu_should_idle THEN "wait_blocked" ELSE "wait_run")
  /\ UNCHANGED <<shared, panel, ints, flow, clock_int, others>>

\* pthread_cond_wait() may return for no reason
SpuriousWakeup ==
  /\ Blocked
  /\ cpu_pc' = Signalled
  /\ UNCHANGED <<shared, panel, ints, flow, clock_int, others>>

\* Mutant of WaitRun: leaving WAIT does not look at the state it leaves.
WaitRunAny ==
  /\ CpuGoto("wait_run", "top")
  /\ CpuStateChange("RUN", "ANY")
  /\ UNCHANGED <<rALARM, panel, ints, flow, clock_int, others>>

WaitRun ==
  /\ CpuGoto("wait_run", "top")
  /\ CpuStateChange("RUN", "WAIT")
  /\ UNCHANGED <<rALARM, panel, ints, flow, clock_int, others>>

CpuStep ==
  \/ Top \/ Cycle \/ Run \/ Serve
  \/ ExecMemFail \/ Ineffective \/ (\E i \in InstrNames : Effective(i)) \/ Mcl
  \/ BrkCheck \/ BrkStop
  \/ ClearRegs \/ ClearInts \/ ClearStop
  \/ BinK1 \/ BinIo \/ LoadKey \/ StoreKey \/ FetchKey \/ KeyEnd
  \/ WaitCheck \/ WaitRun

-----------------------------------------------------------------------------
(* Front-end's thread: the control panel.                                  *)

Ready(key) == key \in Keys /\ ui_pc = "idle"

Off == cpu_state = "OFF"

\* Mutant of NotLocked: the key switch is not looked at.
NotLockedNever == ~Off

\* what most keys check first
NotLocked == ~Off /\ ~lock_switch

\* cp_start(true)
CpStart ==
  /\ Ready("start")
  /\ start_switch' = TRUE
  /\ IF NotLocked THEN UiStateChange("RUN", "STOP")
                  ELSE UNCHANGED <<cpu_state, brk_hit, cpu_pc>>
  /\ UNCHANGED <<rALARM, lock_switch, clock_switch, clock_latch, ints, flow, clock_int, others>>

\* cp_start(false): the alarm first, then (StopSwitch) the state
CpStop ==
  /\ Ready("stop")
  /\ start_switch' = FALSE
  /\ IF NotLocked THEN rALARM' = FALSE /\ ui_pc' = "stop"
                  ELSE UNCHANGED <<rALARM, ui_pc>>
  /\ UNCHANGED <<cpu_state, brk_hit, lock_switch, clock_switch, clock_latch, ints, flow,
                 clock_int, cpu_pc, clk_pc, dev_pc>>

StopSwitch ==
  /\ \/ ui_pc = "stop" /\ ui_pc' = "idle"
     \/ ui_pc = "sd_stop" /\ ui_pc' = "sd_io"
  /\ UiStateChange("STOP", "ANY")
  /\ UNCHANGED <<rALARM, panel, ints, flow, clock_int, clk_pc, dev_pc>>

CpLock ==
  /\ Ready("lock")
  /\ lock_switch' = (lock_switch \/ ~Off)
  /\ UNCHANGED <<shared, start_switch, clock_switch, clock_latch, ints, flow, clock_int,
                 cpu_pc, others>>

\* Mutant of Unlocking: the latch keeps the value it had while locked.
UnlockingLatchKept(stopping, done) ==
  /\ lock_switch' = FALSE
  /\ IF lock_switch /\ ~start_switch
     THEN rALARM' = FALSE /\ ui_pc' = stopping
     ELSE ui_pc' = done /\ UNCHANGED rALARM
  /\ UNCHANGED clock_latch

\* cp_lock_set(false) on a powered machine: a START switch found off stops it
Unlocking(stopping, done) ==
  /\ lock_switch' = FALSE
  /\ clock_latch' = IF lock_switch THEN clock_switch ELSE clock_latch
  /\ IF lock_switch /\ ~start_switch
     THEN rALARM' = FALSE /\ ui_pc' = stopping
     ELSE ui_pc' = done /\ UNCHANGED rALARM

CpUnlock ==
  /\ Ready("unlock")
  /\ ~Off
  /\ Unlocking("stop", "idle")
  /\ UNCHANGED <<cpu_state, brk_hit, start_switch, clock_switch, ints, flow, clock_int,
                 cpu_pc, clk_pc, dev_pc>>

CpClockSet ==
  /\ Ready("clock")
  /\ \E on \in BOOLEAN :
       /\ clock_switch' = on
       /\ clock_latch' = IF lock_switch THEN clock_latch ELSE on
  /\ UNCHANGED <<shared, start_switch, lock_switch, ints, flow, clock_int, cpu_pc, others>>

\* cp_cycle, cp_bin, cp_load, cp_store, cp_fetch: only a stopped CPU obeys
FunctionKeys == { <<"cycle", "CYCLE">>, <<"bin", "BIN">>, <<"load", "LOAD">>,
                  <<"store", "STORE">>, <<"fetch", "FETCH">> }

CpFunction ==
  /\ \E k \in FunctionKeys : Ready(k[1]) /\ ~lock_switch /\ UiStateChange(k[2], "STOP")
  /\ UNCHANGED <<rALARM, panel, ints, flow, clock_int, others>>

CpClear ==
  /\ Ready("clear")
  /\ NotLocked
  /\ UiStateChange("CLO", "ANY")
  /\ UNCHANGED <<rALARM, panel, ints, flow, clock_int, others>>

\* int_set(INT_OPRQ)
CpOprq ==
  /\ Ready("oprq")
  /\ ~Off
  /\ rz' = rz \cup {INT_OPRQ}
  /\ ui_pc' = "wake"
  /\ UNCHANGED <<shared, panel, rm, flow, clock_int, cpu_pc, clk_pc, dev_pc>>

\* cpu_wake_up() ending int_set() in the front-end's thread
UiWake ==
  /\ ui_pc = "wake" /\ ui_pc' = "idle"
  /\ cpu_pc' = Signalled
  /\ UNCHANGED <<shared, panel, ints, flow, clock_int, clk_pc, dev_pc>>

\* cpu_reg_load(): SR, RZ or another register of a stopped CPU
CpuRegLoad ==
  /\ Ready("regload")
  /\ cpu_state = "STOP"
  /\ DoLoad(rz)
  /\ cpu_pc' = Signalled
  /\ UNCHANGED <<shared, panel, flow, clock_int, others>>

\* cp_kb_set(), cp_reg_select(): the W lights are refreshed by waking the CPU
WRefresh ==
  /\ Ready("refresh")
  /\ ~Off
  /\ cpu_pc' = Signalled
  /\ UNCHANGED <<shared, panel, ints, flow, clock_int, others>>

-----------------------------------------------------------------------------
(* Power.                                                                  *)

\* registers and flags at power-on (cpu_init) and after power-off (cpu_shutdown)
ClearedCpu ==
  /\ rALARM' = FALSE /\ mc' = 0
  /\ rm' = {} /\ rz' = {}

\* em400_init(): cpu_init() starts the timer and the CPU, then I/O comes up
PowerOn ==
  /\ Ready("power")
  /\ cpu_pc = "none"
  /\ ClearedCpu
  /\ clock_int' = INT_CLOCK
  /\ cpu_state' = IF start_switch THEN "RUN" ELSE "STOP"
  /\ cpu_pc' = "top" /\ clk_pc' = "idle" /\ dev_pc' = "idle"
  /\ UNCHANGED <<brk_hit, panel, p, ui_pc>>

\* cpu_init() failing once cpu_state is set: no thread is there to run
PowerOnFails ==
  /\ Ready("power")
  /\ cpu_pc = "none"
  /\ ClearedCpu
  /\ clock_int' = INT_CLOCK
  /\ cpu_state' = IF start_switch THEN "RUN" ELSE "STOP"
  /\ UNCHANGED <<brk_hit, panel, p, cpu_pc, others>>

\* em400_shutdown(): the panel is unlocked first
Shutdown ==
  /\ Ready("power")
  /\ cpu_pc # "none"
  /\ IF Off THEN ui_pc' = "sd_io" /\ UNCHANGED <<rALARM, lock_switch, clock_latch>>
            ELSE Unlocking("sd_stop", "sd_io")
  /\ UNCHANGED <<cpu_state, brk_hit, start_switch, clock_switch, ints, flow, clock_int,
                 cpu_pc, clk_pc, dev_pc>>

\* io_shutdown(): the I/O thread is joined
ShutdownIo ==
  /\ ui_pc = "sd_io" /\ ui_pc' = "sd_off"
  /\ dev_pc = "idle" /\ dev_pc' = "off"
  /\ UNCHANGED <<shared, panel, ints, flow, clock_int, cpu_pc, clk_pc>>

\* cpu_shutdown(): OFF is set and the CPU thread joined
ShutdownCpu ==
  /\ ui_pc = "sd_off" /\ ui_pc' = "sd_join"
  /\ UiStateChange("OFF", "ANY")
  /\ UNCHANGED <<rALARM, panel, ints, flow, clock_int, clk_pc, dev_pc>>

ShutdownJoin ==
  /\ ui_pc = "sd_join" /\ ui_pc' = "sd_zero"
  /\ cpu_pc = "exited" /\ cpu_pc' = "none"
  /\ UNCHANGED <<shared, panel, ints, flow, clock_int, clk_pc, dev_pc>>

ShutdownZero ==
  /\ ui_pc = "sd_zero" /\ ui_pc' = "sd_clock"
  /\ ClearedCpu /\ p' = FALSE
  /\ UNCHANGED <<cpu_state, brk_hit, panel, clock_int, cpu_pc, clk_pc, dev_pc>>

\* clock_shutdown() joins the timer; brk_del_all() forgets the hit
ShutdownClock ==
  /\ ui_pc = "sd_clock" /\ ui_pc' = "idle"
  /\ clk_pc = "idle" /\ clk_pc' = "off"
  /\ brk_hit' = FALSE
  /\ UNCHANGED <<cpu_state, rALARM, panel, ints, flow, clock_int, cpu_pc, dev_pc>>

UiContinue ==
  StopSwitch \/ UiWake \/ ShutdownIo \/ ShutdownCpu \/ ShutdownJoin
             \/ ShutdownZero \/ ShutdownClock

UiStep ==
  \/ CpStart \/ CpStop \/ CpLock \/ CpUnlock \/ CpClockSet \/ CpFunction
  \/ CpClear \/ CpOprq \/ CpuRegLoad \/ WRefresh
  \/ PowerOn \/ PowerOnFails \/ Shutdown
  \/ UiContinue

-----------------------------------------------------------------------------
(* The timer thread and the I/O thread.                                    *)

\* a tick: cp_clock_get()
ClockTick ==
  /\ clk_pc = "idle" /\ clk_pc' = "armed"
  /\ clock_latch /\ ~Off
  /\ UNCHANGED <<shared, panel, ints, flow, clock_int, cpu_pc, ui_pc, dev_pc>>

ClockSet ==
  /\ clk_pc = "armed" /\ clk_pc' = "wake"
  /\ rz' = rz \cup {clock_int}
  /\ UNCHANGED <<shared, panel, rm, flow, clock_int, cpu_pc, ui_pc, dev_pc>>

ClockWake ==
  /\ clk_pc = "wake" /\ clk_pc' = "idle"
  /\ cpu_pc' = Signalled
  /\ UNCHANGED <<shared, panel, ints, flow, clock_int, ui_pc, dev_pc>>

\* io_int_set() from a channel or a device
DevSet ==
  /\ dev_pc = "idle" /\ dev_pc' = "wake"
  /\ \E i \in DevInts : rz' = rz \cup {i}
  /\ UNCHANGED <<shared, panel, rm, flow, clock_int, cpu_pc, ui_pc, clk_pc>>

DevWake ==
  /\ dev_pc = "wake" /\ dev_pc' = "idle"
  /\ cpu_pc' = Signalled
  /\ UNCHANGED <<shared, panel, ints, flow, clock_int, ui_pc, clk_pc>>

-----------------------------------------------------------------------------
Init ==
  /\ cpu_state = "OFF" /\ brk_hit = FALSE /\ rALARM = FALSE
  /\ start_switch \in BOOLEAN /\ lock_switch = FALSE
  /\ clock_switch = FALSE /\ clock_latch = FALSE
  /\ rz = {} /\ rm = {} /\ p = FALSE /\ mc = 0
  /\ clock_int = INT_CLOCK
  /\ cpu_pc = "none" /\ ui_pc = "idle" /\ clk_pc = "off" /\ dev_pc = "off"

Next ==
  \/ CpuStep \/ SpuriousWakeup \/ UiStep
  \/ ClockTick \/ ClockSet \/ ClockWake \/ DevSet \/ DevWake

Spec == Init /\ [][Next]_vars

\* Every thread goes on with what it has begun.  The operator, the devices, the
\* timer's period and spurious wake-ups are under no obligation.
Fairness ==
  /\ WF_vars(CpuStep) /\ WF_vars(UiContinue)
  /\ WF_vars(ClockSet) /\ WF_vars(ClockWake) /\ WF_vars(DevWake)

FairSpec == Spec /\ Fairness

-----------------------------------------------------------------------------
(* Properties.                                                             *)

\* A thread has changed rz and has yet to signal the CPU.
SignalComing == ui_pc = "wake" \/ clk_pc = "wake" \/ dev_pc = "wake"

\* No lost wake-up: a CPU asleep on cpu_wake_cond has a reason to be, or the
\* thread that took the reason away has its signal still to give (int_set,
\* cpu_wake_up, cpu_state_change, cpu_do_wait).
NoLostWakeup == Blocked /\ ~SignalComing => cpu_should_idle

\* A halted CPU can be woken: WAIT is never entered, or kept, with the skip
\* flag or a pre-modification pending, which would mask every interrupt for
\* ever (op_73_hlt, cpu_irq_ready).
WaitIsWakeable == cpu_state = "WAIT" => ~p /\ mc = 0

\* "the last breakpoint hit is valid only while stopped on it" (cpu.c:242):
\* once the CPU thread has reported it, no running state coexists with it.
HitWhileStopped ==
  brk_hit /\ cpu_pc # "brk_stop" =>
    cpu_state \in {"STOP", "BIN", "LOAD", "STORE", "FETCH", "OFF"}

\* An unlocked panel's CLOCK latch is its switch, through every order of
\* locking, unlocking, switching and power cycles (cp_lock_set, cp_clock_set).
LatchFollowsSwitch == ~lock_switch => clock_latch = clock_switch

\* While the panel is locked only the CPU thread, or a power-on, moves the state
\* machine: the guards of cp.c leave no way round the key, and power-off unlocks
\* the panel before it switches the CPU off.
LockedPanelIsDead ==
  [][lock_switch /\ cpu_state' # cpu_state => CpuStep \/ cpu_pc = "none"]_vars

\* Where the CPU thread replaces cpu_state without looking at it: CYCLE, HLT, a
\* breakpoint, the end of a CLEAR and, on nomem_stop machines, a failed access.
AnyPcs == {"cycle", "exec", "brk_stop", "clear_stop"}
            \cup (IF NomemStop THEN {"serve", "bin_io", "store", "fetch"} ELSE {})

\* STOP, CLEAR and OFF asked of the CPU survive the CPU thread completing what
\* it was doing (a function key, a wake-up from HLT): the completion is
\* conditional on the state it completes (the "from" of cpu_state_change).
RequestsKept ==
  [][CpuStep /\ cpu_state \in {"STOP", "CLO", "OFF"} /\ cpu_pc \notin AnyPcs
       => cpu_state' = cpu_state]_vars

\* HLT ends: an enabled interrupt requested of a waiting CPU gets it going,
\* unless the operator moves it elsewhere first.
HltEnds == (cpu_state = "WAIT" /\ cpu_irq_ready) ~> (cpu_state # "WAIT")

\* The thread may reach one of AnyPcs before it looks at cpu_state again.
Committed == AnyPcs \cup {"run", "serve", "brk", "mcl", "mcl_ints", "clear", "clear_ints"}

\* Power-off completes: an OFF that finds the CPU thread asleep, halted, between
\* instructions or in a binary load that never ends gets the thread joined.
OffHonoured ==
  (cpu_state = "OFF" /\ ui_pc = "sd_join" /\ cpu_pc \notin Committed)
    ~> (cpu_pc = "none")

\* "allow emulation to break free from failed loads with CLEAR, honor OFF"
\* (cpu.c:467): a binary load does not outlive them.
BinBreaksFree ==
  (cpu_pc \in {"bin", "bin_io"} /\ cpu_state \in {"CLO", "OFF"})
    ~> (cpu_pc \notin {"bin", "bin_io"})

\* START moved to STOP stops the machine (cp.c:77): what stopped it is not
\* undone by the program.
ProgramLeavesStop == [][cpu_state = "STOP" => cpu_state' # "WAIT"]_vars

\* "machine powered off: zero the register file, flags and interrupts so reads
\* through the library seam return 0" (cpu.c:397).
PoweredOffReadsZero ==
  cpu_pc = "none" /\ ui_pc = "idle" => rz = {} /\ rm = {} /\ ~rALARM /\ ~p /\ mc = 0
=============================================================================
