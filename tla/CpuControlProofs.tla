-------------------------- MODULE CpuControlProofs --------------------------
(***************************************************************************)
(* What CpuControl guarantees for every configuration: any keys, any       *)
(* program, any set of channels, either timing mode.                       *)
(***************************************************************************)
EXTENDS CpuControl, TLAPS

\* A CPU thread that finds WAIT in cpu_state put it there with its last
\* instruction and has run none since.
WaitPlaces ==
  cpu_state = "WAIT" =>
    cpu_pc \in {"brk", "brk_stop", "top", "wait_check", "wait_blocked", "wait_run"}

\* Nowhere on the way from a running state back to brk_check() is a hit left.
HitPlaces ==
  brk_hit => cpu_pc \notin {"cycle", "run", "serve", "exec", "brk", "mcl", "mcl_ints",
                            "clear", "clear_ints", "clear_stop",
                            "wait_check", "wait_blocked", "wait_run"}

\* A machine without a CPU thread reports no hit once brk_del_all() has run.
NoHitWhenOff == brk_hit /\ cpu_pc = "none" => ui_pc \in {"sd_zero", "sd_clock"}

\* The registers are zeroed, and the timer joined, after the CPU thread.
JoinedFirst == ui_pc \in {"sd_zero", "sd_clock"} => cpu_pc = "none"

\* Only a shutdown in progress leaves a powered machine in OFF.
OffInShutdown ==
  cpu_state = "OFF" => cpu_pc = "none" \/ ui_pc \in {"sd_join", "sd_zero", "sd_clock"}

\* The front-end sets STOP or OFF with the panel unlocked.
UnlockedFirst ==
  ui_pc \in {"stop", "sd_stop", "sd_io", "sd_off", "sd_join", "sd_zero", "sd_clock"}
    => ~lock_switch

-----------------------------------------------------------------------------
(* Types.                                                                  *)

TypePlaces ==
  /\ cpu_state \in States /\ cpu_pc \in CpuPcs /\ ui_pc \in UiPcs
  /\ clk_pc \in {"off", "idle", "armed", "wake"}
  /\ dev_pc \in {"off", "idle", "wake"}

\* The state machine and the threads' places keep their type.
LEMMA TypePlacesStep == TypePlaces /\ [Next]_vars => TypePlaces'
<1> SUFFICES ASSUME TypePlaces, [Next]_vars PROVE TypePlaces'
  OBVIOUS
<1> USE DEF TypePlaces, CpuPcs, UiPcs, States, Signalled, MemFail, Dispatch, EndPcs,
            Unlocking, FunctionKeys, CpuGoto, StateVars, CpuStateChange, UiStateChange,
            shared, panel, flow, others, ints, vars
<1>1. CASE Top \/ Cycle \/ Run \/ Serve
  BY <1>1 DEF Top, Cycle, Run, Serve
<1>2. CASE ExecMemFail \/ Ineffective \/ (\E i \in InstrNames : Effective(i)) \/ Mcl
  BY <1>2 DEF ExecMemFail, Ineffective, Effective, Mcl
<1>3. CASE BrkCheck \/ BrkStop \/ ClearRegs \/ ClearInts \/ ClearStop
  BY <1>3 DEF BrkCheck, BrkStop, ClearRegs, ClearInts, ClearStop
<1>4. CASE BinK1 \/ BinIo
  BY <1>4 DEF BinK1, BinIo
<1>5. CASE LoadKey \/ StoreKey \/ FetchKey \/ KeyEnd
  BY <1>5 DEF LoadKey, StoreKey, FetchKey, KeyEnd
<1>6. CASE WaitCheck \/ WaitRun \/ SpuriousWakeup
  BY <1>6 DEF WaitCheck, WaitRun, SpuriousWakeup
<1>7. CASE CpStart \/ CpStop \/ CpFunction \/ CpClear \/ StopSwitch
  BY <1>7 DEF CpStart, CpStop, CpFunction, CpClear, StopSwitch
<1>8. CASE CpLock \/ CpUnlock \/ CpClockSet
  BY <1>8 DEF CpLock, CpUnlock, CpClockSet
<1>9. CASE CpOprq \/ UiWake \/ CpuRegLoad \/ WRefresh
  BY <1>9 DEF CpOprq, UiWake, CpuRegLoad, WRefresh
<1>10. CASE PowerOn \/ PowerOnFails \/ Shutdown
  BY <1>10 DEF PowerOn, PowerOnFails, Shutdown
<1>11. CASE ShutdownIo \/ ShutdownCpu \/ ShutdownJoin \/ ShutdownZero \/ ShutdownClock
  BY <1>11 DEF ShutdownIo, ShutdownCpu, ShutdownJoin, ShutdownZero, ShutdownClock
<1>12. CASE ClockTick \/ ClockSet \/ ClockWake \/ DevSet \/ DevWake
  BY <1>12 DEF ClockTick, ClockSet, ClockWake, DevSet, DevWake
<1>13. CASE UNCHANGED vars
  BY <1>13
<1> QED
  BY <1>1, <1>2, <1>3, <1>4, <1>5, <1>6, <1>7, <1>8, <1>9, <1>10, <1>11, <1>12,
     <1>13 DEF Next, CpuStep, UiStep, UiContinue

TypeFlags ==
  /\ brk_hit \in BOOLEAN /\ rALARM \in BOOLEAN
  /\ start_switch \in BOOLEAN /\ lock_switch \in BOOLEAN
  /\ clock_switch \in BOOLEAN /\ clock_latch \in BOOLEAN
  /\ p \in BOOLEAN

\* The flags and switches keep their type.
LEMMA TypeFlagsStep == TypeFlags /\ [Next]_vars => TypeFlags'
<1> SUFFICES ASSUME TypeFlags, [Next]_vars PROVE TypeFlags'
  OBVIOUS
<1> USE DEF TypeFlags, MemFail, Unlocking, ClearedCpu, CpuGoto, StateVars, CpuStateChange,
            UiStateChange, shared, panel, flow, others, ints, vars
<1>1. CASE Top \/ Cycle \/ Run \/ Serve
  BY <1>1 DEF Top, Cycle, Run, Serve
<1>2. CASE ExecMemFail \/ Ineffective \/ (\E i \in InstrNames : Effective(i)) \/ Mcl
  <2>1. CASE ExecMemFail
    BY <2>1 DEF ExecMemFail
  <2>2. CASE Ineffective
    BY <2>2 DEF Ineffective
  <2>3. ASSUME NEW i \in InstrNames, Effective(i) PROVE TypeFlags'
    BY <2>3 DEF Effective
  <2>4. CASE Mcl
    BY <2>4 DEF Mcl
  <2> QED
    BY <1>2, <2>1, <2>2, <2>3, <2>4
<1>3. CASE BrkCheck \/ BrkStop \/ ClearRegs \/ ClearInts \/ ClearStop
  BY <1>3 DEF BrkCheck, BrkStop, ClearRegs, ClearInts, ClearStop
<1>4. CASE BinK1 \/ BinIo
  BY <1>4 DEF BinK1, BinIo
<1>5. CASE LoadKey \/ StoreKey \/ FetchKey \/ KeyEnd
  BY <1>5 DEF LoadKey, StoreKey, FetchKey, KeyEnd
<1>6. CASE WaitCheck \/ WaitRun \/ SpuriousWakeup
  BY <1>6 DEF WaitCheck, WaitRun, SpuriousWakeup
<1>7. CASE CpStart \/ CpStop \/ CpFunction \/ CpClear \/ StopSwitch
  BY <1>7 DEF CpStart, CpStop, CpFunction, CpClear, StopSwitch
<1>8. CASE CpLock \/ CpUnlock \/ CpClockSet
  BY <1>8 DEF CpLock, CpUnlock, CpClockSet
<1>9. CASE CpOprq \/ UiWake \/ CpuRegLoad \/ WRefresh
  BY <1>9 DEF CpOprq, UiWake, CpuRegLoad, WRefresh
<1>10. CASE PowerOn \/ PowerOnFails \/ Shutdown
  BY <1>10 DEF PowerOn, PowerOnFails, Shutdown
<1>11. CASE ShutdownIo \/ ShutdownCpu \/ ShutdownJoin \/ ShutdownZero \/ ShutdownClock
  BY <1>11 DEF ShutdownIo, ShutdownCpu, ShutdownJoin, ShutdownZero, ShutdownClock
<1>12. CASE ClockTick \/ ClockSet \/ ClockWake \/ DevSet \/ DevWake
  BY <1>12 DEF ClockTick, ClockSet, ClockWake, DevSet, DevWake
<1>13. CASE UNCHANGED vars
  BY <1>13
<1> QED
  BY <1>1, <1>2, <1>3, <1>4, <1>5, <1>6, <1>7, <1>8, <1>9, <1>10, <1>11, <1>12,
     <1>13 DEF Next, CpuStep, UiStep, UiContinue

TypeInts ==
  /\ rz \in SUBSET (0..31) /\ rm \in SUBSET (0..9)
  /\ mc \in 0..3 /\ clock_int \in {INT_CLOCK, INT_EXTRA}

LEMMA IntNumbers ==
  {INT_NO_MEM, INT_CLOCK, INT_ILLEGAL_INSTRUCTION, INT_EXTRA, INT_OPRQ, INT_SOFT_U, INT_SOFT_L}
    \subseteq 0..31
  BY DEF INT_NO_MEM, INT_CLOCK, INT_ILLEGAL_INSTRUCTION, INT_EXTRA, INT_OPRQ, INT_SOFT_U, INT_SOFT_L

\* whatever an operator or a failed access puts in rz or rm is of the right type
LEMMA DoLoadType ==
  ASSUME TypeInts, NEW requests \in SUBSET (0..31), DoLoad(requests)
  PROVE  rz' \in SUBSET (0..31) /\ rm' \in SUBSET (0..9)
  BY CpuControlAssumption DEF TypeInts, DoLoad, NChan

LEMMA TypeIntsStep == TypeInts /\ [Next]_vars => TypeInts'
<1> SUFFICES ASSUME TypeInts, [Next]_vars PROVE TypeInts'
  OBVIOUS
<1> USE IntNumbers DEF TypeInts, ints, flow, MemFail, ClearedCpu
<1>1. ASSUME UNCHANGED <<rz, rm, mc, clock_int>> PROVE TypeInts'
  BY <1>1
<1>2. CASE Top \/ Cycle \/ Run \/ BrkCheck \/ BrkStop \/ ClearStop \/ BinK1
  BY <1>1, <1>2 DEF Top, Cycle, Run, BrkCheck, BrkStop, ClearStop, BinK1
<1>3. CASE Serve
  <2>1. clock_int' \in {INT_CLOCK, INT_EXTRA} /\ mc' \in 0..3
    BY <1>3 DEF Serve
  <2>2. rz' \in SUBSET (0..31)
    BY <1>3 DEF Serve
  <2>3. rm' \in SUBSET (0..9)
    BY <1>3 DEF Serve, MaskAfter
  <2> QED BY <2>1, <2>2, <2>3
<1>4. CASE ExecMemFail
  BY <1>4 DEF ExecMemFail
<1>5. CASE Ineffective
  <2>1. rm' = rm /\ clock_int' = clock_int /\ mc' \in 0..3
    BY <1>5 DEF Ineffective
  <2>2. rz' = rz \/ rz' = rz \cup {INT_ILLEGAL_INSTRUCTION}
    BY <1>5 DEF Ineffective
  <2> QED BY <2>1, <2>2
<1>6. ASSUME NEW i \in InstrNames, Effective(i) PROVE TypeInts'
  BY <1>6, CpuControlAssumption DEF Effective, EffectiveMc, MdAllowed
<1>7. CASE Mcl \/ ClearRegs \/ ClearInts
  <2>1. clock_int' \in {INT_CLOCK, INT_EXTRA} /\ mc' \in 0..3
    BY <1>7 DEF Mcl, ClearRegs, ClearInts
  <2>2. rz' \in SUBSET (0..31) /\ rm' \in SUBSET (0..9)
    BY <1>7 DEF Mcl, ClearRegs, ClearInts
  <2> QED BY <2>1, <2>2
<1>8. CASE BinIo
  <2>1. rm' = rm /\ clock_int' = clock_int /\ mc' = mc
    BY <1>8 DEF BinIo
  <2>2. rz' = rz \ Chan \/ rz' = (rz \ Chan) \cup {INT_NO_MEM}
    BY <1>8 DEF BinIo
  <2> QED BY <2>1, <2>2
<1>9. CASE LoadKey \/ CpuRegLoad
  BY <1>9, DoLoadType DEF LoadKey, CpuRegLoad
<1>10. CASE StoreKey
  <2>1. rm' = rm /\ clock_int' = clock_int /\ mc' = mc
    BY <1>10 DEF StoreKey
  <2>2. rz' = rz \/ rz' = rz \cup {INT_NO_MEM}
    BY <1>10 DEF StoreKey
  <2> QED BY <2>1, <2>2
<1>11. CASE FetchKey
  <2>1. clock_int' = clock_int /\ mc' = mc
    BY <1>11 DEF FetchKey
  <2>2. DoLoad(rz) \/ DoLoad(rz \cup {INT_NO_MEM})
    BY <1>11 DEF FetchKey
  <2>3. rz \cup {INT_NO_MEM} \in SUBSET (0..31)
    OBVIOUS
  <2> QED BY <2>1, <2>2, <2>3, DoLoadType
<1>12. CASE KeyEnd \/ WaitCheck \/ WaitRun \/ SpuriousWakeup
  BY <1>1, <1>12 DEF KeyEnd, WaitCheck, WaitRun, SpuriousWakeup
<1>13. CASE CpStart \/ CpStop \/ CpFunction \/ CpClear \/ StopSwitch \/ CpLock \/ CpUnlock
              \/ CpClockSet \/ UiWake \/ WRefresh \/ Shutdown \/ ShutdownIo \/ ShutdownCpu
              \/ ShutdownJoin \/ ShutdownClock \/ ClockTick \/ ClockWake \/ DevWake
  BY <1>1, <1>13 DEF CpStart, CpStop, CpFunction, CpClear, StopSwitch, CpLock, CpUnlock,
                     CpClockSet, UiWake, WRefresh, Shutdown, ShutdownIo, ShutdownCpu,
                     ShutdownJoin, ShutdownClock, ClockTick, ClockWake, DevWake
<1>14. CASE CpOprq \/ ClockSet
  BY <1>14 DEF CpOprq, ClockSet
<1>15. CASE DevSet
  BY <1>15, CpuControlAssumption DEF DevSet, Chan
<1>16. CASE PowerOn \/ PowerOnFails \/ ShutdownZero
  BY <1>16 DEF PowerOn, PowerOnFails, ShutdownZero
<1>17. CASE UNCHANGED vars
  BY <1>1, <1>17 DEF vars
<1> QED
  BY <1>2, <1>3, <1>4, <1>5, <1>6, <1>7, <1>8, <1>9, <1>10, <1>11, <1>12, <1>13, <1>14,
     <1>15, <1>16, <1>17 DEF Next, CpuStep, UiStep, UiContinue

LEMMA TypeStep == TypeOK /\ [Next]_vars => TypeOK'
<1>1. TypeOK <=> TypePlaces /\ TypeFlags /\ TypeInts
  BY DEF TypeOK, TypePlaces, TypeFlags, TypeInts
<1>2. TypeOK' <=> TypePlaces' /\ TypeFlags' /\ TypeInts'
  BY DEF TypeOK, TypePlaces, TypeFlags, TypeInts
<1> QED
  BY <1>1, <1>2, TypePlacesStep, TypeFlagsStep, TypeIntsStep

-----------------------------------------------------------------------------
(* The parts of the inductive invariant.                                   *)

WaitInv == WaitPlaces /\ WaitIsWakeable

\* Only op_73_hlt() sets WAIT, and it runs with p and mc cleared.
LEMMA WaitInvStep == TypeOK /\ WaitInv /\ [Next]_vars => WaitInv'
<1> SUFFICES ASSUME TypeOK, WaitInv, [Next]_vars PROVE WaitInv'
  OBVIOUS
<1> USE DEF TypeOK, WaitInv, WaitPlaces, WaitIsWakeable, Signalled, MemFail, Dispatch,
            EffectiveMc, EndPcs, Unlocking, FunctionKeys, ClearedCpu, States, CpuGoto,
            StateVars, CpuStateChange, UiStateChange, shared, panel, flow, others, ints,
            vars
<1>1. CASE Top \/ Cycle \/ Run \/ Serve
  BY <1>1 DEF Top, Cycle, Run, Serve
<1>2. CASE ExecMemFail \/ Ineffective \/ (\E i \in InstrNames : Effective(i)) \/ Mcl
  BY <1>2 DEF ExecMemFail, Ineffective, Effective, Mcl
<1>3. CASE BrkCheck \/ BrkStop \/ ClearRegs \/ ClearInts \/ ClearStop
  BY <1>3 DEF BrkCheck, BrkStop, ClearRegs, ClearInts, ClearStop
<1>4. CASE BinK1 \/ BinIo
  BY <1>4 DEF BinK1, BinIo
<1>5. CASE LoadKey \/ StoreKey \/ FetchKey \/ KeyEnd
  BY <1>5 DEF LoadKey, StoreKey, FetchKey, KeyEnd
<1>6. CASE WaitCheck \/ WaitRun \/ SpuriousWakeup
  BY <1>6 DEF WaitCheck, WaitRun, SpuriousWakeup
<1>7. CASE CpStart \/ CpStop \/ CpFunction \/ CpClear \/ StopSwitch
  BY <1>7 DEF CpStart, CpStop, CpFunction, CpClear, StopSwitch
<1>8. CASE CpLock \/ CpUnlock \/ CpClockSet
  BY <1>8 DEF CpLock, CpUnlock, CpClockSet
<1>9. CASE CpOprq \/ UiWake \/ CpuRegLoad \/ WRefresh
  BY <1>9 DEF CpOprq, UiWake, CpuRegLoad, WRefresh
<1>10. CASE PowerOn \/ PowerOnFails \/ Shutdown
  BY <1>10 DEF PowerOn, PowerOnFails, Shutdown
<1>11. CASE ShutdownIo \/ ShutdownCpu \/ ShutdownJoin \/ ShutdownZero \/ ShutdownClock
  BY <1>11 DEF ShutdownIo, ShutdownCpu, ShutdownJoin, ShutdownZero, ShutdownClock
<1>12. CASE ClockTick \/ ClockSet \/ ClockWake \/ DevSet \/ DevWake
  BY <1>12 DEF ClockTick, ClockSet, ClockWake, DevSet, DevWake
<1>13. CASE UNCHANGED vars
  BY <1>13
<1> QED
  BY <1>1, <1>2, <1>3, <1>4, <1>5, <1>6, <1>7, <1>8, <1>9, <1>10, <1>11, <1>12,
     <1>13 DEF Next, CpuStep, UiStep, UiContinue

HitInv == HitPlaces /\ NoHitWhenOff /\ HitWhileStopped

\* RUN, CYCLE and CLO clear the hit, and brk_check() is reached through them alone.
LEMMA HitInvStep == TypeOK /\ HitInv /\ JoinedFirst /\ [Next]_vars => HitInv'
<1> SUFFICES ASSUME TypeOK, HitInv, JoinedFirst, [Next]_vars PROVE HitInv'
  OBVIOUS
<1> USE DEF TypeOK, HitInv, JoinedFirst, HitPlaces, NoHitWhenOff, HitWhileStopped, Ready,
            Signalled, MemFail, Dispatch, EffectiveMc, EndPcs, EndedState, BinStates,
            Unlocking, FunctionKeys, ClearedCpu, States, CpuGoto, StateVars,
            CpuStateChange, UiStateChange, shared, panel, flow, others, ints, vars
<1>1. CASE Top \/ Cycle \/ Run \/ Serve
  BY <1>1 DEF Top, Cycle, Run, Serve
<1>2. CASE ExecMemFail \/ Ineffective \/ (\E i \in InstrNames : Effective(i)) \/ Mcl
  BY <1>2 DEF ExecMemFail, Ineffective, Effective, Mcl
<1>3. CASE BrkCheck \/ BrkStop \/ ClearRegs \/ ClearInts \/ ClearStop
  BY <1>3 DEF BrkCheck, BrkStop, ClearRegs, ClearInts, ClearStop
<1>4. CASE BinK1 \/ BinIo
  BY <1>4 DEF BinK1, BinIo
<1>5. CASE LoadKey \/ StoreKey \/ FetchKey \/ KeyEnd
  BY <1>5 DEF LoadKey, StoreKey, FetchKey, KeyEnd
<1>6. CASE WaitCheck \/ WaitRun \/ SpuriousWakeup
  BY <1>6 DEF WaitCheck, WaitRun, SpuriousWakeup
<1>7. CASE CpStart
  BY <1>7 DEF CpStart
<1>8. CASE CpStop
  BY <1>8 DEF CpStop
<1>9. CASE CpFunction
  BY <1>9 DEF CpFunction
<1>10. CASE CpClear
  BY <1>10 DEF CpClear
<1>11. CASE StopSwitch
  BY <1>11 DEF StopSwitch
<1>12. CASE CpLock \/ CpUnlock \/ CpClockSet
  BY <1>12 DEF CpLock, CpUnlock, CpClockSet
<1>13. CASE CpOprq \/ UiWake \/ CpuRegLoad \/ WRefresh
  BY <1>13 DEF CpOprq, UiWake, CpuRegLoad, WRefresh
<1>14. CASE PowerOn \/ PowerOnFails \/ Shutdown
  BY <1>14 DEF PowerOn, PowerOnFails, Shutdown
<1>15. CASE ShutdownIo \/ ShutdownCpu \/ ShutdownJoin \/ ShutdownZero \/ ShutdownClock
  BY <1>15 DEF ShutdownIo, ShutdownCpu, ShutdownJoin, ShutdownZero, ShutdownClock
<1>16. CASE ClockTick \/ ClockSet \/ ClockWake \/ DevSet \/ DevWake
  BY <1>16 DEF ClockTick, ClockSet, ClockWake, DevSet, DevWake
<1>17. CASE UNCHANGED vars
  BY <1>17
<1> QED
  BY <1>1, <1>2, <1>3, <1>4, <1>5, <1>6, <1>7, <1>8, <1>9, <1>10, <1>11, <1>12, <1>13,
     <1>14, <1>15, <1>16,
     <1>17 DEF Next, CpuStep, UiStep, UiContinue

PowerInv == JoinedFirst /\ OffInShutdown /\ UnlockedFirst /\ LatchFollowsSwitch

\* The order of em400_shutdown(): unlock, OFF, join the CPU, then the timer.
LEMMA PowerInvStep == TypeOK /\ PowerInv /\ [Next]_vars => PowerInv'
<1> SUFFICES ASSUME TypeOK, PowerInv, [Next]_vars PROVE PowerInv'
  OBVIOUS
<1> USE DEF TypeOK, PowerInv, JoinedFirst, OffInShutdown, UnlockedFirst,
            LatchFollowsSwitch, Ready, Off, NotLocked, Signalled, MemFail, Dispatch,
            EffectiveMc, EndPcs, EndedState, BinStates, Unlocking, FunctionKeys,
            ClearedCpu, States, CpuGoto, StateVars, CpuStateChange, UiStateChange, shared,
            panel, flow, others, ints, vars
<1>1. CASE Top \/ Cycle \/ Run \/ Serve
  BY <1>1 DEF Top, Cycle, Run, Serve
<1>2. CASE ExecMemFail \/ Ineffective \/ (\E i \in InstrNames : Effective(i)) \/ Mcl
  BY <1>2 DEF ExecMemFail, Ineffective, Effective, Mcl
<1>3. CASE BrkCheck \/ BrkStop \/ ClearRegs \/ ClearInts \/ ClearStop
  BY <1>3 DEF BrkCheck, BrkStop, ClearRegs, ClearInts, ClearStop
<1>4. CASE BinK1 \/ BinIo
  BY <1>4 DEF BinK1, BinIo
<1>5. CASE LoadKey \/ StoreKey \/ FetchKey \/ KeyEnd
  BY <1>5 DEF LoadKey, StoreKey, FetchKey, KeyEnd
<1>6. CASE WaitCheck \/ WaitRun \/ SpuriousWakeup
  BY <1>6 DEF WaitCheck, WaitRun, SpuriousWakeup
<1>7. CASE CpStart \/ CpStop \/ CpFunction \/ CpClear \/ StopSwitch
  BY <1>7 DEF CpStart, CpStop, CpFunction, CpClear, StopSwitch
<1>8. CASE CpLock \/ CpUnlock \/ CpClockSet
  BY <1>8 DEF CpLock, CpUnlock, CpClockSet
<1>9. CASE CpOprq \/ UiWake \/ CpuRegLoad \/ WRefresh
  BY <1>9 DEF CpOprq, UiWake, CpuRegLoad, WRefresh
<1>10. CASE PowerOn \/ PowerOnFails \/ Shutdown
  BY <1>10 DEF PowerOn, PowerOnFails, Shutdown
<1>11. CASE ShutdownIo \/ ShutdownCpu \/ ShutdownJoin \/ ShutdownZero \/ ShutdownClock
  BY <1>11 DEF ShutdownIo, ShutdownCpu, ShutdownJoin, ShutdownZero, ShutdownClock
<1>12. CASE ClockTick \/ ClockSet \/ ClockWake \/ DevSet \/ DevWake
  BY <1>12 DEF ClockTick, ClockSet, ClockWake, DevSet, DevWake
<1>13. CASE UNCHANGED vars
  BY <1>13
<1> QED
  BY <1>1, <1>2, <1>3, <1>4, <1>5, <1>6, <1>7, <1>8, <1>9, <1>10, <1>11, <1>12,
     <1>13 DEF Next, CpuStep, UiStep, UiContinue

\* Every step that takes away a sleeping CPU's reason to sleep signals it, or is
\* followed by its thread's signal.
LEMMA NoLostWakeupStep == TypeOK /\ NoLostWakeup /\ PowerInv /\ [Next]_vars => NoLostWakeup'
<1> SUFFICES ASSUME TypeOK, NoLostWakeup, PowerInv, [Next]_vars PROVE NoLostWakeup'
  OBVIOUS
<1> USE DEF TypeOK, PowerInv, JoinedFirst, NoLostWakeup, Blocked, SignalComing,
            cpu_should_idle, cpu_irq_ready, int_pending, Enabled, Ready, Off, NotLocked,
            Signalled, MemFail, Dispatch, EffectiveMc, EndPcs, EndedState, BinStates,
            Unlocking, FunctionKeys, ClearedCpu, States, CpuGoto, StateVars,
            CpuStateChange, UiStateChange, shared, panel, flow, others, ints, vars
<1>1. CASE Top \/ Cycle \/ Run \/ Serve
  BY <1>1 DEF Top, Cycle, Run, Serve
<1>2. CASE ExecMemFail \/ Ineffective \/ (\E i \in InstrNames : Effective(i)) \/ Mcl
  BY <1>2 DEF ExecMemFail, Ineffective, Effective, Mcl
<1>3. CASE BrkCheck \/ BrkStop \/ ClearRegs \/ ClearInts \/ ClearStop
  BY <1>3 DEF BrkCheck, BrkStop, ClearRegs, ClearInts, ClearStop
<1>4. CASE BinK1 \/ BinIo
  BY <1>4 DEF BinK1, BinIo
<1>5. CASE LoadKey \/ StoreKey \/ FetchKey \/ KeyEnd
  BY <1>5 DEF LoadKey, StoreKey, FetchKey, KeyEnd
<1>6. CASE WaitCheck \/ WaitRun \/ SpuriousWakeup
  BY <1>6 DEF WaitCheck, WaitRun, SpuriousWakeup
<1>7. CASE CpStart \/ CpStop \/ CpFunction \/ CpClear \/ StopSwitch
  BY <1>7 DEF CpStart, CpStop, CpFunction, CpClear, StopSwitch
<1>8. CASE CpLock \/ CpUnlock \/ CpClockSet
  BY <1>8 DEF CpLock, CpUnlock, CpClockSet
<1>9. CASE CpOprq \/ UiWake \/ CpuRegLoad \/ WRefresh
  BY <1>9 DEF CpOprq, UiWake, CpuRegLoad, WRefresh
<1>10. CASE PowerOn \/ PowerOnFails \/ Shutdown
  BY <1>10 DEF PowerOn, PowerOnFails, Shutdown
<1>11. CASE ShutdownIo \/ ShutdownCpu \/ ShutdownJoin \/ ShutdownZero \/ ShutdownClock
  BY <1>11 DEF ShutdownIo, ShutdownCpu, ShutdownJoin, ShutdownZero, ShutdownClock
<1>12. CASE ClockTick \/ ClockSet \/ ClockWake \/ DevSet \/ DevWake
  BY <1>12 DEF ClockTick, ClockSet, ClockWake, DevSet, DevWake
<1>13. CASE UNCHANGED vars
  BY <1>13
<1> QED
  BY <1>1, <1>2, <1>3, <1>4, <1>5, <1>6, <1>7, <1>8, <1>9, <1>10, <1>11, <1>12,
     <1>13 DEF Next, CpuStep, UiStep, UiContinue

-----------------------------------------------------------------------------
(* Theorems.                                                               *)

IInv == TypeOK /\ PowerInv /\ WaitInv /\ HitInv /\ NoLostWakeup

LEMMA InitIInv == Init => IInv
<1> SUFFICES ASSUME Init PROVE IInv
  OBVIOUS
<1>1. TypeOK
  <2>1. TypePlaces
    BY DEF Init, TypePlaces, CpuPcs, UiPcs, States
  <2>2. TypeFlags
    BY DEF Init, TypeFlags
  <2>3. TypeInts
    BY DEF Init, TypeInts, INT_CLOCK, INT_EXTRA
  <2> QED
    BY <2>1, <2>2, <2>3 DEF TypeOK, TypePlaces, TypeFlags, TypeInts
<1>2. PowerInv /\ WaitInv /\ HitInv /\ NoLostWakeup
  BY DEF Init, PowerInv, JoinedFirst, OffInShutdown, UnlockedFirst, LatchFollowsSwitch,
         WaitInv, WaitPlaces, WaitIsWakeable, HitInv, HitPlaces, NoHitWhenOff,
         HitWhileStopped, NoLostWakeup, Blocked
<1> QED
  BY <1>1, <1>2 DEF IInv

LEMMA NextIInv == IInv /\ [Next]_vars => IInv'
  BY TypeStep, PowerInvStep, WaitInvStep, HitInvStep, NoLostWakeupStep
     DEF IInv, PowerInv

LEMMA Inductive == Spec => []IInv
  BY InitIInv, NextIInv, PTL DEF Spec

\* Every reachable state is well-typed.
THEOREM TypeCorrect == Spec => []TypeOK
<1>1. IInv => TypeOK
  BY DEF IInv
<1> QED
  BY <1>1, Inductive, PTL

\* No interleaving of int_set(), cpu_state_change() and cpu_do_wait() loses a wake-up.
THEOREM WakeupsNotLost == Spec => []NoLostWakeup
<1>1. IInv => NoLostWakeup
  BY DEF IInv
<1> QED
  BY <1>1, Inductive, PTL

\* A CPU in WAIT has neither p nor mc set, so an enabled interrupt can end it.
THEOREM HaltedIsWakeable == Spec => []WaitIsWakeable
<1>1. IInv => WaitIsWakeable
  BY DEF IInv, WaitInv
<1> QED
  BY <1>1, Inductive, PTL

\* A breakpoint hit is reported only on a machine it has stopped.
THEOREM HitIsOfStopped == Spec => []HitWhileStopped
<1>1. IInv => HitWhileStopped
  BY DEF IInv, HitInv
<1> QED
  BY <1>1, Inductive, PTL

\* The CLOCK latch of an unlocked panel is its switch.
THEOREM LatchIsSwitch == Spec => []LatchFollowsSwitch
<1>1. IInv => LatchFollowsSwitch
  BY DEF IInv, PowerInv
<1> QED
  BY <1>1, Inductive, PTL

\* A locked panel moves nothing: every state change under the key is the CPU
\* thread's own, or a power-on.
THEOREM LockedPanel == Spec => LockedPanelIsDead
<1>1. ASSUME IInv, [Next]_vars, lock_switch, cpu_state' # cpu_state
      PROVE  CpuStep \/ cpu_pc = "none"
  <2> USE <1>1 DEF IInv, PowerInv, UnlockedFirst, shared, panel, vars
  <2>1. CASE SpuriousWakeup \/ UiWake \/ ShutdownIo \/ ShutdownJoin \/ ShutdownZero
               \/ ShutdownClock \/ ClockTick \/ ClockSet \/ ClockWake \/ DevSet \/ DevWake
    BY <2>1 DEF SpuriousWakeup, UiWake, ShutdownIo, ShutdownJoin, ShutdownZero,
                ShutdownClock, ClockTick, ClockSet, ClockWake, DevSet, DevWake
  <2>2. CASE CpStart \/ CpFunction \/ CpClear
    BY <2>2 DEF CpStart, CpFunction, CpClear, NotLocked
  <2>3. CASE StopSwitch \/ ShutdownCpu
    BY <2>3 DEF StopSwitch, ShutdownCpu
  <2>4. CASE CpStop \/ CpLock \/ CpUnlock \/ CpClockSet \/ CpOprq \/ CpuRegLoad \/ WRefresh
               \/ Shutdown
    BY <2>4 DEF CpStop, CpLock, CpUnlock, CpClockSet, CpOprq, CpuRegLoad, WRefresh, Shutdown
  <2>5. CASE PowerOn \/ PowerOnFails
    BY <2>5 DEF PowerOn, PowerOnFails
  <2> QED
    BY <2>1, <2>2, <2>3, <2>4, <2>5 DEF Next, UiStep, UiContinue
<1> QED
  BY <1>1, Inductive, PTL DEF Spec, LockedPanelIsDead

\* What the CPU thread completes does not undo a STOP, CLEAR or OFF given meanwhile.
THEOREM RequestsSurvive == Spec => RequestsKept
<1>1. ASSUME [Next]_vars, CpuStep, cpu_state \in {"STOP", "CLO", "OFF"}, cpu_pc \notin AnyPcs
      PROVE  cpu_state' = cpu_state
  <2> USE <1>1 DEF AnyPcs, CpuGoto, CpuStateChange, shared
  <2>1. CASE Top \/ Run \/ BrkCheck \/ ClearRegs \/ ClearInts \/ BinK1 \/ LoadKey \/ WaitCheck
    BY <2>1 DEF Top, Run, BrkCheck, ClearRegs, ClearInts, BinK1, LoadKey, WaitCheck
  <2>2. CASE Cycle \/ ExecMemFail \/ Ineffective \/ (\E i \in InstrNames : Effective(i))
               \/ Mcl \/ BrkStop \/ ClearStop
    BY <2>2 DEF Cycle, ExecMemFail, Ineffective, Effective, Mcl, BrkStop, ClearStop
  <2>3. CASE Serve \/ BinIo \/ StoreKey \/ FetchKey
    BY <2>3 DEF Serve, BinIo, StoreKey, FetchKey, MemFail
  <2>4. CASE KeyEnd \/ WaitRun
    BY <2>4 DEF KeyEnd, EndPcs, EndedState, WaitRun
  <2> QED
    BY <2>1, <2>2, <2>3, <2>4 DEF CpuStep
<1> QED
  BY <1>1, PTL DEF Spec, RequestsKept
=============================================================================
