----------------------------- MODULE Interrupts -----------------------------
(***************************************************************************)
(* Interrupt requests, masks and context switching of the emulated         *)
(* processor (src/cpu/interrupts.c and the instructions that use it).      *)
(*                                                                         *)
(* rz is lock-free and shared: I/O threads OR bits in, the front-end's     *)
(* thread sets, clears and reloads them, the CPU thread serves them.  Each *)
(* atomic operation on rz is a step; a compare-and-swap loop is a load and *)
(* then an attempt that may have to start over.  The stack of interrupted  *)
(* contexts is in the emulated memory, four words to a frame: IC, R0, SR   *)
(* and the specification.  Any access to it may fail half-way.             *)
(*                                                                         *)
(* Only the CPU thread touches registers and the stack, so what it does    *)
(* with them between two operations on rz is one step.  The skip flag and  *)
(* the pre-modification counter, which forbid interrupts, are the business *)
(* of CpuControl: here the CPU is always ready to take an interrupt        *)
(* between two instructions.  Of SR the mask RM and the user flag Q are    *)
(* kept.                                                                   *)
(***************************************************************************)
EXTENDS Integers, Sequences

CONSTANTS
  DevInts,      \* channel interrupts that the I/O threads raise
  PanelInts,    \* requests that the front-end sets and clears one by one
  SoftInts,     \* requests that programs make themselves
  Masks,        \* masks that programs load into RM
  Requests,     \* non-channel requests that FI and the operator load into RZ
  Locs,         \* program locations
  Handler,      \* where the interrupt vectors and the EXL vector point
  MemFails,     \* whether memory may refuse an access
  CpuMod,       \* cpu_mod_active: modified CPU, channels leave less enabled
  ExlDepth,     \* bound: contexts below which programs still use EXL
  MaxDepth      \* bound: frames the stack has room for

INT_NO_MEM == 2
INT_CLOCK == 5
INT_ILLEGAL_INSTRUCTION == 6
INT_SOFT_U == 30
INT_SOFT_L == 31

Chan == 12..27
NChan == (0..31) \ Chan

ASSUME InterruptsAssumption ==
  /\ DevInts \subseteq Chan
  /\ PanelInts \subseteq NChan
  /\ SoftInts \subseteq {INT_CLOCK, INT_SOFT_U, INT_SOFT_L}
  /\ Masks \subseteq SUBSET (0..9)
  /\ Requests \subseteq SUBSET NChan
  /\ Handler \in Locs
  /\ MemFails \in BOOLEAN /\ CpuMod \in BOOLEAN
  /\ ExlDepth \in Nat /\ MaxDepth \in Nat

VARIABLES
  rz,         \* interrupt requests
  rm, q,      \* SR: mask groups enabled, user flag
  xmask,      \* int_xmask: what int_pending() and int_serve() take for rm
  ic, r0,
  sp,         \* the word at STACK_POINTER, in words from the stack's base
  stack,      \* memory from there on
  pc, cur,    \* the CPU thread: where it is, the interrupt being served
  old,        \* what the CPU thread's compare-and-swap expects
  ui_pc, ui_old, ui_new,  \* the front-end's thread, in its own
  saved       \* history: the contexts interrupted and not yet returned to

registers == <<rm, q, xmask, ic, r0>>
frames == <<sp, stack, saved>>
ui == <<ui_pc, ui_old, ui_new>>
vars == <<rz, rm, q, xmask, ic, r0, sp, stack, pc, cur, old, ui_pc, ui_old,
          ui_new, saved>>

Groups == 0..9
SRs == [rm : SUBSET Groups, q : BOOLEAN]
Room == 0 .. 4 * MaxDepth - 1

\* what the words of a frame hold
WordAt(a) == CASE a % 4 = 0 -> Locs [] a % 4 = 1 -> 0..1 [] a % 4 = 2 -> SRs
               [] OTHER -> 0..1

Contexts == [ic : Locs, r0 : 0..1, sr : SRs, spec : 0..1, int : 0..32]

EXL == 32       \* stands in "int" for the instruction, no interrupt

-----------------------------------------------------------------------------
(* Masks.                                                                  *)

\* int_rm2xmask: the RM group that gates an interrupt (-1: non-maskable)
Group(i) == CASE i = 0 -> -1 [] i = 1 -> 0 [] i = 2 -> 1 [] i = 3 -> 2
              [] i = 4 -> 3 [] i \in 5..11 -> 4 [] i \in 12..13 -> 5
              [] i \in 14..15 -> 6 [] i \in 16..21 -> 7 [] i \in 22..27 -> 8
              [] OTHER -> 9

\* rz & int_xmask
Pending == {i \in rz : i = 0 \/ Group(i) \in xmask}

\* Mutant of MaskAfter: the group being served stays enabled.
MaskAfterOwn(i) == {g \in Groups : i # 0 /\ g <= Group(i)}

\* int_int2mask, and MASK_9 for EXL
MaskAfter(i) == {g \in Groups : i # 0 /\ g < Group(i)}

\* new_rm in int_serve()
NewMask(i) == {g \in MaskAfter(i) : (CpuMod /\ i \in Chan) => g < 4}

\* RM is written and int_update_xmask() called
LoadMask(m) == rm' = m /\ xmask' = m

\* cpu_mem_fail(): the program is told by an interrupt
MemFail == MemFails /\ rz' = rz \cup {INT_NO_MEM}

-----------------------------------------------------------------------------
(* Serving an interrupt.                                                   *)

\* cpu_loop(), between two instructions
Boundary ==
  /\ pc = "run"
  /\ pc' = IF Pending # {} THEN "serve" ELSE "exec"
  /\ UNCHANGED <<rz, registers, frames, cur, old, ui>>

\* int_serve() finds the highest request, unless all have been withdrawn
Serve ==
  /\ pc = "serve"
  /\ IF Pending = {}
     THEN pc' = "run" /\ UNCHANGED cur
     ELSE /\ cur' = CHOOSE i \in Pending : \A j \in Pending : i <= j
          /\ pc' = "ack"
  /\ UNCHANGED <<rz, registers, frames, old, ui>>

\* its bit is cleared before anything else
Ack ==
  /\ pc = "ack" /\ pc' = "switch"
  /\ rz' = rz \ {cur}
  /\ UNCHANGED <<registers, frames, cur, old, ui>>

Words(spec) == <<ic, r0, [rm |-> rm, q |-> q], spec>>

\* what a word of a frame holds before anything is written there
Blank(a) == CASE a % 4 = 0 -> Handler [] a % 4 = 2 -> [rm |-> {}, q |-> FALSE] [] OTHER -> 0

\* Memory from the stack pointer up is scratch: nothing that was written there
\* is kept.
Scratched(f, top) == [a \in Room |-> IF a < top THEN f[a] ELSE Blank(a)]

\* the stack once the first n words of a frame have been written
Pushed(n, spec) ==
  [a \in Room |-> IF a \in sp .. sp + 3 /\ a < sp + n THEN Words(spec)[a - sp + 1]
                                                     ELSE stack[a]]

Interrupted(spec, int) ==
  [ic |-> ic, r0 |-> r0, sr |-> [rm |-> rm, q |-> q], spec |-> spec, int |-> int]

\* Mutant of Push: the stack pointer is moved before the words are written.
PushPointerFirst(n, spec, int) ==
  /\ sp' = sp + 4
  /\ stack' = Scratched(Pushed(n - 1, spec), sp')
  /\ saved' = IF n = 5 THEN Append(saved, Interrupted(spec, int)) ELSE saved

\* n words written; a fifth write moves the stack pointer
Push(n, spec, int) ==
  /\ sp' = IF n = 5 THEN sp + 4 ELSE sp
  /\ stack' = Scratched(Pushed(n, spec), sp')
  /\ saved' = IF n = 5 THEN Append(saved, Interrupted(spec, int)) ELSE saved

\* int_ctx_switch(), given up at the first access that fails
CtxSwitch(spec, mask, int) ==
  /\ sp \in Room
  /\ \/ /\ Push(5, spec, int)
        /\ r0' = 0 /\ ic' = Handler /\ q' = FALSE
        /\ LoadMask(rm \cap mask)
        /\ UNCHANGED rz
     \/ /\ \E n \in 0..4 : Push(n, spec, int)
        /\ MemFail
        /\ UNCHANGED registers

\* the rest of int_serve(); the specification of a channel is 1, no matter which
Switch ==
  /\ pc = "switch" /\ pc' = "run"
  /\ \/ CtxSwitch(IF cur \in Chan THEN 1 ELSE 0, NewMask(cur), cur)
     \/ MemFail /\ UNCHANGED <<registers, frames>>
  /\ cur' = 0
  /\ UNCHANGED <<old, ui>>

-----------------------------------------------------------------------------
(* Instructions.                                                           *)

Exec == pc = "exec" /\ pc' = "run"

\* those marked OP_FL_USR_ILLEGAL
Privileged == Exec /\ ~q

\* In a handler programs only ever narrow the mask; LIP widens it again.
MayLoad(m) == saved = <<>> \/ m \subseteq rm

\* anything that computes and jumps, in memory of its own
Compute ==
  /\ Exec
  /\ ic' \in Locs /\ r0' = 1
  /\ UNCHANGED <<rz, rm, q, xmask, frames, cur, old, ui>>

\* P2 in cpu_do_cycle(): a privileged instruction of a user program
Illegal ==
  /\ Exec /\ q
  /\ rz' = rz \cup {INT_ILLEGAL_INSTRUCTION}
  /\ UNCHANGED <<registers, frames, cur, old, ui>>

\* op_71_exl()
Exl ==
  /\ Exec
  /\ Len(saved) < ExlDepth
  /\ \/ CtxSwitch(1, MaskAfter(EXL), EXL)
     \/ MemFail /\ UNCHANGED <<registers, frames>>
  /\ UNCHANGED <<cur, old, ui>>

\* Mutant of Restore: the mask stays as narrow as the handler's.
RestoreNarrow(n, frame) ==
  /\ ic' = IF n >= 1 THEN frame[1] ELSE ic
  /\ r0' = IF n >= 2 THEN frame[2] ELSE r0
  /\ IF n = 3 THEN LoadMask(frame[3].rm \cap rm) /\ q' = frame[3].q /\ UNCHANGED rz
              ELSE MemFail /\ UNCHANGED <<rm, xmask, q>>

\* int_ctx_restore() reading n words of a frame
Restore(n, frame) ==
  /\ ic' = IF n >= 1 THEN frame[1] ELSE ic
  /\ r0' = IF n >= 2 THEN frame[2] ELSE r0
  /\ IF n = 3 THEN LoadMask(frame[3].rm) /\ q' = frame[3].q /\ UNCHANGED rz
              ELSE MemFail /\ UNCHANGED <<rm, xmask, q>>

\* op_73_lip(): the stack pointer is moved down, then the frame read
Lip ==
  /\ Privileged
  /\ sp - 4 \in Room
  /\ \/ /\ sp' = sp - 4 /\ stack' = Scratched(stack, sp')
        /\ saved' = SubSeq(saved, 1, Len(saved) - 1)
        /\ \E n \in 0..3 : Restore(n, [k \in 1..3 |-> stack[sp - 5 + k]])
     \/ /\ MemFail
        /\ UNCHANGED <<registers, frames>>
  /\ UNCHANGED <<cur, old, ui>>

\* op_77_sp(): a context from the descriptor of a process
Sp ==
  /\ Privileged
  /\ \E l \in Locs, m \in Masks, u \in BOOLEAN, n \in 0..3 :
       /\ MayLoad(m)
       /\ Restore(n, <<l, 1, [rm |-> m, q |-> u]>>)
  /\ UNCHANGED <<frames, cur, old, ui>>

\* a program that abandons what was interrupted sets the stack pointer anew
ResetStack ==
  /\ Privileged
  /\ sp' = 0 /\ stack' = Scratched(stack, 0) /\ saved' = <<>>
  /\ UNCHANGED <<rz, registers, cur, old, ui>>

\* Mutant of Im: the mask used to look for requests is not updated.
ImStale ==
  /\ Privileged
  /\ \E m \in Masks : MayLoad(m) /\ rm' = m
  /\ UNCHANGED <<rz, q, xmask, ic, r0, frames, cur, old, ui>>

\* op_77_im()
Im ==
  /\ Privileged
  /\ \E m \in Masks : MayLoad(m) /\ LoadMask(m)
  /\ UNCHANGED <<rz, q, ic, r0, frames, cur, old, ui>>

\* op_77_fi() calling int_put_nchan(): rz is loaded
Fi ==
  /\ pc = "exec" /\ ~q /\ pc' = "fi"
  /\ old' = rz
  /\ UNCHANGED <<rz, registers, frames, cur, ui>>

\* Mutant of PutNchan: the new value is stored over whatever rz has become.
PutNchanStore(expected, new) == rz' = (expected \cap Chan) \cup new

\* the compare-and-swap of int_put_nchan(), which must find rz as it was
PutNchan(expected, new) ==
  /\ rz = expected
  /\ rz' = (expected \cap Chan) \cup new

FiCas ==
  /\ pc = "fi"
  /\ \/ \E new \in Requests : PutNchan(old, new) /\ pc' = "run" /\ old' = {}
     \/ rz # old /\ old' = rz /\ UNCHANGED <<rz, pc>>
  /\ UNCHANGED <<registers, frames, cur, ui>>

\* op_73_softint(): SIT, SIL, SIU, SINT and CIT
SoftInt ==
  /\ Privileged
  /\ \E s \in SUBSET SoftInts : rz' \in {rz \cup s, rz \ {INT_SOFT_U, INT_SOFT_L}}
  /\ UNCHANGED <<registers, frames, cur, old, ui>>

\* op_73_mcl() calling cpu_do_clear()
Mcl ==
  /\ Privileged
  /\ r0' = 0 /\ q' = FALSE /\ LoadMask({}) /\ rz' = {}
  /\ UNCHANGED <<ic, frames, cur, old, ui>>

CpuStep ==
  \/ Boundary \/ Serve \/ Ack \/ Switch
  \/ Compute \/ Illegal \/ Exl \/ Lip \/ Sp \/ ResetStack \/ Im \/ Fi \/ FiCas
  \/ SoftInt \/ Mcl

-----------------------------------------------------------------------------
(* The other threads.                                                      *)

\* int_set() by way of io_int_set()
DevSet ==
  /\ \E i \in DevInts : rz' = rz \cup {i}
  /\ UNCHANGED <<registers, frames, pc, cur, old, ui>>

\* em400_int_set(), em400_int_clear()
PanelSet ==
  /\ ui_pc = "idle"
  /\ \E i \in PanelInts : rz' \in {rz \cup {i}, rz \ {i}}
  /\ UNCHANGED <<registers, frames, pc, cur, old, ui>>

\* cpu_reg_load() of RZ, in a stopped CPU that may be finishing an instruction
PanelLoad ==
  /\ ui_pc = "idle" /\ ui_pc' = "cas"
  /\ ui_old' = rz /\ ui_new' \in Requests
  /\ UNCHANGED <<rz, registers, frames, pc, cur, old>>

PanelCas ==
  /\ ui_pc = "cas"
  /\ \/ /\ PutNchan(ui_old, ui_new)
        /\ ui_pc' = "idle" /\ ui_old' = {} /\ ui_new' = {}
     \/ rz # ui_old /\ ui_old' = rz /\ UNCHANGED <<rz, ui_pc, ui_new>>
  /\ UNCHANGED <<registers, frames, pc, cur, old>>

-----------------------------------------------------------------------------
Init ==
  /\ rz = {} /\ rm = {} /\ xmask = {} /\ q = FALSE
  /\ ic = Handler /\ r0 = 0
  /\ sp = 0 /\ saved = <<>>
  /\ stack = [a \in Room |-> Blank(a)]
  /\ pc = "run" /\ cur = 0 /\ old = {}
  /\ ui_pc = "idle" /\ ui_old = {} /\ ui_new = {}

Next == CpuStep \/ DevSet \/ PanelSet \/ PanelLoad \/ PanelCas

Spec == Init /\ [][Next]_vars

\* The CPU thread never stops between two instructions while the CPU runs.
FairSpec == Spec /\ WF_vars(CpuStep)

-----------------------------------------------------------------------------
(* Properties.                                                             *)

\* Every variable keeps its type; in particular no word of a frame is ever
\* read as another one (int_ctx_switch and int_ctx_restore agree on the order).
TypeOK ==
  /\ rz \subseteq 0..31 /\ rm \subseteq Groups /\ xmask \subseteq Groups
  /\ q \in BOOLEAN /\ ic \in Locs /\ r0 \in 0..1
  /\ DOMAIN stack = Room /\ \A a \in Room : stack[a] \in WordAt(a)
  /\ sp \in Nat /\ sp % 4 = 0 /\ sp <= 4 * MaxDepth
  /\ saved \in Seq(Contexts)
  /\ pc \in {"run", "serve", "ack", "switch", "exec", "fi"}
  /\ cur \in 0..31 /\ old \subseteq 0..31
  /\ ui_pc \in {"idle", "cas"} /\ ui_old \subseteq 0..31 /\ ui_new \subseteq NChan

\* The memory holds exactly the contexts interrupted and not yet returned to,
\* in order, whichever access of int_ctx_switch() or int_ctx_restore() failed:
\* an attempt that is given up never damages a frame below the stack pointer.
FramesIntact ==
  /\ sp = 4 * Len(saved)
  /\ \A k \in 1..Len(saved) :
       /\ stack[4*k - 4] = saved[k].ic /\ stack[4*k - 3] = saved[k].r0
       /\ stack[4*k - 2] = saved[k].sr /\ stack[4*k - 1] = saved[k].spec

\* The words of each context that was interrupted are on the stack as they were
\* written, whatever failed meanwhile (int_ctx_switch(), int_ctx_restore()).
FramesSound == TypeOK /\ FramesIntact

\* Interrupts nest by priority: a handler that does not widen its mask is only
\* ever interrupted by a group of higher priority than every one under it
\* (int_int2mask with int_rm2xmask, through any nesting of LIP, SP and EXL).
NestingOrdered ==
  \A j \in 2..Len(saved) :
    saved[j].int \in 1..31 =>
      \A k \in 1..j-1 : Group(saved[j].int) < Group(saved[k].int)

\* Returning from an interrupt puts back what it interrupted, through any
\* nesting, as long as memory answers (op_73_lip after int_ctx_switch).
ReturnsExactly ==
  [][Lip /\ ~MemFails =>
       LET c == saved[Len(saved)]
       IN ic' = c.ic /\ r0' = c.r0 /\ rm' = c.sr.rm /\ q' = c.sr.q]_vars

\* A channel's request leaves rz only when it is served or the machine cleared:
\* loading the other requests, from either thread, never undoes the OR of an
\* I/O thread that runs at the same time (int_put_nchan).
ChannelRequestsKept ==
  [][\A i \in (rz \ rz') \cap Chan : (pc = "ack" /\ cur = i) \/ Mcl]_vars

\* A request the program's mask lets through is served, withdrawn or masked by
\* one served before it: no stream of requests holds it up for ever, and the
\* mask the CPU looks at never lags behind RM (int_update_xmask).
EnabledGetsServed ==
  \A i \in DevInts \cup PanelInts \cup SoftInts \cup {INT_ILLEGAL_INSTRUCTION} :
    (i \in rz /\ Group(i) \in rm) ~> ~(i \in rz /\ Group(i) \in rm)
=============================================================================
