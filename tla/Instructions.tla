---------------------------- MODULE Instructions ----------------------------
(***************************************************************************)
(* What the instructions compute: the decoder's table (src/cpu/iset.c),    *)
(* the argument and the skipping of an instruction (cpu_do_cycle() in      *)
(* src/cpu/cpu.c) and the operations (src/cpu/instructions.c).             *)
(*                                                                         *)
(* A word is the set of its bits that are 1, numbered from 0 at the left   *)
(* as in the machine's manuals.  A behaviour executes one of Cases, a      *)
(* program on a machine.  That an access is not answered raises            *)
(* NO_MEM and leaves W, whose content is one of Leftover.  Control of the  *)
(* machine is in CpuControl and Interrupts: here the instructions HLT,     *)
(* MCL, LIP, CRON, EXL, SP, IM, KI and FI only take their turn.            *)
(***************************************************************************)
EXTENDS Alu, Sequences

CONSTANTS
  Cases,        \* pairs of a program, a sequence of words, and the machine it starts
                \* on: its R0, R1, R7, Q and the CPU's modification
  Values,       \* words that IN, the keys and the arithmetic unit give
  Leftover,     \* words that W may hold when memory does not answer
  Memory0,      \* the memory that answers: a function from <<block, address>>
  IoIllegal     \* cpu_user_io_illegal

Bits == 0..15

ASSUME InstrAssumption ==
  /\ Half = 32768                     \* words of 16 bits
  /\ Values \subseteq SUBSET Bits /\ Leftover \subseteq SUBSET Bits
  /\ Memory0 \in [DOMAIN Memory0 -> SUBSET Bits] /\ DOMAIN Memory0 \subseteq Nat \X Nat
  /\ \A c \in Cases :
       /\ c[1] \in Seq(SUBSET Bits)
       /\ {c[2].r0, c[2].r1, c[2].r7} \subseteq SUBSET Bits
       /\ c[2].q \in BOOLEAN /\ c[2].mod \in {"absent", "present", "active"}
Weight == <<32768, 16384, 8192, 4096, 2048, 1024, 512, 256, 128, 64, 32, 16, 8, 4, 2, 1>>
BitOf(x, i) == IF i \in x THEN Weight[i + 1] ELSE 0
Num(x) == BitOf(x, 0) + BitOf(x, 1) + BitOf(x, 2) + BitOf(x, 3) + BitOf(x, 4) + BitOf(x, 5) + BitOf(x, 6) + BitOf(x, 7)
          + BitOf(x, 8) + BitOf(x, 9) + BitOf(x, 10) + BitOf(x, 11) + BitOf(x, 12) + BitOf(x, 13) + BitOf(x, 14) + BitOf(x, 15)
Word(n) == {i \in Bits : (n \div Weight[i + 1]) % 2 = 1}
Not(x) == Bits \ x
Xor(x, y) == (x \cup y) \ (x \cap y)
Plus(x, y) == Word(Num(x) + Num(y))
Upper(x) == x \cap 0..7
Lower(x) == x \cap 8..15
Right(x, n) == {i + n : i \in x} \cap Bits
Left(x, n) == {i - n : i \in x} \cap Bits

-----------------------------------------------------------------------------
(* The table: an operation takes every word that has the bits of its code *)
(* outside the mask of its family.                                        *)
Dabc == 6..15
Dac == {6, 7, 8, 9, 13, 14, 15}
Dbc == {6} \cup 10..15

Family(base, step, mask, arg, ops) ==
  {[op |-> ops[k], code |-> Word(base + step * (k - 1)), mask |-> mask, arg |-> arg] : k \in DOMAIN ops}
Op(n) == n * 1024
None73(sub, mask, name) == Family(Op(59) + sub, 0, mask, "none", <<name>>)

ShcMask == Dac

(* em400_ilist *)
Table ==
  Family(Op(16), 1024, Dabc, "norm", <<"lw", "tw", "ls", "ri", "rw", "pw", "rj", "is", "bb", "bm", "bs", "bc", "bn", "ou", "in">>)
  \cup Family(Op(31), 64, Dbc, "norm", <<"ad", "sd", "mw", "dw", "af", "sf", "mf", "df">>)
  \cup Family(Op(32), 1024, Dabc, "norm", <<"aw", "ac", "sw", "cw", "or", "om", "nr", "nm", "er", "em", "xr", "xm", "cl", "lb", "rb", "cb">>)
  \cup Family(Op(48), 1024, Dabc, "short", <<"awt", "trb", "irb", "drb", "cwt", "lwt", "lws", "rws">>)
  \cup Family(Op(56), 64, Dbc, "short", <<"ujs", "jls", "jes", "jgs", "jvs", "jxs", "jys", "jcs">>)
  \cup Family(Op(57), 256, 8..15, "byte", <<"blc", "exl", "brc", "nrf">>)
  \cup Family(Op(58), 1, 7..9, "none", <<"ric", "zlb", "sxu", "nga", "slz", "sly", "slx", "sry", "ngl", "rpc">>)
  \cup Family(Op(58) + 16, 1, ShcMask, "none", <<"shc">>)
  \cup Family(Op(58) + 512, 1, 7..9, "none", <<"rky", "zrb", "sxl", "ngc", "svz", "svy", "svx", "srx", "srz", "lpc">>)
  \cup Family(Op(59), 0, Dbc, "short", <<"hlt">>)
  \cup None73(64, Dbc, "mcl") \cup None73(128, Dbc, "softint") \cup None73(192, 10..15, "giu")
  \cup None73(256, Dbc, "lip") \cup None73(320, Dbc, "cron") \cup None73(704, 10..15, "gil")
  \cup Family(Op(60), 64, Dbc, "norm", <<"uj", "jl", "je", "jg", "jz", "jm", "jn", "lj">>)
  \cup Family(Op(61), 64, Dbc, "norm", <<"ld", "lf", "la", "ll", "td", "tf", "ta", "tl">>)
  \cup Family(Op(62), 64, Dbc, "norm", <<"rd", "rf", "ra", "rl", "pd", "pf", "pa", "pl">>)
  \cup Family(Op(63), 64, Dbc, "norm", <<"mb", "im", "ki", "fi", "sp", "md", "rz", "ib">>)

UsrIllegal == {"hlt", "mcl", "softint", "giu", "lip", "gil", "cron", "mb", "im", "ki", "fi", "sp"}
                \cup IF IoIllegal THEN {"ou", "in"} ELSE {}

\* flags in R0
FL_Z == 0   FL_M == 1   FL_V == 2   FL_C == 3   FL_L == 4   FL_E == 5   FL_G == 6   FL_Y == 7   FL_X == 8

JumpFlag == [jls |-> FL_L, jes |-> FL_E, jgs |-> FL_G, jvs |-> FL_V, jxs |-> FL_X, jys |-> FL_Y, jcs |-> FL_C,
             jl |-> FL_L, je |-> FL_E, jg |-> FL_G, jz |-> FL_Z, jm |-> FL_M]

VARIABLES
  program, at, phase,        \* what is executed, how far; "fetch", or "exec" with the argument ready
  ir, op, ac, ar, zc17,      \* op: the operation of cpu_op_tab[ir]
  r, ic, p, mc,
  q, bs, nb,
  mod,                       \* "absent", "present" or "active"
  mem, ints, rALARM,
  start                      \* history: the registers at the beginning

script == <<program, at, start>>
argument == <<ir, op, ac, ar, zc17>>
control == <<ic, p, mc>>
state == <<q, bs, nb, mod>>
outside == <<mem, ints, rALARM>>
instrVars == <<program, at, phase, ir, op, ac, ar, zc17, r, ic, p, mc, q, bs, nb, mod, mem, ints,
               rALARM, start>>

InstrInit ==
  /\ at = 1 /\ phase = "fetch"
  /\ ir = {} /\ op = "" /\ ac = {} /\ ar = {} /\ zc17 = FALSE
  /\ \E c \in Cases : LET m == c[2] IN
       /\ program = c[1]
       /\ r = [k \in 0..7 |-> CASE k = 0 -> m.r0 [] k = 1 -> m.r1 [] k = 7 -> m.r7 [] OTHER -> Word(k)]
       /\ q = m.q /\ mod = m.mod
  /\ ic = {} /\ p = FALSE /\ mc = 0
  /\ bs = FALSE /\ nb = 1
  /\ mem = Memory0 /\ ints = {} /\ rALARM = FALSE
  /\ start = r

-----------------------------------------------------------------------------
(* Memory as cpu_mem_read_1() and cpu_mem_write_1() see it. *)
Place(barnb, addr) == <<IF barnb THEN nb ELSE 0, Num(addr)>>
Answers(barnb, addr) == Place(barnb, addr) \in DOMAIN mem
Got(barnb, addr) == IF Answers(barnb, addr) THEN {mem[Place(barnb, addr)]} ELSE Leftover
Stored(barnb, addr, x) == IF Answers(barnb, addr) THEN [mem EXCEPT ![Place(barnb, addr)] = x] ELSE mem

\* cpu_mem_fail() for each access that is not answered
Accessing(barnb, addrs) ==
  LET bad == \E a \in addrs : ~Answers(barnb, a)
  IN /\ ints' = ints \cup (IF bad THEN {"NO_MEM"} ELSE {})
     /\ rALARM' = (rALARM \/ (bad /\ ~barnb))
Reading(barnb, addr) == Accessing(barnb, {addr}) /\ UNCHANGED mem
Writing(barnb, addr, x) == Accessing(barnb, {addr}) /\ mem' = Stored(barnb, addr, x)

-----------------------------------------------------------------------------
(* cpu_do_cycle(): the instruction, and what it does not execute. *)
Matches(e, x) == x \ e.mask = e.code
Decoded(x) == {e \in Table : Matches(e, x)}
Illegal == [op |-> "illegal", code |-> {}, mask |-> Bits, arg |-> "none"]
Entry(x) == IF Decoded(x) = {} THEN Illegal ELSE CHOOSE e \in Decoded(x) : TRUE

A == Num(ir \cap 7..9) \div 64
FieldB(x) == Num(x \cap 10..12) \div 8
FieldC(x) == Num(x \cap 13..15)
FieldD(x) == 6 \in x
FieldT(x) == Word(IF FieldD(x) THEN 0 - Num(x \cap 10..15) ELSE Num(x \cap 10..15))

Fetch(x) == /\ phase = "fetch"
            /\ at' = at + 1 /\ ir' = x /\ op' = Entry(x).op
            /\ UNCHANGED <<program, start, r, state, mem>>
NextWord == IF at <= Len(program) THEN {program[at]} ELSE {}

TooManyMd(e) == e.op = "md" /\ mc = 3

Refused(e) == e.op = "illegal" \/ (q /\ e.op \in UsrIllegal) \/ TooManyMd(e)
Ineffective(e) == \/ p
                  \/ e.op \in DOMAIN JumpFlag /\ JumpFlag[e.op] \notin r[0]
                  \/ e.op = "jn" /\ FL_E \in r[0]

\* words that an instruction not executed takes with it
Skipped(e, x) == IF e.arg = "norm" /\ FieldC(x) = 0 THEN 2 ELSE 1

(* P2 *)
PassBy ==
  \E x \in NextWord : LET e == Entry(x) IN
    /\ Fetch(x) /\ phase' = "fetch"
    /\ Refused(e) \/ Ineffective(e)
    /\ IF Refused(e) /\ ~p
       THEN ints' = ints \cup {"ILLEGAL_INSTRUCTION"} /\ ic' = Plus(ic, Word(1))
       ELSE ic' = Plus(ic, Word(Skipped(e, x))) /\ UNCHANGED ints
    /\ p' = FALSE /\ mc' = 0
    /\ UNCHANGED <<ac, ar, zc17, rALARM>>

\* the first form of the argument, before modification
Plain(e, x) ==
  CASE e.arg = "norm" -> IF FieldC(x) = 0 THEN Got(q, Plus(ic, Word(1))) ELSE {r[FieldC(x)]}
    [] e.arg = "short" -> {FieldT(x)} [] e.arg = "byte" -> {Lower(x)} [] e.arg = "none" -> {ac}

Over(x, y) == Num(x) + Num(y) > 65535

\* zc17 forgets the carry of the pre-modification when a B-modification follows
Carried(pre, post, bmod) == IF bmod THEN post ELSE pre

(* P3 to P5 *)
Argument ==
  \E x \in NextWord : LET e == Entry(x)
                               norm == e.arg = "norm"
                               imm == norm /\ FieldC(x) = 0
                               bmod == norm /\ FieldB(x) # 0
  IN /\ Fetch(x) /\ phase' = "exec"
     /\ ~(Refused(e) \/ Ineffective(e))
     /\ \E first \in Plain(e, x) :
          LET addr == IF mc = 0 /\ e.arg # "none" THEN first ELSE ar
              pre == IF mc # 0 THEN Plus(first, addr) ELSE first
              whole == IF bmod THEN Plus(pre, r[FieldB(x)]) ELSE pre
              left == IF mc # 0 \/ bmod THEN whole ELSE addr
          IN /\ zc17' = Carried(mc # 0 /\ Over(first, addr), Over(pre, r[FieldB(x)]), bmod)
             /\ IF norm /\ FieldD(x)
                THEN \E second \in Got(q, left) : ac' = second /\ ar' = second
                ELSE ac' = whole /\ ar' = left
             /\ Accessing(q, (IF imm THEN {Plus(ic, Word(1))} ELSE {})
                             \cup (IF norm /\ FieldD(x) THEN {left} ELSE {}))
     /\ ic' = Plus(ic, Word(IF imm THEN 2 ELSE 1))
     /\ mc' = IF e.op = "md" THEN mc ELSE 0
     /\ UNCHANGED p

-----------------------------------------------------------------------------
(* The operations.  A is the register field. *)
Exec(ops) == phase = "exec" /\ op \in ops /\ phase' = "fetch"
If(cond, flag) == IF cond THEN {flag} ELSE {}

\* REG_RESTRICT_WRITE(): in user mode the upper byte of R0 stays
Restricted(old, x) == IF A # 0 \/ ~q THEN x ELSE Upper(old) \cup Lower(x)

\* the result goes into the register after the flags, "to cover corner cases where
\* logical operations are performed on r0"
Results(x, flags) ==
  r' = [k \in 0..7 |-> LET old == IF k = 0 THEN flags ELSE r[k]
                       IN IF k = A THEN Restricted(old, x) ELSE old]
Flags(flags) == r' = [r EXCEPT ![0] = flags]

\* what most of them leave alone
Computing == UNCHANGED <<script, argument, control, state, outside>>
Testing == UNCHANGED <<script, argument, r, ic, mc, state, outside>>
Going == UNCHANGED <<script, argument, p, mc, state, outside>>
Storing == UNCHANGED <<script, ir, op, ac, ar, zc17, r, control, state>>

LoadReg ==
  /\ Exec({"lw", "lwt", "ric", "rky", "rpc"})
  /\ \E kb \in Values : Results(CASE op \in {"lw", "lwt"} -> ac [] op = "ric" -> ic [] op = "rky" -> kb [] op = "rpc" -> r[0], r[0])
  /\ Computing

LoadMem ==
  /\ Exec({"tw", "lws"})
  /\ LET addr == IF op = "tw" THEN ar ELSE Plus(ic, ac)
         barnb == op = "tw" \/ q
     IN /\ ar' = addr /\ Reading(barnb, addr)
        /\ \E x \in Got(barnb, addr) : Results(x, r[0])
  /\ UNCHANGED <<script, ir, op, ac, zc17, control, state>>

Ls == /\ Exec({"ls"}) /\ Results((r[7] \cap ac) \cup (r[A] \ r[7]), r[0])
      /\ ar' = r[7] \cap ac /\ ac' = r[A] \ r[7]
      /\ UNCHANGED <<script, ir, op, zc17, control, state, outside>>

StoreReg ==
  /\ Exec({"rw", "pw", "rz", "ri"})
  /\ LET addr == IF op = "ri" THEN r[A] ELSE ar
     IN /\ Writing(op = "pw" \/ q, addr, CASE op = "rz" -> {} [] op = "ri" -> ac [] OTHER -> r[A])
        /\ ar' = addr
  /\ IF op = "ri" THEN Results(Plus(r[A], Word(1)), r[0]) ELSE UNCHANGED r
  /\ UNCHANGED <<script, ir, op, ac, zc17, control, state>>

Rws == /\ Exec({"rws"}) /\ Writing(q, Plus(ic, ac), r[A]) /\ ar' = Plus(ic, ac)
       /\ UNCHANGED <<script, ir, op, ac, zc17, r, control, state>>

Rj == Exec({"rj"}) /\ Results(ic, r[0]) /\ ic' = ac /\ Going

(* IS: the bits of the register are set in memory unless they are all there *)
Is == /\ Exec({"is"})
      /\ \E x \in Got(TRUE, ar) :
           /\ ac' = x
           /\ Accessing(TRUE, {ar})
           /\ IF r[A] \subseteq x THEN p' = TRUE /\ UNCHANGED mem
              ELSE mem' = Stored(TRUE, ar, r[A] \cup x) /\ UNCHANGED p
      /\ UNCHANGED <<script, ir, op, ar, zc17, r, ic, mc, state>>

TestBits ==
  /\ Exec({"bb", "bs", "bc", "bn", "blc", "brc"})
  /\ p' = CASE op = "bb" -> ac \subseteq r[A]
            [] op = "bs" -> r[7] \cap Xor(r[A], ac) = {}
            [] op = "bc" -> ~(ac \subseteq r[A])
            [] op = "bn" -> r[A] \cap ac = {}
            [] op = "blc" -> ~(ac \subseteq Right(r[0], 8))
            [] op = "brc" -> ~(ac \subseteq Lower(r[0]))
  /\ ac' = IF op = "bs" THEN Xor(r[A], ac) ELSE ac
  /\ UNCHANGED <<script, ir, op, ar, zc17, r, ic, mc, state, outside>>

Bm == /\ Exec({"bm"}) /\ Reading(TRUE, ar)
      /\ \E x \in Got(TRUE, ar) : ac' = x /\ p' = (r[A] \subseteq x)
      /\ UNCHANGED <<script, ir, op, ar, zc17, r, ic, mc, state>>

(* OU and IN go on at one of the four words behind them, by the answer; IN may *)
(* write the register.                                                        *)
Io == /\ Exec({"ou", "in"})
      /\ \E res \in 0..3 : LET link == Plus(ic, Word(res))
                           IN Reading(q, link) /\ ic' = IF Answers(q, link) THEN mem[Place(q, link)] ELSE link
      /\ IF op = "in" THEN \E x \in Values : r' = [r EXCEPT ![A] = x] ELSE UNCHANGED r
      /\ UNCHANGED <<script, argument, p, mc, state>>

\* alu_16_add() and alu_16_sub() leave V when there is no overflow
ArithFlags(o) == (r[0] \ {FL_Z, FL_M, FL_C}) \cup If(o.Z, FL_Z) \cup If(o.M, FL_M) \cup If(o.C, FL_C) \cup If(o.V, FL_V)

Carry == IF FL_C \in r[0] THEN 1 ELSE 0

Sum == CASE op \in {"aw", "awt"} -> Add(Num(r[A]), Num(ac), 0)
         [] op = "ac" -> Add(Num(r[A]), Num(ac), Carry)
         [] op = "sw" -> Sub(Num(r[A]), Num(ac))
         [] op = "nga" -> Sub(0, Num(r[A]))
         [] op = "ngc" -> Add(Num(Not(r[A])), 0, Carry)

Arithmetic ==
  /\ Exec({"aw", "awt", "ac", "sw", "nga", "ngc"})
  /\ Results(Word(Sum.sum), ArithFlags(Sum))
  /\ ac' = IF op \in {"nga", "ngc"} THEN r[A] ELSE ac
  /\ UNCHANGED <<script, ir, op, ar, zc17, control, state, outside>>

\* alu_16_set_LEG()
Leg(m, n) == (r[0] \ {FL_L, FL_E, FL_G}) \cup {IF m = n THEN FL_E ELSE IF m < n THEN FL_L ELSE FL_G}

Compare ==
  /\ Exec({"cw", "cwt", "cl"})
  /\ Flags(IF op = "cl" THEN Leg(Num(r[A]), Num(ac)) ELSE Leg(Signed(Num(r[A])), Signed(Num(ac))))
  /\ Computing

\* alu_16_set_Z_bool()
ZBool(x) == (r[0] \ {FL_Z}) \cup If(x = {}, FL_Z)

Boolean(x, y) == CASE op \in {"or", "om"} -> x \cup y [] op \in {"nr", "nm"} -> x \cap y
                   [] op = "er" -> x \ y [] op = "em" -> y \ x [] op \in {"xr", "xm"} -> Xor(x, y)

Logic == /\ Exec({"or", "nr", "er", "xr"})
         /\ Results(Boolean(r[A], ac), ZBool(Boolean(r[A], ac)))
         /\ Computing

LogicMem ==
  /\ Exec({"om", "nm", "em", "xm"})
  /\ \E x \in Got(TRUE, ar) : /\ ac' = x
                              /\ Writing(TRUE, ar, Boolean(r[A], x))
                              /\ Flags(ZBool(Boolean(r[A], x)))
  /\ UNCHANGED <<script, ir, op, ar, zc17, control, state>>

\* NGL writes the register itself
Ngl == Exec({"ngl"}) /\ r' = [r EXCEPT ![0] = ZBool(Not(r[A])), ![A] = Not(r[A])] /\ Computing

\* byte addresses: the last bit chooses the byte, a carry is the 17th bit of a
\* modified CPU
Even == 15 \notin ac
ByteAddress == Right(ac, 1) \cup If(mod = "active" /\ ~(q /\ bs) /\ zc17, 0)
ByteOf(x) == IF Even THEN Right(x, 8) ELSE Lower(x)

\* LB keeps the whole word in AC when it is the right byte
LoadByte ==
  /\ Exec({"lb", "cb"}) /\ ar' = ByteAddress
  /\ Reading(TRUE, ByteAddress)
  /\ \E x \in Got(TRUE, ByteAddress) :
       /\ ac' = IF op = "lb" /\ ~Even THEN x ELSE ByteOf(x)
       /\ IF op = "lb" THEN Results(Upper(r[A]) \cup ByteOf(x), r[0])
          ELSE Flags(Leg(Num(Lower(r[A])), Num(ByteOf(x))))
  /\ UNCHANGED <<script, ir, op, zc17, control, state>>

\* Mutant of WithByte: the bytes change places.
WithByteOther(x, y) == IF ~Even THEN Lower(x) \cup Left(y, 8) ELSE Upper(x) \cup Lower(y)

WithByte(x, y) == IF Even THEN Lower(x) \cup Left(y, 8) ELSE Upper(x) \cup Lower(y)

StoreByte ==
  /\ Exec({"rb"}) /\ ar' = ByteAddress
  /\ \E x \in Got(TRUE, ByteAddress) :
       ac' = x /\ Writing(TRUE, ByteAddress, WithByte(x, Lower(r[A])))
  /\ UNCHANGED <<script, ir, op, zc17, r, control, state>>

Trb == /\ Exec({"trb"}) /\ Results(Plus(r[A], ac), r[0]) /\ p' = (Plus(r[A], ac) = {})
       /\ UNCHANGED <<script, argument, ic, mc, state, outside>>

Loop == /\ Exec({"irb", "drb"})
        /\ LET x == IF op = "irb" THEN Plus(r[A], Word(1)) ELSE Plus(r[A], Bits)
           IN /\ Results(x, r[0])
              /\ ic' = IF x = {} THEN ic ELSE Plus(ic, ac)
        /\ Going /\ UNCHANGED outside

Jump == /\ Exec(DOMAIN JumpFlag \cup {"ujs", "uj", "jn"})
        /\ ic' = IF op \in {"ujs", "jls", "jes", "jgs", "jvs", "jxs", "jys", "jcs"} THEN Plus(ic, ac) ELSE ac
        /\ Flags(IF op = "jvs" THEN r[0] \ {FL_V} ELSE r[0])
        /\ Going /\ UNCHANGED outside

Lj == /\ Exec({"lj"}) /\ Writing(q, ar, ic) /\ ic' = Plus(ac, Word(1))
      /\ UNCHANGED <<script, argument, r, p, mc, state>>

Bytes == Exec({"zlb", "zrb"}) /\ Results(IF op = "zlb" THEN Lower(r[A]) ELSE Upper(r[A]), r[0]) /\ Computing

SetX == /\ Exec({"sxu", "sxl"})
        /\ Flags((r[0] \ {FL_X}) \cup If((IF op = "sxu" THEN 0 ELSE 15) \in r[A], FL_X))
        /\ Computing

ShiftIn == CASE op \in {"slz", "svz", "srz"} -> FALSE
             [] op \in {"sly", "svy", "sry"} -> FL_Y \in r[0]
             [] op \in {"slx", "svx", "srx"} -> FL_X \in r[0]

(* shift_left() and shift_right(): Y takes the bit that leaves *)
ShiftLeft ==
  /\ Exec({"slz", "sly", "slx", "svz", "svy", "svx"})
  /\ LET x == Left(r[A], 1) \cup If(ShiftIn, 15)
     IN Results(x, (r[0] \ {FL_Y}) \cup If(0 \in r[A], FL_Y)
                    \cup If(op \in {"svz", "svy", "svx"} /\ (0 \in r[A]) # (0 \in x), FL_V))
  /\ Computing
ShiftRight ==
  /\ Exec({"srz", "sry", "srx"})
  /\ Results(Right(r[A], 1) \cup If(ShiftIn, 0), (r[0] \ {FL_Y}) \cup If(15 \in r[A], FL_Y))
  /\ Computing

\* SHC turns the register to the right; a count of 0 is 16
Shc == /\ Exec({"shc"})
       /\ LET n == Num(ir \cap 13..15) + IF FieldD(ir) THEN 8 ELSE 0
          IN Results({(i + n) % 16 : i \in r[A]}, r[0])
       /\ Computing

Lpc == Exec({"lpc"}) /\ Flags(r[A]) /\ Computing

\* SIT, SIL, SIU, CIT and, in a modified CPU, SINT and SIND
SoftInt ==
  /\ Exec({"softint"})
  /\ ints' = (IF {14, 15} \cap ir = {} THEN ints \ {"SOFT_U", "SOFT_L"}
              ELSE ints \cup If(15 \in ir, "SOFT_L") \cup If(14 \in ir, "SOFT_U"))
             \cup If(mod # "absent" /\ 13 \in ir, "CLOCK")
  /\ UNCHANGED <<script, argument, r, control, state, mem, rALARM>>

Words(o) == CASE o \in {"ld", "td", "rd", "pd"} -> 2 [] o \in {"la", "ta", "ra", "pa"} -> 7 [] OTHER -> 3

\* Mutant of FirstReg: the groups that start at R5 do so in stores only.
FirstRegStores(o) == IF o \in {"rl", "pl"} THEN 5 ELSE 1

FirstReg(o) == IF o \in {"ll", "tl", "rl", "pl"} THEN 5 ELSE 1

(* load_multiword(): a word that is not answered is the one before it *)
LoadWords ==
  /\ Exec({"ld", "lf", "la", "ll", "td", "tf", "ta", "tl"})
  /\ LET barnb == q \/ op \in {"td", "tf", "ta", "tl"}
         addr(k) == Plus(ar, Word(k))
         count == Words(op)
         Answered(k) == {j \in 0..k - 1 : Answers(barnb, addr(j))}
         Latest(js) == CHOOSE j \in js : \A i \in js : i <= j
     IN /\ \E rest \in Leftover :
             LET got(k) == IF Answered(k) = {} THEN rest ELSE mem[Place(barnb, addr(Latest(Answered(k))))]
             IN r' = [k \in 0..7 |-> IF k - FirstReg(op) \in 0..count - 1 THEN got(k - FirstReg(op) + 1) ELSE r[k]]
        /\ Accessing(barnb, {addr(k) : k \in 0..count - 1})
        /\ ar' = addr(count)
  /\ UNCHANGED <<script, ir, op, ac, zc17, control, state, mem>>

(* store_multiword() *)
StoreWords ==
  /\ Exec({"rd", "rf", "ra", "rl", "pd", "pf", "pa", "pl"})
  /\ LET barnb == q \/ op \in {"pd", "pf", "pa", "pl"}
         place(k) == Place(barnb, Plus(ar, Word(k)))
         offsets == 0..Words(op) - 1
     IN /\ mem' = [x \in DOMAIN mem |-> IF \E k \in offsets : place(k) = x
                                        THEN r[FirstReg(op) + CHOOSE k \in offsets : place(k) = x] ELSE mem[x]]
        /\ Accessing(barnb, {Plus(ar, Word(k)) : k \in offsets})
        /\ ar' = Plus(ar, Word(Words(op)))
  /\ UNCHANGED <<script, ir, op, ac, zc17, r, control, state>>

Mb == /\ Exec({"mb"}) /\ Reading(q, ar)
      /\ \E x \in Got(q, ar) : q' = (10 \in x) /\ bs' = (11 \in x) /\ nb' = Num(x \cap 12..15)
      /\ UNCHANGED <<script, argument, r, control, mod>>

Ib == /\ Exec({"ib"})
      /\ \E x \in Got(q, ar) : /\ ac' = x /\ p' = (Plus(x, Word(1)) = {})
                               /\ Writing(q, ar, Plus(x, Word(1)))
      /\ UNCHANGED <<script, ir, op, ar, zc17, r, ic, mc, state>>

Md == Exec({"md"}) /\ mc' = mc + 1 /\ UNCHANGED <<script, argument, r, ic, p, state, outside>>

\* awp_dispatch() reads the arguments; the arithmetic unit is outside
AwpCount(o) == CASE o = "nrf" -> 0 [] o \in {"ad", "sd"} -> 2 [] o \in {"mw", "dw"} -> 1 [] OTHER -> 3
Awp ==
  /\ Exec({"nrf", "ad", "sd", "mw", "dw", "af", "sf", "mf", "df"})
  /\ LET addrs == {Plus(ar, Word(k)) : k \in 0..AwpCount(op) - 1}
         all == \A a \in addrs : Answers(q, a)
     IN /\ \E res \in {"", "FP_UF", "FP_OF", "DIV_OF", "FP_ERR"}, x \in Values :
             /\ all \/ (res = "" /\ x = r[1])
             /\ r' = [r EXCEPT ![1] = x]
             /\ ints' = ints \cup (IF res = "" THEN {} ELSE {res}) \cup (IF all THEN {} ELSE {"NO_MEM"})
             /\ rALARM' = (rALARM \/ (~all /\ ~q))
  /\ UNCHANGED <<script, argument, control, state, mem>>

Elsewhere == /\ Exec({"hlt", "mcl", "giu", "gil", "lip", "cron", "exl", "im", "ki", "fi", "sp"})
             /\ UNCHANGED <<script, argument, r, control, state, outside>>

InstrNext ==
  \/ PassBy \/ Argument
  \/ LoadReg \/ LoadMem \/ Ls \/ StoreReg \/ Rws \/ Rj \/ Is \/ TestBits \/ Bm \/ Io
  \/ Arithmetic \/ Compare \/ Logic \/ LogicMem \/ Ngl \/ LoadByte \/ StoreByte
  \/ Trb \/ Loop \/ Jump \/ Lj \/ Bytes \/ SetX \/ ShiftLeft \/ ShiftRight \/ Shc \/ Lpc
  \/ SoftInt \/ LoadWords \/ StoreWords \/ Mb \/ Ib \/ Md \/ Awp \/ Elsewhere

InstrSpec == InstrInit /\ [][InstrNext]_instrVars

-----------------------------------------------------------------------------
InstrTypeOK ==
  /\ r \in [0..7 -> SUBSET Bits] /\ {ir, ac, ar, ic} \subseteq SUBSET Bits
  /\ mc \in 0..3 /\ nb \in 0..15 /\ {p, q, bs, zc17, rALARM} \subseteq BOOLEAN
  /\ phase \in {"fetch", "exec"} /\ at \in 1..Len(program) + 1
  /\ \A x \in DOMAIN mem : mem[x] \subseteq Bits

\* No word is claimed by two instructions, and every code is outside its own mask
\* (the assertion in iset_register_op()).
DecodeUnique ==
  /\ \A e \in Decoded(ir), d \in Table : d = e \/ ~(Xor(d.code, e.code) \subseteq d.mask \cup e.mask)
  /\ \A e \in Table : e.code \cap e.mask = {}

Value(k) == Signed(Num(r[k]))
True == CASE op \in {"aw", "awt"} -> Value(A) + Signed(Num(ac))
          [] op = "ac" -> Value(A) + Signed(Num(ac)) + Carry
          [] op = "sw" -> Value(A) - Signed(Num(ac))
          [] op = "nga" -> 0 - Value(A)
          [] op = "ngc" -> 0 - Value(A) - 1 + Carry
Does(ops) == phase = "exec" /\ op \in ops /\ phase' = "fetch"

\* Sums and differences are those of the signed numbers, whatever the operands: the
\* register holds them modulo 2^16, Z and M tell of the true result, and V
\* that it did not fit; V is never taken back (alu.c: "V is never cleared").
ArithmeticTrue ==
  [][Does({"aw", "awt", "ac", "sw", "nga", "ngc"}) /\ A # 0 =>
       /\ Num(r'[A]) = True % 65536
       /\ FL_Z \in r'[0] <=> True = 0
       /\ FL_M \in r'[0] <=> True < 0
       /\ FL_V \in r'[0] <=> FL_V \in r[0] \/ ~InRange(True)]_instrVars

\* memory as the bytes that LB and RB see
ByteAt(m, b, n) == LET x == m[<<b, n \div 2>>] IN IF n % 2 = 0 THEN Right(x, 8) ELSE Lower(x)
BytePlace == Num(ac) + IF mod = "active" /\ zc17 /\ ~(q /\ bs) THEN 65536 ELSE 0

\* RB stores one byte and touches no other, at the address LB would read it from:
\* memory is an array of bytes, of 17 bits when the modified CPU saw a carry.
BytesApart ==
  [][Does({"rb"}) =>
       \A x \in DOMAIN mem : \A n \in {2 * x[2], 2 * x[2] + 1} :
         ByteAt(mem', x[1], n) =
           IF x[1] = nb /\ n = BytePlace THEN Lower(r[A]) ELSE ByteAt(mem, x[1], n)]_instrVars

\* Registers stored by one of the instructions for several words and loaded by its
\* counterpart from the same place are those that were stored, over the end of
\* the address space too.
Counterparts == {<<"ra", "la">>, <<"rf", "lf">>, <<"rl", "ll">>, <<"rd", "ld">>, <<"pa", "ta">>, <<"pl", "tl">>,
            <<"pf", "tf">>, <<"pd", "td">>, <<"pw", "tw">>}
SavedIsRestored ==
  Len(program) = 2 /\ at = 3 /\ phase = "fetch" /\ ints = {}
    /\ <<Entry(program[1]).op, Entry(program[2]).op>> \in Counterparts
    => r = start

\* "in user mode, only LPC may change upper r0 byte" (tests/functional/registers/
\* r0-user-lpc.asm), other than by the flags an instruction sets.
FlagsOf(o) == CASE o \in {"aw", "awt", "ac", "sw", "nga", "ngc"} -> {FL_Z, FL_M, FL_V, FL_C}
                [] o \in {"cw", "cwt", "cl", "cb"} -> {FL_L, FL_E, FL_G}
                [] o \in {"or", "nr", "er", "xr", "om", "nm", "em", "xm", "ngl"} -> {FL_Z}
                [] o \in {"slz", "sly", "slx", "svz", "svy", "svx", "srz", "sry", "srx"} -> {FL_Y, FL_V}
                [] o \in {"jvs"} -> {FL_V}
                [] o \in {"lpc", "nrf", "ad", "sd", "mw", "dw", "af", "sf", "mf", "df"} -> 0..7
                [] OTHER -> {}
OnlyLpc == [][q => Xor(Upper(r[0]), Upper(r'[0])) \subseteq FlagsOf(op)]_instrVars
=============================================================================
