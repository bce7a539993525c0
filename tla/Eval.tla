-------------------------------- MODULE Eval --------------------------------
(***************************************************************************)
(* Expressions of the debugger (src/cp/eval.c, eval_parser.y): trees that  *)
(* the parser builds, evaluated on the registers and the memory of the     *)
(* machine, in words that wrap, with the message of what went wrong.       *)
(***************************************************************************)
EXTENDS Integers, FiniteSets, Bitwise

CONSTANTS
  Bits,      \* 16
  Regs,      \* registers: 0, flags from the highest bit on, 1 and so on, the last one being IC
  Segments   \* 16 blocks of memory

ASSUME EvalAssumption == Bits \in Nat \ {0} /\ Segments \in Nat \ {0} /\ Regs \subseteq Nat /\ 0 \in Regs

Word == 2^Bits
IntBits == 2 * Bits
Wrapped(i) == i % Word
IC == CHOOSE r \in Regs : \A s \in Regs : r >= s

\* eval_est_leaf(), eval_est_op(), eval_est_loc(), eval_est_mem(): a value of more bits
\* than a word loses them
Leaf(type, v) == [type |-> type, val |-> v]
Op(o, a, b) == [type |-> "op", val |-> o, n1 |-> a, n2 |-> b]
Unary(o, a) == [type |-> "unary", val |-> o, n1 |-> a]
Mem(a, b) == [type |-> "mem", n1 |-> a, n2 |-> b]
Loc(nb, a) == [type |-> "loc", nb |-> nb, val |-> a]

Fail(err) == [v |-> -1, err |-> err]
Ok(v) == [v |-> v, err |-> "none"]
Bool(b) == IF b THEN 1 ELSE 0
Signed(v) == IF v >= Word \div 2 THEN v - Word ELSE v

Unaries == {"~", "!", "neg"}
Logicals == {"&&", "||"}
Compares == {"==", "!=", ">", "<", ">=", "<="}
Arithmetics == {"+", "-", "*", "/", ">>", "<<", "|", "&", "^"}

\* the processor takes a count of shifts modulo the width of an int
Shift(n) == n % IntBits

Computed(o, a, b) ==
  CASE o = "+" -> Ok(Wrapped(a + b)) [] o = "-" -> Ok(Wrapped(a - b)) [] o = "*" -> Ok(Wrapped(a * b))
    [] o = "/" -> IF b = 0 THEN Fail("Division by zero") ELSE Ok(Wrapped(a \div b))
    [] o = ">>" -> Ok(Wrapped(a \div 2^Shift(b))) [] o = "<<" -> Ok(Wrapped(a * 2^Shift(b)))
    [] o = "|" -> Ok(a | b) [] o = "&" -> Ok(a & b) [] o = "^" -> Ok(a ^^ b)
    [] o = "==" -> Ok(Bool(a = b)) [] o = "!=" -> Ok(Bool(a # b)) [] o = ">" -> Ok(Bool(a > b))
    [] o = "<" -> Ok(Bool(a < b)) [] o = ">=" -> Ok(Bool(a >= b)) [] o = "<=" -> Ok(Bool(a <= b))

\* a leaf; m is the machine
LeafValue(n, m) ==
  CASE n.type = "val" -> Ok(Wrapped(n.val))
    [] n.type = "reg" -> IF n.val \in Regs THEN Ok(m.reg[n.val]) ELSE Fail("No such register")
    [] n.type = "flag" -> IF n.val \in 0..Bits - 1 THEN Ok((m.reg[0] \div 2^(Bits - 1 - n.val)) % 2) ELSE Fail("No such flag")
    [] n.type = "rzbit" -> IF Signed(Wrapped(n.val)) \in 0..2 * Bits - 1 THEN Ok(Bool(Signed(Wrapped(n.val)) \in m.rz))
                           ELSE Fail("Wrong interrupt")
    [] n.type = "cell" -> Ok(m.cell[n.val])
    [] n.type = "loc" -> Ok(Bool(m.cell["q"] * m.cell["nb"] = n.nb /\ m.reg[IC] = Wrapped(n.val)))
    [] OTHER -> Fail("none")

\* eval_est_eval_mem(): no block is the current one, and so is any negative one
MemValue(seg, addr, m) ==
  LET s == Signed(seg.v)
      block == IF s < 0 THEN m.cell["q"] * m.cell["nb"] ELSE s
  IN CASE s >= Segments -> Fail("Wrong memory segment")
       [] s < Segments /\ addr.v < 0 -> Fail("Wrong memory address")
       [] OTHER -> IF <<block, addr.v>> \in DOMAIN m.mem THEN Ok(m.mem[<<block, addr.v>>])
                   ELSE Fail("Memory is not configured")

\* both operands are evaluated when the first one fails, and the last message stays
LastError(a, b) == Fail(IF b.err # "none" THEN b.err ELSE a.err)

\* eval_est_eval()
RECURSIVE Evaluated(_, _)
Evaluated(n, m) ==
  IF n.type = "mem" THEN MemValue(Evaluated(n.n1, m), Evaluated(n.n2, m), m)
  ELSE IF n.type = "unary"
  THEN LET a == Evaluated(n.n1, m)
       IN IF a.v < 0 THEN Fail(a.err)
          ELSE CASE n.val = "~" -> Ok(Word - 1 - a.v) [] n.val = "!" -> Ok(Bool(a.v = 0)) [] n.val = "neg" -> Ok(Wrapped(-a.v))
  ELSE IF n.type = "op" /\ n.val \in Logicals
  THEN LET a == Evaluated(n.n1, m)
       IN IF a.v < 0 THEN Fail(a.err)
          ELSE IF (a.v = 0) = (n.val = "&&") THEN Ok(Bool(n.val = "||"))
          ELSE LET b == Evaluated(n.n2, m) IN IF b.v < 0 THEN Fail(b.err) ELSE Ok(Bool(b.v # 0))
  ELSE IF n.type = "op"
  THEN LET a == Evaluated(n.n1, m)
           b == Evaluated(n.n2, m)
       IN IF a.v < 0 \/ b.v < 0 THEN LastError(a, b) ELSE Computed(n.val, a.v, b.v)
  ELSE LeafValue(n, m)

-----------------------------------------------------------------------------
(* What an expression means, without failures that do not matter: the      *)
(* reference for Evaluated.  A number is taken modulo Word at the end, but *)
(* for what loses more on the way.                                         *)
RECURSIVE Meaning(_, _)
Meaning(n, m) ==
  LET a == Meaning(n.n1, m)
      b == Meaning(n.n2, m)
  IN CASE n.type = "op" /\ n.val = "&&" -> IF a = {} THEN {} ELSE IF a = {0} THEN {0}
                                           ELSE {IF v = 0 THEN 0 ELSE 1 : v \in b}
       [] n.type = "op" /\ n.val = "||" -> IF a = {} THEN {} ELSE IF a # {0} THEN {1}
                                           ELSE {IF v = 0 THEN 0 ELSE 1 : v \in b}
       [] n.type = "op" /\ n.val \in Compares ->
            {Bool(CASE n.val = "==" -> v = w [] n.val = "!=" -> v # w [] n.val = ">" -> v > w
                    [] n.val = "<" -> v < w [] n.val = ">=" -> v >= w [] n.val = "<=" -> v <= w) : v \in a, w \in b}
       [] n.type = "op" /\ n.val \in {"+", "-", "*"} ->
            {(CASE n.val = "+" -> v + w [] n.val = "-" -> v + Word - w [] n.val = "*" -> v * w) % Word : v \in a, w \in b}
       [] n.type = "op" /\ n.val = "/" -> {q \in 0..Word - 1 : \E v \in a, w \in b : w > 0 /\ q * w <= v /\ v < (q + 1) * w}
       [] n.type = "op" /\ n.val \in {">>", "<<"} ->
            \* a word shifted by its width or more is zero, up to the width of an int
            {IF w % IntBits >= Bits THEN 0
             ELSE CHOOSE r \in 0..Word - 1 : IF n.val = ">>" THEN \E f \in 0..Word - 1 : f < 2^(w % IntBits) /\ v = r * 2^(w % IntBits) + f
                                  ELSE \E k \in 0..Word - 1 : v * 2^(w % IntBits) = k * Word + r : v \in a, w \in b}
       [] n.type = "op" /\ n.val \in {"|", "&", "^"} ->
            {CHOOSE r \in 0..Word - 1 : \A k \in 0..Bits - 1 :
               LET bit(x) == (x \div 2^k) % 2 = 1
               IN bit(r) <=> CASE n.val = "|" -> bit(v) \/ bit(w) [] n.val = "&" -> bit(v) /\ bit(w) [] n.val = "^" -> bit(v) # bit(w)
             : v \in a, w \in b}
       [] n.type = "unary" -> {CASE n.val = "~" -> Word - 1 - v [] n.val = "!" -> Bool(v = 0) [] n.val = "neg" -> (Word - v) % Word : v \in a}
       [] n.type = "mem" -> {m.mem[<<s, v>>] : <<s, v>> \in {<<s, v>> \in DOMAIN m.mem : v \in b /\
                                \E c \in a : s = IF c >= Word \div 2 THEN m.cell["q"] * m.cell["nb"] ELSE c}}
       [] OTHER -> LET r == LeafValue(n, m) IN IF r.v < 0 THEN {} ELSE {r.v}
=============================================================================
