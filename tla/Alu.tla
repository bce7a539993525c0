-------------------------------- MODULE Alu ---------------------------------
(***************************************************************************)
(* The adder of the CPU (src/cpu/alu.c): sum, difference and the flags the *)
(* hardware's schematic derives from them.  A word is a number below       *)
(* 2 * Half, its sign is its highest bit; Half is a parameter, 2^15 in the *)
(* machine.                                                                *)
(***************************************************************************)
EXTENDS Integers

CONSTANT Half      \* BIT_0

ASSUME HalfAssumption == Half \in Nat \ {0}

AluWords == 0..2 * Half - 1
Negative(w) == w >= Half
Signed(w) == IF Negative(w) THEN w - 2 * Half ELSE w

\* the end of both: M and V from carry and sign, "straight from the schematic"
Outcome(ures, zero, carry, m) ==
  [sum |-> ures % (2 * Half), Z |-> zero, C |-> carry, M |-> m,
   V |-> Negative(ures % (2 * Half)) # m]

DiffBit(a, n) == Negative(a) # Negative(n)

\* alu_16_add(); V only says whether to set it
Add(a, n, carry) ==
  LET ures == a + n + carry
      c == ures >= 2 * Half
  IN Outcome(ures, Signed(a) + Signed(n) + carry = 0, c, c # DiffBit(a, n))

\* Mutant of BorrowOf: x - 0 needs no case of its own.
BorrowOfAny(ures, n) == ures >= 2 * Half

BorrowOf(ures, n) == ures >= 2 * Half \/ n = 0

\* alu_16_sub()
Sub(a, n) ==
  LET ures == a + ((0 - n) % (2 * Half))
      c == BorrowOf(ures, n)
  IN Outcome(ures, Signed(a) - Signed(n) = 0, c, c = DiffBit(a, n))

-----------------------------------------------------------------------------
(* What the flags mean, for the properties: s is the true sum or difference of *)
(* the signed numbers.                                                         *)
InRange(s) == -Half <= s /\ s < Half
Means(o, s) == /\ o.sum = s % (2 * Half)
               /\ o.Z <=> s = 0
               /\ o.M <=> s < 0
               /\ o.V <=> ~InRange(s)
=============================================================================
