----------------------------- MODULE MCMachine -----------------------------
(* The memory and the instructions for TLC: a behaviour is one of the memory's *)
(* or the execution of one of the cases.  Cases: every instruction with R0 and *)
(* R1 in its register field and an argument from memory or from R7, modified   *)
(* and not, on a few machines; sums and differences on many; some sequences.   *)
EXTENDS Memory, Instructions

VARIABLE part

Cfg(e, m, o, i) == [elwro |-> e, mega |-> m, os |-> o, prom |-> i]

\* one kind of memory, both, more hardwired frames, an image that cannot be read
MCConfigs == {Cfg(0, 1, 1, "default"), Cfg(1, 1, 1, "custom"), Cfg(1, 0, 2, "default"), Cfg(1, 1, 1, "bad")}

\* a module that MEGA does not have and a frame that folds in Elwro; one of MEGA
MCInCommands == {<<0, 3>>, <<1, 1>>}

Named(names) == {e \in Table : e.op \in names}
Coded(es, fields) == {<<e.code \cup f>> : <<e, f>> \in {<<e, f>> \in es \X fields : f \subseteq e.mask}}
One(name, f) == LET e == CHOOSE e \in Table : e.op = name IN e.code \cup (f \cap e.mask)
A1 == {9}
C7 == {13, 14, 15}
B7C7 == 10..15

Singles == Coded(Table, {{}, A1, C7, A1 \cup C7, {6} \cup A1 \cup C7, A1 \cup B7C7})
Sums == Coded(Named({"aw", "ac", "sw", "awt", "nga", "ngc", "cw", "cl"}), {C7, A1, A1 \cup C7})
Pairs == {<<One(i[1], C7), One(i[2], C7)>> : i \in Counterparts}
ByteWise == {<<One("md", C7), One(o, A1 \cup f)>> : o \in {"lb", "rb", "cb"}, f \in {C7, B7C7}}
Longer == {<<One("md", C7), One("md", C7), One("md", C7), One("md", {}), One("lw", A1)>>,
           <<One("cw", A1 \cup C7), One("jn", C7), One("jl", {})>>,
           <<One("bb", A1 \cup C7), One("lw", A1), One("mcl", {})>>}

MCValues == {{}, Word(1), Word(32767), {0}, Bits}
Few == [r0 : {{}, Word(43648)}, r1 : {Word(4660)}, r7 : {Word(65530)}, q : BOOLEAN, mod : {"active", "absent"}]
Many == [r0 : {{}, {3}}, r1 : MCValues, r7 : MCValues, q : {FALSE}, mod : {"present"}]
Some == [r0 : {{}}, r1 : {Word(4660)}, r7 : {Word(1), Word(32767), Word(65531)}, q : BOOLEAN, mod : {"active", "present"}]

MCCases == (Singles \cup Longer) \X Few \cup Sums \X Many \cup (Pairs \cup ByteWise) \X Some

MCCells == {0, 1, 2, 7, 16383, 32765, 32767} \cup 65530..65535
MCMemory == [x \in {0, 1} \X MCCells |-> Word(x[2] + 257 * x[1])]

Still == program = <<{}>> /\ ~q /\ mod = "absent"
MCSome == MCCases \cup {<<<<{}>>, [r0 |-> {}, r1 |-> {}, r7 |-> {}, q |-> FALSE, mod |-> "absent"]>>}

Init == /\ part \in {"memory", "execution"}
        /\ MemoryInit /\ InstrInit
        /\ part = "memory" => Still

MemoryPart == part = "memory" /\ MemoryNext /\ UNCHANGED <<part, instrVars>>
ExecutionPart == part = "execution" /\ InstrNext /\ UNCHANGED <<part, memVars>>

Next == MemoryPart \/ ExecutionPart
Spec == Init /\ [][Next]_<<part, memVars, instrVars>>

-----------------------------------------------------------------------------
\* Instructions are decoded without ambiguity, and what one for several words has
\* stored its counterpart loads (iset_register_op(), load_multiword(),
\* store_multiword()).
InstructionsSound == InstrTypeOK /\ DecodeUnique /\ SavedIsRestored
=============================================================================
