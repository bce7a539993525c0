---------------------------- MODULE LinesProofs ----------------------------
(***************************************************************************)
(* What the lines of MULTIX do for a program, for any number of lines,     *)
(* boards, configurations, fields and any geometry of the drive: they are  *)
(* set up whole or not at all, results tell what was done, and a transfer  *)
(* reads and writes the sectors it was asked to.                           *)
(***************************************************************************)
EXTENDS MxLines, FiniteSetTheorems, NaturalsInduction, WellFoundedInduction, TLAPS

-----------------------------------------------------------------------------
(* Sectors of a disk of any geometry.                                      *)

LEMMA LeastNumber ==
  ASSUME NEW T \in SUBSET Nat, T # {}
  PROVE  \E m \in T : \A k \in T : m <= k
<1>1. IsWellFoundedOn(OpToRel(<, Nat), Nat)
  BY NatLessThanWellFounded, Zenon
<1>2. PICK m \in T : \A k \in T : <<k, m>> \notin OpToRel(<, Nat)
  BY <1>1, WFMin
<1>3. \A k \in T : ~(k < m)
  BY <1>2 DEF OpToRel
<1> QED
  BY <1>3

LEMMA DivisionNext ==
  ASSUME NEW d \in Nat \ {0}, NEW a \in Nat
  PROVE  IF (a % d) + 1 < d THEN (a + 1) \div d = a \div d /\ (a + 1) % d = (a % d) + 1
                          ELSE (a + 1) \div d = a \div d + 1 /\ (a + 1) % d = 0
OBVIOUS

LEMMA DivisionWhole ==
  ASSUME NEW d \in Nat \ {0}, NEW a \in Nat, a % d = 0
  PROVE  (a + d) % d = 0 /\ (a + d) \div d = (a \div d) + 1 /\ a \div d \in Nat
<1> DEFINE q == a \div d
           t == (a + d) \div d
           u == (a + d) % d
<1>1. q \in Nat /\ a = d * q
  OBVIOUS
<1>2. t \in Nat /\ u \in Nat /\ u < d /\ a + d = d * t + u
  OBVIOUS
<1>3. d * t + u = d * (q + 1)
  BY <1>1, <1>2
<1> HIDE DEF q, t, u
<1>4. t = q + 1
  <2>1. CASE t < q + 1
    <3>1. d * t + d <= d * (q + 1)
      <4>1. d * (t + 1) <= d * (q + 1)
        BY <1>1, <1>2, <2>1
      <4>2. d * (t + 1) = d * t + d
        BY <1>2
      <4> QED
        BY <4>1, <4>2
    <3> QED
      BY <1>1, <1>2, <1>3, <3>1
  <2>2. CASE t > q + 1
    <3>1. d * (q + 1) + d <= d * t
      <4>1. d * (q + 2) <= d * t
        BY <1>1, <1>2, <2>2
      <4>2. d * (q + 2) = d * (q + 1) + d
        BY <1>1
      <4> QED
        BY <4>1, <4>2
    <3> QED
      BY <1>1, <1>2, <1>3, <3>1
  <2> QED
    BY <1>1, <1>2, <2>1, <2>2
<1>5. u = 0
  BY <1>1, <1>2, <1>3, <1>4
<1> QED
  BY <1>1, <1>4, <1>5 DEF q, t, u

LEMMA DivisionTwice ==
  ASSUME NEW d \in Nat \ {0}, NEW h \in Nat \ {0}, NEW a \in Nat
  PROVE  a \div (h * d) = (a \div d) \div h
OBVIOUS

\* chs_next() goes where lba2chs() says that the next sector is
LEMMA NextSector ==
  ASSUME NEW lba \in Nat, NEW heads \in Nat \ {0}
  PROVE  ChsNext(Chs(lba, heads), heads) = Chs(lba + 1, heads)
<1> DEFINE track(n) == n \div SPT
<1>1. SPT \in Nat \ {0}
  BY MxLinesAssumption
<1>2. Chs(lba, heads) = [c |-> track(lba) \div heads + 1, h |-> track(lba) % heads, s |-> lba % SPT]
  BY <1>1, DivisionTwice DEF Chs
<1>3. Chs(lba + 1, heads) = [c |-> track(lba + 1) \div heads + 1, h |-> track(lba + 1) % heads, s |-> (lba + 1) % SPT]
  <2>1. (lba + 1) \div (heads * SPT) = track(lba + 1) \div heads
    BY <1>1, DivisionTwice
  <2> QED
    BY <2>1 DEF Chs
<1>4. track(lba) \in Nat
  BY <1>1
<1>5. IF (lba % SPT) + 1 < SPT THEN track(lba + 1) = track(lba) /\ (lba + 1) % SPT = (lba % SPT) + 1
                             ELSE track(lba + 1) = track(lba) + 1 /\ (lba + 1) % SPT = 0
  BY <1>1, DivisionNext
<1> DEFINE t == track(lba)
<1>6. IF (t % heads) + 1 < heads THEN (t + 1) \div heads = t \div heads /\ (t + 1) % heads = (t % heads) + 1
                               ELSE (t + 1) \div heads = t \div heads + 1 /\ (t + 1) % heads = 0
  <2> HIDE DEF t, track
  <2> QED
    BY <1>4, DivisionNext DEF t
<1> HIDE DEF track
<1>7. CASE (lba % SPT) + 1 < SPT
  BY <1>2, <1>3, <1>5, <1>7 DEF ChsNext
<1>8. CASE ~((lba % SPT) + 1 < SPT)
  <2> DEFINE at == Chs(lba, heads)
  <2>1. at.s = lba % SPT /\ at.h = t % heads /\ at.c = t \div heads + 1
    BY <1>2
  <2>2. track(lba + 1) = t + 1 /\ (lba + 1) % SPT = 0
    BY <1>5, <1>8
  <2>3. CASE (t % heads) + 1 < heads
    <3>1. ChsNext(at, heads) = [c |-> at.c, h |-> at.h + 1, s |-> 0]
      BY <1>8, <2>1, <2>3 DEF ChsNext
    <3> QED
      BY <1>3, <1>6, <2>1, <2>2, <2>3, <3>1
  <2>4. CASE ~((t % heads) + 1 < heads)
    <3>1. ChsNext(at, heads) = [c |-> at.c + 1, h |-> 0, s |-> 0]
      BY <1>8, <2>1, <2>4 DEF ChsNext
    <3> QED
      BY <1>3, <1>6, <2>1, <2>2, <2>4, <3>1
  <2> QED
    BY <2>3, <2>4
<1> QED
  BY <1>7, <1>8

-----------------------------------------------------------------------------
(* A line's thread and what it has in hand.                                *)

Ops == {f.op : f \in Fields} \cup {"read"}
Commands == {"attach", "detach", "transmit", "abort"}
Irqs == {"IDOLI", "IODLI", "INPAO", "IETRA", "INTRA", "ITRER", "INABT"}
Errors == {"ERR", "NO_SECTOR", "NOT_READY", "NO_DISC"}
FieldSet == [op : Ops, addr : Nat, n : Nat, sector : Nat]
Datas == [op : Ops, addr : Nat, len : Nat, sector : Nat, heads : Nat, ret_len : Nat, ret_status : SUBSET Errors]
Fielded == [len : Nat \cup {"old", "leftover"}, status : SUBSET (Errors \cup {"old"})]
Spots == [c : Nat, h : Nat, s : Nat]

LinesTyped ==
  /\ pc \in [Phys -> {"idle", "decode", "read", "write", "format"}]
  /\ cmd \in [Phys -> Commands] /\ field \in [Phys -> FieldSet] /\ data \in [Phys -> Datas]
  /\ chs \in [Phys -> [at : Spots, left : Nat]] /\ moved \in [Phys -> Nat]
  /\ answer \in [Phys -> Irqs \cup {"none"}] /\ results \in [Phys -> Fielded]
  /\ mem = [a \in 0..Words - 1 |-> mem[a]]
  /\ \A l \in DOMAIN llines : llines[l] \in Phys

\* what has been carried over is what the fields will say, and leads to the sector in hand
Carrying(p) ==
  pc[p] \in {"read", "write"} =>
    /\ moved[p] = data[p].ret_len /\ data[p].ret_status = {} /\ data[p].ret_len <= data[p].len
    /\ data[p].ret_len < data[p].len =>
         data[p].ret_len % SectorWords = 0 /\ chs[p].at = Chs(Reached(p), data[p].heads)
Formatting(p) ==
  pc[p] = "format" =>
    chs[p].left <= SPT /\ chs[p].at = Chs(data[p].sector + SPT - chs[p].left, data[p].heads)
Told(p) ==
  answer[p] \in {"IETRA", "ITRER"} /\ plines[p].proto = "winchester" /\ data[p].op \in {"read", "write"} =>
    /\ results[p].len = moved[p]
    /\ answer[p] = "IETRA" => moved[p] = data[p].len /\ results[p].status = {}
    /\ answer[p] = "ITRER" => results[p].status # {}

LineInv(p) ==
  /\ plines[p].proto = "winchester" => data[p].heads > 0
  /\ pc[p] \in {"read", "write", "format"} =>
       plines[p].proto = "winchester" /\ cmd[p] = "transmit" /\ data[p].op = pc[p]
  /\ pc[p] = "decode" => moved[p] = 0
  /\ pc[p] # "idle" => answer[p] = "none" /\ llines # <<>>
  /\ llines = <<>> => answer[p] = "none"
  /\ Carrying(p) /\ Formatting(p) /\ Told(p)

\* nothing is set up before SETCFG and after a reset
Unconfigured == llines = <<>> => plines = [p \in Phys |-> Unused]

LinesInv == LinesTyped /\ (\A p \in Phys : LineInv(p)) /\ LinesSetUp /\ Unconfigured

\* a line that a step is not about
Kept(p) ==
  /\ plines'[p] = plines[p] /\ pc'[p] = pc[p] /\ cmd'[p] = cmd[p] /\ data'[p] = data[p] /\ chs'[p] = chs[p]
  /\ answer'[p] = answer[p] /\ results'[p] = results[p] /\ moved'[p] = moved[p]

LEMMA KeptLine ==
  ASSUME NEW p \in Phys, LineInv(p), Kept(p), llines' = llines
  PROVE  LineInv(p)'
BY DEF LineInv, Kept, Carrying, Formatting, Told, Reached

LEMMA SpotsAre ==
  ASSUME NEW lba \in Nat, NEW heads \in Nat \ {0}
  PROVE  Chs(lba, heads) \in Spots
<1>1. SPT \in Nat \ {0} /\ heads * SPT \in Nat \ {0}
  BY MxLinesAssumption
<1>2. lba \div (heads * SPT) \in Nat /\ lba \div SPT \in Nat /\ (lba \div SPT) % heads \in Nat /\ lba % SPT \in Nat
  BY <1>1
<1> QED
  BY <1>2 DEF Chs, Spots

\* the end of a command
LEMMA EndedLine ==
  ASSUME LinesTyped, NEW p \in Phys, NEW d \in Datas, NEW irq \in Irqs, Ended(p, d, irq)
  PROVE  /\ pc' \in [Phys -> {"idle", "decode", "read", "write", "format"}] /\ pc'[p] = "idle"
         /\ answer' \in [Phys -> Irqs \cup {"none"}] /\ answer'[p] \in {irq, "INPAO"}
         /\ results' \in [Phys -> Fielded]
         /\ \A q \in Phys \ {p} : pc'[q] = pc[q] /\ answer'[q] = answer[q] /\ results'[q] = results[q]
         /\ Encodes(p) /\ irq # "INPAO" /\ answer'[p] = irq =>
              results'[p].len = (IF d.op \in {"read", "write"} THEN d.ret_len ELSE "leftover")
              /\ results'[p].status = d.ret_status
<1>1. pc' \in [Phys -> {"idle", "decode", "read", "write", "format"}] /\ pc'[p] = "idle" /\ \A q \in Phys \ {p} : pc'[q] = pc[q]
  BY DEF Ended, LinesTyped
<1>2. CASE ~Encodes(p) \/ irq = "INPAO"
  <2>1. answer' = [answer EXCEPT ![p] = irq] /\ results' = results
    BY <1>2 DEF Ended
  <2> QED
    BY <1>1, <1>2, <2>1 DEF LinesTyped
<1>3. CASE Encodes(p) /\ irq # "INPAO"
  <2> DEFINE res == [len |-> IF d.op \in {"read", "write"} THEN d.ret_len ELSE "leftover", status |-> d.ret_status]
  <2>1. PICK written \in BOOLEAN :
          /\ answer' = [answer EXCEPT ![p] = IF written THEN irq ELSE "INPAO"]
          /\ results' = IF ~written THEN results ELSE [results EXCEPT ![p] = res]
    BY <1>3 DEF Ended
  <2>2. res \in Fielded /\ res.len = (IF d.op \in {"read", "write"} THEN d.ret_len ELSE "leftover") /\ res.status = d.ret_status
    BY DEF Fielded, Datas
  <2> HIDE DEF res
  <2>0. "INPAO" \in Irqs
    BY DEF Irqs
  <2>3. answer' \in [Phys -> Irqs \cup {"none"}] /\ answer'[p] \in {irq, "INPAO"} /\ \A q \in Phys \ {p} : answer'[q] = answer[q]
    <3>1. CASE written
      BY <2>1, <3>1 DEF LinesTyped
    <3>2. CASE ~written
      BY <2>0, <2>1, <3>2 DEF LinesTyped
    <3> QED
      BY <3>1, <3>2
  <2>4. results' \in [Phys -> Fielded] /\ \A q \in Phys \ {p} : results'[q] = results[q]
    <3>1. CASE written
      BY <2>1, <2>2, <3>1 DEF LinesTyped
    <3>2. CASE ~written
      BY <2>1, <3>2 DEF LinesTyped
    <3> QED
      BY <3>1, <3>2
  <2>5. answer'[p] = irq => results'[p] = res
    BY <1>3, <2>1 DEF LinesTyped
  <2> QED
    BY <1>1, <2>2, <2>3, <2>4, <2>5
<1> QED
  BY <1>2, <1>3
-----------------------------------------------------------------------------
(* The steps.                                                              *)

LEMMA OneLine ==
  ASSUME LinesInv, NEW p \in Phys, UNCHANGED confs, LinesTyped', LineInv(p)', \A q \in Phys \ {p} : Kept(q)
  PROVE  LinesInv'
<1>1. llines' = llines /\ plines' = plines /\ setcfg' = setcfg
  BY DEF confs
<1>2. \A q \in Phys : LineInv(q)'
  BY <1>1, KeptLine DEF LinesInv
<1>3. LinesSetUp'
  BY <1>1 DEF LinesInv, LinesSetUp, Complete
<1>4. Unconfigured'
  BY <1>1 DEF LinesInv, Unconfigured
<1> QED
  BY <1>2, <1>3, <1>4 DEF LinesInv

\* a line that comes to the end of its command
LEMMA Finished ==
  ASSUME LinesInv, NEW p \in Phys, pc[p] # "idle", NEW d \in Datas, NEW irq \in Irqs, Ended(p, d, irq),
         UNCHANGED <<confs, cmd, field, moved>>,
         data' \in [Phys -> Datas], data'[p].heads = data[p].heads, \A q \in Phys \ {p} : data'[q] = data[q],
         chs' \in [Phys -> [at : Spots, left : Nat]], \A q \in Phys \ {p} : chs'[q] = chs[q],
         mem' = [a \in 0..Words - 1 |-> mem'[a]],
         Told(p)'
  PROVE  LinesInv'
<1>1. llines' = llines /\ plines' = plines /\ setcfg' = setcfg
  BY DEF confs
<1>2. LinesTyped'
  BY <1>1, EndedLine DEF LinesInv, LinesTyped
<1>3. \A q \in Phys \ {p} : Kept(q)
  BY <1>1, EndedLine DEF LinesInv, Kept
<1>4. LineInv(p)'
  BY <1>1, EndedLine DEF LinesInv, LineInv, Carrying, Formatting
<1> QED
  BY <1>2, <1>3, <1>4, OneLine

LEMMA AttachStep == ASSUME LinesInv, NEW p \in Phys, Attach(p) \/ Detach(p) \/ Refused(p) PROVE LinesInv'
<1>1. PICK irq \in {"IDOLI", "IODLI", "INPAO"} : Ended(p, data[p], irq)
  BY DEF Attach, Detach, Refused
<1>2. /\ UNCHANGED <<confs, cmd, field, data, chs, moved, mem>> /\ pc[p] = "decode"
  BY DEF Attach, Detach, Refused, transfers
<1>3. irq \in Irqs /\ data[p] \in Datas
  BY DEF Irqs, LinesInv, LinesTyped
<1>4. answer'[p] \notin {"IETRA", "ITRER"}
  BY <1>1, <1>3, EndedLine DEF LinesInv
<1>5. Told(p)'
  BY <1>4 DEF Told
<1> QED
  BY <1>1, <1>2, <1>3, <1>5, Finished DEF LinesInv, LinesTyped

LEMMA TerminalStep == ASSUME LinesInv, NEW p \in Phys, Terminal(p) PROVE LinesInv'
<1>1. PICK irq \in {"IETRA", "INTRA"} : Ended(p, data[p], irq)
  BY DEF Terminal
<1>2. /\ UNCHANGED <<confs, cmd, field, data, chs, moved, mem>> /\ pc[p] = "decode" /\ plines[p].proto = "terminal"
  BY DEF Terminal, transfers
<1>3. irq \in Irqs /\ data[p] \in Datas
  BY DEF Irqs, LinesInv, LinesTyped
<1>4. Told(p)'
  BY <1>2 DEF Told, confs
<1> QED
  BY <1>1, <1>2, <1>3, <1>4, Finished DEF LinesInv, LinesTyped

LEMMA FloppyStep == ASSUME LinesInv, NEW p \in Phys, Floppy(p) PROVE LinesInv'
<1> DEFINE known == field[p].op \in {"format", "read", "write", "errsect"}
           d == [data[p] EXCEPT !.op = field[p].op, !.ret_len = IF known THEN 0 ELSE @,
                                !.ret_status = IF known THEN {"NO_DISC"} ELSE @]
<1>1. /\ pc[p] = "decode" /\ plines[p].proto = "floppy"
      /\ UNCHANGED <<confs, cmd, field, chs, mem, moved>>
      /\ \/ data' = [data EXCEPT ![p] = d] /\ Ended(p, d, IF known THEN "ITRER" ELSE "INTRA")
         \/ Ended(p, data[p], "INABT") /\ UNCHANGED data
  BY DEF Floppy
<1>2. data[p] \in Datas /\ field[p].op \in Ops /\ {"NO_DISC"} \in SUBSET Errors
  BY DEF LinesInv, LinesTyped, FieldSet, Errors
<1>3. d \in Datas /\ d.heads = data[p].heads
  BY <1>2 DEF Datas
<1>4. Told(p)'
  BY <1>1 DEF Told, confs
<1> HIDE DEF d
<1>5. ASSUME data' = [data EXCEPT ![p] = d], Ended(p, d, IF known THEN "ITRER" ELSE "INTRA") PROVE LinesInv'
  <2> DEFINE irq == IF known THEN "ITRER" ELSE "INTRA"
  <2>1. irq \in Irqs /\ Ended(p, d, irq)
    BY <1>5 DEF Irqs
  <2>2. data' \in [Phys -> Datas] /\ data'[p].heads = data[p].heads /\ \A q \in Phys \ {p} : data'[q] = data[q]
    BY <1>3, <1>5 DEF LinesInv, LinesTyped
  <2>3. /\ pc[p] # "idle" /\ UNCHANGED <<confs, cmd, field, moved>>
        /\ chs' \in [Phys -> [at : Spots, left : Nat]] /\ \A q \in Phys \ {p} : chs'[q] = chs[q]
        /\ mem' = [a \in 0..Words - 1 |-> mem'[a]]
    BY <1>1 DEF LinesInv, LinesTyped
  <2> HIDE DEF irq
  <2> QED
    BY <1>3, <1>4, <2>1, <2>2, <2>3, Finished
<1>6. ASSUME Ended(p, data[p], "INABT"), UNCHANGED data PROVE LinesInv'
  <2>1. "INABT" \in Irqs
    BY DEF Irqs
  <2> QED
    BY <1>1, <1>2, <1>4, <1>6, <2>1, Finished DEF LinesInv, LinesTyped
<1> QED
  BY <1>1, <1>5, <1>6

LEMMA WinchesterStep == ASSUME LinesInv, NEW p \in Phys, Winchester(p) PROVE LinesInv'
<1> DEFINE f == field[p]
           d == [data[p] EXCEPT !.op = f.op, !.addr = f.addr, !.len = (f.n + 1) % Words, !.sector = f.sector,
                                !.ret_len = 0, !.ret_status = {}]
           no == [d EXCEPT !.ret_status = {"NOT_READY"}]
           first == Chs(f.sector, d.heads)
<1>1. /\ pc[p] = "decode" /\ cmd[p] = "transmit" /\ plines[p].proto = "winchester"
      /\ UNCHANGED <<confs, cmd, field, mem, moved>>
      /\ IF ~ready THEN data' = [data EXCEPT ![p] = no] /\ Ended(p, no, "ITRER") /\ UNCHANGED <<chs, buf>>
         ELSE IF f.op \in {"read", "write", "format"}
         THEN /\ data' = [data EXCEPT ![p] = d] /\ chs' = [chs EXCEPT ![p] = [at |-> first, left |-> SPT]]
              /\ pc' = [pc EXCEPT ![p] = f.op] /\ UNCHANGED <<answer, results>>
         ELSE /\ data' = [data EXCEPT ![p] = d]
              /\ Ended(p, d, IF f.op \in {"spare", "park"} THEN "IETRA" ELSE "INTRA") /\ UNCHANGED <<chs, buf>>
  BY Zenon DEF Winchester
<1>2. data[p] \in Datas /\ f \in FieldSet /\ data[p].heads > 0 /\ moved[p] = 0 /\ answer[p] = "none" /\ llines # <<>>
  BY <1>1 DEF LinesInv, LinesTyped, LineInv
<1>3. /\ f.op \in Ops /\ f.addr \in Nat /\ (f.n + 1) % Words \in Nat /\ f.sector \in Nat
      /\ {"NOT_READY"} \in SUBSET Errors
  <2>1. f.op \in Ops /\ f.addr \in Nat /\ f.n \in Nat /\ f.sector \in Nat
    BY <1>2 DEF FieldSet
  <2>2. Words \in Nat \ {0}
    BY MxLinesAssumption
  <2>3. (f.n + 1) % Words \in Nat
    <3> DEFINE n == f.n
    <3>1. n \in Nat
      BY <2>1
    <3> HIDE DEF n
    <3>2. (n + 1) % Words \in Nat
      BY <2>2, <3>1
    <3> QED
      BY <3>2 DEF n
  <2> QED
    BY <2>1, <2>3 DEF Errors
<1>4. /\ d \in Datas /\ d.op = f.op /\ d.len = (f.n + 1) % Words /\ d.sector = f.sector /\ d.heads = data[p].heads
      /\ d.ret_len = 0 /\ d.ret_status = {}
  BY <1>2, <1>3 DEF Datas
<1> HIDE DEF d
<1>5. no \in Datas /\ no.op = f.op /\ no.ret_len = 0 /\ no.ret_status = {"NOT_READY"} /\ no.heads = data[p].heads
  BY <1>3, <1>4 DEF Datas
<1>6. LinesTyped /\ chs \in [Phys -> [at : Spots, left : Nat]]
  BY DEF LinesInv, LinesTyped
<1> HIDE DEF no
<1>10. /\ pc[p] # "idle" /\ UNCHANGED <<confs, cmd, field, moved>>
       /\ mem' = [a \in 0..Words - 1 |-> mem'[a]]
  BY <1>1, <1>6 DEF LinesTyped
<1>7. CASE ~ready
  <2>1. data' = [data EXCEPT ![p] = no] /\ Ended(p, no, "ITRER") /\ UNCHANGED chs
    BY <1>1, <1>7
  <2>2. data' \in [Phys -> Datas] /\ data'[p] = no /\ \A q \in Phys \ {p} : data'[q] = data[q]
    BY <1>5, <1>6, <2>1 DEF LinesTyped
  <2>3. "ITRER" \in Irqs /\ Encodes(p)
    BY <1>1 DEF Irqs, Encodes
  <2>4. Told(p)'
    <3>1. answer'[p] \in {"ITRER", "INPAO"}
      BY <1>5, <1>6, <2>1, <2>3, EndedLine
    <3>2. answer'[p] = "ITRER" => results'[p].len = (IF no.op \in {"read", "write"} THEN no.ret_len ELSE "leftover")
                                  /\ results'[p].status = no.ret_status
      BY <1>5, <1>6, <2>1, <2>3, EndedLine
    <3> QED
      BY <1>1, <1>2, <1>5, <2>2, <3>1, <3>2 DEF Told
  <2>5. data'[p].heads = data[p].heads
    BY <1>5, <2>2
  <2>6. chs' \in [Phys -> [at : Spots, left : Nat]] /\ \A q \in Phys \ {p} : chs'[q] = chs[q]
    BY <1>6, <2>1
  <2> QED
    BY <1>5, <1>10, <2>1, <2>2, <2>3, <2>4, <2>5, <2>6, Finished
<1>8. CASE ready /\ f.op \in {"read", "write", "format"}
  <2>1. /\ data' = [data EXCEPT ![p] = d] /\ chs' = [chs EXCEPT ![p] = [at |-> first, left |-> SPT]]
        /\ pc' = [pc EXCEPT ![p] = f.op] /\ UNCHANGED <<answer, results>>
    BY <1>1, <1>8
  <2>2. first \in Spots /\ SPT \in Nat
    <3>1. d.heads \in Nat \ {0}
      BY <1>2, <1>4 DEF Datas
    <3> QED
      BY <1>3, <3>1, SpotsAre, MxLinesAssumption
  <2> HIDE DEF first
  <2>3. /\ data' \in [Phys -> Datas] /\ data'[p] = d /\ \A q \in Phys \ {p} : data'[q] = data[q]
        /\ pc' \in [Phys -> {"idle", "decode", "read", "write", "format"}] /\ pc'[p] = f.op /\ \A q \in Phys \ {p} : pc'[q] = pc[q]
    BY <1>4, <1>6, <1>8, <2>1 DEF LinesTyped
  <2>4. /\ chs' \in [Phys -> [at : Spots, left : Nat]] /\ chs'[p].at = first /\ chs'[p].left = SPT
        /\ \A q \in Phys \ {p} : chs'[q] = chs[q]
    BY <1>6, <2>1, <2>2
  <2>5. LinesTyped'
    BY <1>1, <1>6, <2>1, <2>3, <2>4 DEF LinesTyped, confs
  <2>6. \A q \in Phys \ {p} : Kept(q)
    BY <1>1, <2>1, <2>3, <2>4 DEF Kept, confs
  <2>7. Carrying(p)'
    <3>1. Reached(p)' = f.sector
      BY <1>3, <1>4, <2>3, MxLinesAssumption DEF Reached
    <3>2. 0 % SectorWords = 0
      BY MxLinesAssumption
    <3> QED
      BY <1>1, <1>2, <1>3, <1>4, <2>3, <2>4, <3>1, <3>2 DEF Carrying, first
  <2>8. Formatting(p)'
    <3>1. f.sector + SPT - SPT = f.sector
      BY <1>3, <2>2
    <3> QED
      BY <1>4, <2>2, <2>3, <2>4, <3>1 DEF Formatting, first
  <2>9. LineInv(p)'
    BY <1>1, <1>2, <1>4, <1>8, <2>1, <2>3, <2>7, <2>8 DEF LineInv, Told, confs
  <2> QED
    BY <1>1, <2>5, <2>6, <2>9, OneLine
<1>9. CASE ready /\ f.op \notin {"read", "write", "format"}
  <2> DEFINE irq == IF f.op \in {"spare", "park"} THEN "IETRA" ELSE "INTRA"
  <2>1. data' = [data EXCEPT ![p] = d] /\ Ended(p, d, irq) /\ UNCHANGED chs
    BY <1>1, <1>9
  <2>2. data' \in [Phys -> Datas] /\ data'[p] = d /\ \A q \in Phys \ {p} : data'[q] = data[q]
    BY <1>4, <1>6, <2>1 DEF LinesTyped
  <2>3. irq \in Irqs
    BY DEF Irqs
  <2>4. Told(p)'
    BY <1>4, <1>9, <2>2 DEF Told
  <2>5. data'[p].heads = data[p].heads
    BY <1>4, <2>2
  <2>6. chs' \in [Phys -> [at : Spots, left : Nat]] /\ \A q \in Phys \ {p} : chs'[q] = chs[q]
    BY <1>6, <2>1
  <2> HIDE DEF irq
  <2> QED
    BY <1>4, <1>10, <2>1, <2>2, <2>3, <2>4, <2>5, <2>6, Finished
<1> QED
  BY <1>7, <1>8, <1>9

\* the sector in hand is done: what was carried over leads to the next one
LEMMA FurtherLine ==
  ASSUME LinesInv, NEW p \in Phys, pc[p] \in {"read", "write"}, data[p].ret_len < data[p].len, Further(p, data[p]),
         UNCHANGED <<confs, cmd, field>>, mem' = [a \in 0..Words - 1 |-> mem'[a]]
  PROVE  LinesInv'
<1> DEFINE d == data[p]
           n == Count(d)
           further == [d EXCEPT !.ret_len = @ + n]
<1>1. /\ LinesTyped /\ d \in Datas /\ d.op = pc[p] /\ plines[p].proto = "winchester" /\ cmd[p] = "transmit"
      /\ d.heads > 0 /\ answer[p] = "none" /\ llines # <<>>
      /\ moved[p] = d.ret_len /\ d.ret_status = {} /\ d.ret_len % SectorWords = 0 /\ chs[p].at = Chs(Reached(p), d.heads)
  BY DEF LinesInv, LineInv, LinesTyped, Carrying
<1>2. d.ret_len \in Nat /\ d.len \in Nat /\ d.sector \in Nat /\ d.heads \in Nat \ {0} /\ SectorWords \in Nat \ {0} /\ d.ret_len < d.len
  BY <1>1, MxLinesAssumption DEF Datas
<1>3. /\ n \in Nat /\ d.ret_len + n \in Nat /\ d.ret_len + n <= d.len
      /\ d.ret_len + n < d.len => n = SectorWords
  BY <1>2 DEF Count, LeastOf
<1> HIDE DEF n
<1>4. further \in Datas /\ further.ret_len = d.ret_len + n /\ further.op = d.op /\ further.heads = d.heads
      /\ further.len = d.len /\ further.sector = d.sector /\ further.ret_status = {}
  BY <1>1, <1>3 DEF Datas
<1>5. /\ data' = [data EXCEPT ![p] = further] /\ moved' = [moved EXCEPT ![p] = @ + n]
      /\ chs' = [chs EXCEPT ![p].at = ChsNext(@, d.heads)] /\ UNCHANGED <<pc, answer, results>>
  BY DEF Further, n
<1> HIDE DEF further
<1>6. /\ data' \in [Phys -> Datas] /\ data'[p] = further /\ \A q \in Phys \ {p} : data'[q] = data[q]
      /\ moved' \in [Phys -> Nat] /\ moved'[p] = d.ret_len + n /\ \A q \in Phys \ {p} : moved'[q] = moved[q]
  <2>1. moved[p] + n \in Nat
    BY <1>1, <1>3
  <2> QED
    BY <1>1, <1>4, <1>5, <2>1 DEF LinesTyped
<1>7. Reached(p) \in Nat
  <2> DEFINE r == d.ret_len
  <2>1. r \in Nat
    BY <1>2
  <2> HIDE DEF r
  <2>2. r \div SectorWords \in Nat
    BY <1>2, <2>1
  <2> QED
    BY <1>2, <2>2 DEF Reached, r
<1>8. ChsNext(chs[p].at, d.heads) = Chs(Reached(p) + 1, d.heads)
  BY <1>1, <1>2, <1>7, NextSector
<1>9. ChsNext(chs[p].at, d.heads) \in Spots
  <2>1. Reached(p) + 1 \in Nat
    BY <1>7
  <2> QED
    BY <1>2, <1>8, <2>1, SpotsAre
<1>10. /\ chs' \in [Phys -> [at : Spots, left : Nat]] /\ chs'[p].at = Chs(Reached(p) + 1, d.heads)
       /\ \A q \in Phys \ {p} : chs'[q] = chs[q]
  BY <1>1, <1>5, <1>8, <1>9 DEF LinesTyped
<1>11. LinesTyped'
  BY <1>1, <1>5, <1>6, <1>10 DEF LinesTyped, confs
<1>12. \A q \in Phys \ {p} : Kept(q)
  BY <1>5, <1>6, <1>10 DEF Kept, confs
<1>13. Carrying(p)'
  <2>1. CASE d.ret_len + n < d.len
    <3> DEFINE r == d.ret_len
    <3>1. r \in Nat /\ r % SectorWords = 0 /\ n = SectorWords
      BY <1>1, <1>2, <1>3, <2>1
    <3> HIDE DEF r
    <3>2. (r + SectorWords) % SectorWords = 0 /\ (r + SectorWords) \div SectorWords = (r \div SectorWords) + 1 /\ r \div SectorWords \in Nat
      BY <1>2, <3>1, DivisionWhole
    <3>3. d.sector + ((r + SectorWords) \div SectorWords) = d.sector + (r \div SectorWords) + 1
      BY <1>2, <3>2
    <3>4. Reached(p)' = Reached(p) + 1
      BY <1>4, <1>6, <3>1, <3>3 DEF Reached, r
    <3> QED
      BY <1>1, <1>3, <1>4, <1>6, <1>10, <3>1, <3>2, <3>4 DEF Carrying, r
  <2>2. CASE ~(d.ret_len + n < d.len)
    BY <1>3, <1>4, <1>6, <2>2 DEF Carrying
  <2> QED
    BY <2>1, <2>2
<1>14. LineInv(p)'
  BY <1>1, <1>4, <1>5, <1>6, <1>13 DEF LineInv, Told, Formatting, confs
<1> QED
  BY <1>11, <1>12, <1>14, OneLine

\* the end of a transfer, well or not
LEMMA TransferEnds ==
  ASSUME LinesInv, NEW p \in Phys, pc[p] \in {"read", "write", "format"}, NEW irq \in {"IETRA", "ITRER", "INPAO"},
         NEW d, d = (IF irq = "ITRER" THEN Failed(data[p]) ELSE data[p]), Ended(p, d, irq),
         irq = "IETRA" => pc[p] = "format" \/ data[p].ret_len >= data[p].len,
         data' = [data EXCEPT ![p] = d], UNCHANGED <<confs, cmd, field, moved, chs>>,
         mem' = [a \in 0..Words - 1 |-> mem'[a]]
  PROVE  LinesInv'
<1>1. /\ LinesTyped /\ data[p] \in Datas /\ data[p].op = pc[p] /\ plines[p].proto = "winchester" /\ cmd[p] = "transmit"
      /\ pc[p] # "format" => moved[p] = data[p].ret_len /\ data[p].ret_status = {} /\ data[p].ret_len <= data[p].len
  BY DEF LinesInv, LineInv, LinesTyped, Carrying
<1>2. {"ERR", "NO_SECTOR"} \in SUBSET Errors /\ {"ERR", "NO_SECTOR"} # {}
  BY DEF Errors
<1>3. /\ d \in Datas /\ d.op = pc[p] /\ d.ret_len = data[p].ret_len /\ d.len = data[p].len /\ d.heads = data[p].heads
      /\ irq = "ITRER" => d.ret_status # {}
      /\ irq # "ITRER" => d = data[p]
  <2>1. CASE irq = "ITRER"
    <3>1. d = [data[p] EXCEPT !.ret_status = {"ERR", "NO_SECTOR"}]
      BY <2>1 DEF Failed
    <3> QED
      BY <1>1, <1>2, <2>1, <3>1 DEF Datas
  <2>2. CASE irq # "ITRER"
    BY <1>1, <2>2
  <2> QED
    BY <2>1, <2>2
<1>4. data' \in [Phys -> Datas] /\ data'[p] = d /\ \A q \in Phys \ {p} : data'[q] = data[q]
  BY <1>1, <1>3 DEF LinesTyped
<1>5. irq \in Irqs /\ Encodes(p)
  BY <1>1 DEF Irqs, Encodes
<1>6. Told(p)'
  <2>1. CASE pc[p] = "format"
    BY <1>3, <1>4, <2>1 DEF Told
  <2>2. CASE pc[p] # "format"
    <3>1. answer'[p] \in {irq, "INPAO"}
          /\ (irq # "INPAO" /\ answer'[p] = irq => results'[p].len = d.ret_len /\ results'[p].status = d.ret_status)
      <4>1. d.op \in {"read", "write"}
        BY <1>3, <2>2
      <4> QED
        BY <1>1, <1>3, <1>5, <4>1, EndedLine
    <3>2. moved'[p] = d.ret_len /\ (irq = "IETRA" => d.ret_len = d.len /\ d.ret_status = {})
      <4>1. data[p].ret_len \in Nat /\ data[p].len \in Nat
        BY <1>1 DEF Datas
      <4> QED
        BY <1>1, <1>3, <2>2, <4>1
    <3> QED
      BY <1>3, <1>4, <3>1, <3>2 DEF Told
  <2> QED
    BY <2>1, <2>2
<1>7. chs' \in [Phys -> [at : Spots, left : Nat]] /\ \A q \in Phys \ {p} : chs'[q] = chs[q]
  BY <1>1 DEF LinesTyped
<1>8. pc[p] # "idle" /\ UNCHANGED <<confs, cmd, field, moved>> /\ data'[p].heads = data[p].heads
  BY <1>3, <1>4
<1> QED
  BY <1>3, <1>4, <1>5, <1>6, <1>7, <1>8, Finished

LEMMA WinchReadStep == ASSUME LinesInv, NEW p \in Phys, WinchRead(p) PROVE LinesInv'
<1> DEFINE d == data[p]
<1>1. pc[p] = "read" /\ UNCHANGED <<confs, cmd, field>>
  BY DEF WinchRead
<1>2. LinesTyped /\ data = [data EXCEPT ![p] = d] /\ mem = [a \in 0..Words - 1 |-> mem[a]]
  BY DEF LinesInv, LinesTyped
<1>8. DOMAIN mem = 0..Words - 1
  BY <1>2
<1>3. \/ d.ret_len >= d.len /\ Ended(p, d, "IETRA") /\ UNCHANGED <<data, chs, mem, moved>>
      \/ data' = [data EXCEPT ![p] = Failed(d)] /\ Ended(p, Failed(d), "ITRER") /\ UNCHANGED <<chs, mem, moved>>
      \/ \E words, n : d.ret_len < d.len /\ mem' = SectorLoaded(d, words, n) /\ Further(p, d)
      \/ \E words, n : mem' = SectorLoaded(d, words, n) /\ Ended(p, d, "INPAO") /\ UNCHANGED <<data, chs, moved>>
  BY Zenon DEF WinchRead
<1>4. CASE d.ret_len >= d.len /\ Ended(p, d, "IETRA") /\ UNCHANGED <<data, chs, mem, moved>>
  <2> HIDE DEF d
  <2> QED
    BY <1>1, <1>2, <1>4, TransferEnds DEF d
<1>5. CASE data' = [data EXCEPT ![p] = Failed(d)] /\ Ended(p, Failed(d), "ITRER") /\ UNCHANGED <<chs, mem, moved>>
  BY <1>1, <1>2, <1>5, TransferEnds
<1>6. ASSUME NEW words, NEW n, d.ret_len < d.len, mem' = SectorLoaded(d, words, n), Further(p, d) PROVE LinesInv'
  <2>0. SectorLoaded(d, words, n) = [a \in 0..Words - 1 |-> SectorLoaded(d, words, n)[a]]
    BY <1>8 DEF SectorLoaded
  <2>1. mem' = [a \in 0..Words - 1 |-> mem'[a]]
    <3> DEFINE loaded == SectorLoaded(d, words, n)
    <3>1. mem' = loaded /\ loaded = [a \in 0..Words - 1 |-> loaded[a]]
      BY <1>6, <2>0
    <3> HIDE DEF loaded
    <3> QED
      BY <3>1
  <2> QED
    BY <1>1, <1>6, <2>1, FurtherLine
<1>7. ASSUME NEW words, NEW n, mem' = SectorLoaded(d, words, n), Ended(p, d, "INPAO"), UNCHANGED <<data, chs, moved>> PROVE LinesInv'
  <2>0. SectorLoaded(d, words, n) = [a \in 0..Words - 1 |-> SectorLoaded(d, words, n)[a]]
    BY <1>8 DEF SectorLoaded
  <2>1. mem' = [a \in 0..Words - 1 |-> mem'[a]]
    <3> DEFINE loaded == SectorLoaded(d, words, n)
    <3>1. mem' = loaded /\ loaded = [a \in 0..Words - 1 |-> loaded[a]]
      BY <1>7, <2>0
    <3> HIDE DEF loaded
    <3> QED
      BY <3>1
  <2> QED
    BY <1>1, <1>2, <1>7, <2>1, TransferEnds
<1> QED
  BY <1>3, <1>4, <1>5, <1>6, <1>7

LEMMA WinchWriteStep == ASSUME LinesInv, NEW p \in Phys, WinchWrite(p) PROVE LinesInv'
<1> DEFINE d == data[p]
<1>1. pc[p] = "write" /\ UNCHANGED <<confs, cmd, field, mem>>
  BY DEF WinchWrite
<1>2. LinesTyped /\ data = [data EXCEPT ![p] = d] /\ mem = [a \in 0..Words - 1 |-> mem[a]]
  BY DEF LinesInv, LinesTyped
<1>3. \/ d.ret_len >= d.len /\ Ended(p, d, "IETRA") /\ UNCHANGED <<data, chs, moved>>
      \/ Ended(p, d, "INPAO") /\ UNCHANGED <<data, chs, moved>>
      \/ data' = [data EXCEPT ![p] = Failed(d)] /\ Ended(p, Failed(d), "ITRER") /\ UNCHANGED <<chs, moved>>
      \/ d.ret_len < d.len /\ Further(p, d)
  BY Zenon DEF WinchWrite
<1>4. CASE d.ret_len >= d.len /\ Ended(p, d, "IETRA") /\ UNCHANGED <<data, chs, moved>>
  BY <1>1, <1>2, <1>4, TransferEnds
<1>5. CASE Ended(p, d, "INPAO") /\ UNCHANGED <<data, chs, moved>>
  BY <1>1, <1>2, <1>5, TransferEnds
<1>6. CASE data' = [data EXCEPT ![p] = Failed(d)] /\ Ended(p, Failed(d), "ITRER") /\ UNCHANGED <<chs, moved>>
  BY <1>1, <1>2, <1>6, TransferEnds
<1>7. CASE d.ret_len < d.len /\ Further(p, d)
  BY <1>1, <1>2, <1>7, FurtherLine
<1> QED
  BY <1>3, <1>4, <1>5, <1>6, <1>7

LEMMA WinchFormatStep == ASSUME LinesInv, NEW p \in Phys, WinchFormat(p) PROVE LinesInv'
<1> DEFINE d == data[p]
           at == chs[p].at
           next == [at |-> ChsNext(at, d.heads), left |-> chs[p].left - 1]
<1>1. pc[p] = "format" /\ UNCHANGED <<confs, cmd, field, mem, moved>>
  BY DEF WinchFormat
<1>2. LinesTyped /\ data = [data EXCEPT ![p] = d] /\ mem = [a \in 0..Words - 1 |-> mem[a]]
  BY DEF LinesInv, LinesTyped
<1>3. \/ Ended(p, d, "IETRA") /\ UNCHANGED <<data, chs>>
      \/ data' = [data EXCEPT ![p] = Failed(@)] /\ Ended(p, Failed(d), "ITRER") /\ UNCHANGED chs
      \/ chs[p].left > 0 /\ chs' = [chs EXCEPT ![p] = [at |-> ChsNext(at, d.heads), left |-> @.left - 1]]
         /\ UNCHANGED <<data, pc, answer, results>>
  BY Zenon DEF WinchFormat
<1>4. CASE Ended(p, d, "IETRA") /\ UNCHANGED <<data, chs>>
  BY <1>1, <1>2, <1>4, TransferEnds
<1>5. CASE data' = [data EXCEPT ![p] = Failed(@)] /\ Ended(p, Failed(d), "ITRER") /\ UNCHANGED chs
  <2>1. data' = [data EXCEPT ![p] = Failed(d)]
    BY <1>5
  <2> QED
    BY <1>1, <1>2, <1>5, <2>1, TransferEnds
<1>6. CASE chs[p].left > 0 /\ chs' = [chs EXCEPT ![p] = [at |-> ChsNext(at, d.heads), left |-> @.left - 1]]
           /\ UNCHANGED <<data, pc, answer, results>>
  <2> DEFINE sector == d.sector + SPT - chs[p].left
  <2>1. /\ d \in Datas /\ chs[p].left \in Nat /\ chs[p].left <= SPT /\ at = Chs(sector, d.heads) /\ d.heads > 0
        /\ answer[p] = "none" /\ llines # <<>> /\ d.op = "format" /\ plines[p].proto = "winchester" /\ cmd[p] = "transmit"
    BY <1>1 DEF LinesInv, LinesTyped, LineInv, Formatting
  <2>2. d.sector \in Nat /\ d.heads \in Nat \ {0} /\ SPT \in Nat
    BY <2>1, MxLinesAssumption DEF Datas
  <2>3. sector \in Nat /\ sector + 1 \in Nat /\ sector + 1 = d.sector + SPT - (chs[p].left - 1) /\ chs[p].left - 1 \in Nat /\ chs[p].left - 1 <= SPT
    <3> DEFINE left == chs[p].left
               start == d.sector
    <3>1. left \in Nat /\ left <= SPT /\ left > 0 /\ start \in Nat /\ SPT \in Nat
      BY <1>6, <2>1, <2>2
    <3> HIDE DEF left, start
    <3>2. /\ start + SPT - left \in Nat /\ start + SPT - left + 1 \in Nat /\ start + SPT - left + 1 = start + SPT - (left - 1)
          /\ left - 1 \in Nat /\ left - 1 <= SPT
      BY <3>1
    <3> QED
      BY <3>2 DEF left, start
  <2> HIDE DEF sector
  <2>4. ChsNext(at, d.heads) = Chs(sector + 1, d.heads) /\ Chs(sector + 1, d.heads) \in Spots
    BY <2>1, <2>2, <2>3, NextSector, SpotsAre
  <2>5. chs' = [chs EXCEPT ![p] = next]
    BY <1>6
  <2>6. next \in [at : Spots, left : Nat] /\ next.at = Chs(sector + 1, d.heads) /\ next.left = chs[p].left - 1
    BY <2>3, <2>4
  <2> HIDE DEF next
  <2>7. chs' \in [Phys -> [at : Spots, left : Nat]] /\ chs'[p] = next /\ \A q \in Phys \ {p} : chs'[q] = chs[q]
    BY <1>2, <2>5, <2>6 DEF LinesTyped
  <2>8. LinesTyped'
    BY <1>1, <1>2, <1>6, <2>7 DEF LinesTyped, confs
  <2>9. \A q \in Phys \ {p} : Kept(q)
    BY <1>1, <1>6, <2>7 DEF Kept, confs
  <2>10. Formatting(p)'
    BY <1>6, <2>3, <2>6, <2>7 DEF Formatting
  <2>11. LineInv(p)'
    BY <1>1, <1>6, <2>1, <2>10 DEF LineInv, Told, Carrying, confs
  <2> QED
    BY <1>1, <2>8, <2>9, <2>11, OneLine
<1> QED
  BY <1>3, <1>4, <1>5, <1>6

-----------------------------------------------------------------------------
(* The program's side: SETCFG, a reset, commands.                          *)

LEMMA GiveStep ==
  ASSUME LinesInv, NEW l \in DOMAIN llines, NEW c \in Commands, NEW f \in Fields \cup {NoField}, Give(l, c, f)
  PROVE  LinesInv'
<1>0. PICK p \in Phys : p = llines[l]
  BY DEF LinesInv, LinesTyped
<1> DEFINE old == [len |-> "old", status |-> {"old"}]
<1>1. /\ pc[p] = "idle" /\ UNCHANGED <<confs, data, chs, mem>>
      /\ pc' = [pc EXCEPT ![p] = "decode"] /\ cmd' = [cmd EXCEPT ![p] = c] /\ field' = [field EXCEPT ![p] = f]
      /\ moved' = [moved EXCEPT ![p] = 0] /\ results' = [results EXCEPT ![p] = old] /\ answer' = [answer EXCEPT ![p] = "none"]
  BY <1>0 DEF Give
<1>2. LinesTyped /\ p \in Phys /\ llines # <<>>
  BY <1>0 DEF LinesInv, LinesTyped
<1>3. f \in FieldSet
  <2>1. CASE f = NoField
    BY <2>1 DEF NoField, FieldSet, Ops
  <2>2. CASE f \in Fields
    <3>1. f.op \in Ops
      BY <2>2 DEF Ops
    <3>2. f \in [op : STRING, addr : 0..Words - 1, n : 0..Words - 1, sector : Nat]
      BY <2>2, MxLinesAssumption
    <3> QED
      BY <3>1, <3>2 DEF FieldSet
  <2> QED
    BY <2>1, <2>2
<1>4. old \in Fielded
  BY DEF Fielded
<1> HIDE DEF old
<1>5. LinesTyped'
  BY <1>1, <1>2, <1>3, <1>4 DEF LinesTyped, confs
<1>6. \A q \in Phys \ {p} : Kept(q)
  BY <1>1, <1>2 DEF LinesTyped, Kept, confs
<1>7. pc'[p] = "decode" /\ answer'[p] = "none" /\ moved'[p] = 0 /\ data' = data /\ chs' = chs /\ llines' = llines /\ plines' = plines
      /\ UNCHANGED confs
  BY <1>1, <1>2 DEF LinesTyped, confs
<1>8. LineInv(p)'
  <2>1. plines[p].proto = "winchester" => data[p].heads > 0
    BY <1>2 DEF LinesInv, LineInv
  <2>2. Told(p)' /\ Carrying(p)' /\ Formatting(p)'
    BY <1>7 DEF Told, Carrying, Formatting
  <2> QED
    BY <1>2, <1>7, <2>1, <2>2 DEF LineInv
<1> QED
  BY <1>2, <1>5, <1>6, <1>7, <1>8, OneLine

LEMMA PokeStep == ASSUME LinesInv, NEW a, NEW w, Poke(a, w) PROVE LinesInv'
<1>1. UNCHANGED <<confs, attached, pc, cmd, field, data, chs, answer, results, moved>> /\ mem' = [mem EXCEPT ![a] = w]
  BY DEF Poke
<1>2. LinesTyped /\ DOMAIN mem = 0..Words - 1
  BY DEF LinesInv, LinesTyped
<1>3. mem' = [x \in 0..Words - 1 |-> mem'[x]]
  BY <1>1, <1>2
<1>4. LinesTyped'
  BY <1>1, <1>2, <1>3 DEF LinesTyped, confs
<1>5. \A q \in Phys : LineInv(q)'
  <2>1. \A q \in Phys : Kept(q) /\ llines' = llines
    BY <1>1 DEF Kept, confs
  <2> QED
    BY <2>1, KeptLine DEF LinesInv
<1>6. LinesSetUp' /\ Unconfigured'
  BY <1>1 DEF LinesInv, LinesSetUp, Complete, Unconfigured, confs
<1> QED
  BY <1>4, <1>5, <1>6 DEF LinesInv

\* boards begin at lines
LEMMA GroupsIn == \A p \in Phys : p - (p % Group) \in Phys
<1>1. Group \in Nat \ {0} /\ MX_LINE_CNT \in Nat
  BY MxLinesAssumption
<1>2. ASSUME NEW p \in Phys PROVE p - (p % Group) \in Phys
  <2>1. p \in Nat /\ p < MX_LINE_CNT
    BY <1>1 DEF Phys
  <2>2. p % Group \in Nat /\ p % Group <= p
    <3>1. p = Group * (p \div Group) + (p % Group) /\ p \div Group \in Nat /\ p % Group \in Nat
      BY <1>1, <2>1
    <3>2. \A x, y, z \in Nat : z = x * y + (p % Group) => p % Group <= z
      <4>1. \A x, y \in Nat : x * y \in Nat
        OBVIOUS
      <4> QED
        BY <3>1, <4>1
    <3> QED
      BY <1>1, <2>1, <3>1, <3>2
  <2> QED
    BY <1>1, <2>1, <2>2 DEF Phys
<1> QED
  BY <1>2

LEMMA NothingSetUp ==
  llines = <<>> /\ plines = [p \in Phys |-> Unused] => LinesSetUp /\ Unconfigured
<1> SUFFICES ASSUME llines = <<>>, plines = [p \in Phys |-> Unused]
             PROVE  LinesSetUp /\ Unconfigured
  OBVIOUS
<1>1. IsInjective(llines) /\ DOMAIN llines = {} /\ ToSet(llines) = {}
  BY DEF IsInjective, ToSet
<1>2. \A p \in Phys : plines[p].type = "async" /\ plines[p].proto = "none" /\ ~plines[p].used
  BY DEF Unused
<1>3. Complete(plines)
  <2>1. \A p \in Phys : p - (p % Group) \in Phys
    BY GroupsIn
  <2>2. {p \in Phys : p % Group = 0 /\ plines[p].type = "tape"} = {}
    BY <1>2
  <2>3. Cardinality({p \in Phys : p % Group = 0 /\ plines[p].type = "tape"}) = 0
    BY <2>2, FS_EmptySet
  <2> QED
    BY <1>2, <2>1, <2>3 DEF Complete
<1> QED
  BY <1>1, <1>2, <1>3 DEF LinesSetUp, Unconfigured

LEMMA NothingSetUpThen ==
  (llines = <<>> /\ plines = [p \in Phys |-> Unused])' => (LinesSetUp /\ Unconfigured)'
BY NothingSetUp, PTL

LEMMA DeinitStep == ASSUME LinesInv, LinesDeinit PROVE LinesInv'
<1>1. /\ \A p \in Phys : pc[p] = "idle"
      /\ llines' = <<>> /\ plines' = [p \in Phys |-> Unused] /\ answer' = [p \in Phys |-> "none"]
      /\ UNCHANGED <<pc, cmd, field, data, chs, mem, moved, results>>
  BY DEF LinesDeinit, transfers
<1>2. LinesTyped'
  <2>1. LinesTyped
    BY DEF LinesInv
  <2> QED
    BY <1>1, <2>1 DEF LinesTyped
<1>3. LinesSetUp' /\ Unconfigured'
  BY <1>1, NothingSetUpThen
<1>4. \A p \in Phys : LineInv(p)'
  BY <1>1 DEF LineInv, Carrying, Formatting, Told, Unused
<1> QED
  BY <1>2, <1>3, <1>4 DEF LinesInv

LEMMA LeastIn ==
  ASSUME NEW S \in SUBSET Nat, S # {}
  PROVE  Min(S) \in S
<1>1. \E m \in S : \A k \in S : m <= k
  BY LeastNumber
<1> QED
  BY <1>1 DEF Min

\* a description that is accepted has passed every check
LEMMA LogAccepted ==
  ASSUME NEW lines, NEW logs, NEW d, LogError(lines, logs, d) = "OK"
  PROVE  /\ lines[d.phy].used /\ ~LogTaken(logs, d.phy) /\ d.proto \in DOMAIN Protocols
         /\ Protocols[d.proto].dir \subseteq lines[d.phy].dir /\ lines[d.phy].type \in Protocols[d.proto].types
<1> DEFINE p == lines[d.phy]
           c1 == ~p.used
           c2 == p.used /\ LogTaken(logs, d.phy)
           c3 == p.used /\ ~LogTaken(logs, d.phy) /\ d.proto \notin DOMAIN Protocols
           c4 == ~(Protocols[d.proto].dir \subseteq p.dir)
           c5 == p.type \notin Protocols[d.proto].types
           c6 == d.proto = "floppy" /\ d.param > 2
           last == IF c4 THEN "DIR_MISMATCH" ELSE IF c5 THEN "PROTO_MISMATCH" ELSE IF c6 THEN "PROTO_PARAMS" ELSE "OK"
<1>1. (CASE c1 -> "PHY_UNUSED" [] c2 -> "PHY_USED" [] c3 -> "PROTO_MISSING" [] OTHER -> last) = "OK"
  BY DEF LogError
<1>2. ~c1 /\ ~c2 /\ ~c3 /\ last = "OK"
  <2> HIDE DEF c1, c2, c3, last
  <2>1. c1 \/ c2 \/ c3 => (CASE c1 -> "PHY_UNUSED" [] c2 -> "PHY_USED" [] c3 -> "PROTO_MISSING" [] OTHER -> last) # "OK"
    <3>1. ~(c1 /\ c2) /\ ~(c1 /\ c3) /\ ~(c2 /\ c3)
      BY Zenon DEF c1, c2, c3
    <3> QED
      BY <3>1
  <2> QED
    BY <1>1, <2>1
<1>3. ~c4 /\ ~c5
  BY <1>2
<1> QED
  BY <1>2, <1>3

\* a configuration that is accepted has no mistake
LEMMA SetupAccepted ==
  ASSUME NEW s \in Setups, SetupError(s) = "OK"
  PROVE  /\ s.log # <<>> /\ Complete(LinesLaid(Described(s)))
         /\ \A i \in DOMAIN s.log : LogErrors(s)[i] = "OK"
<1> DEFINE phys == Described(s)
           I == {i \in 1..Len(phys) : PhyError(phys[i]) # "OK"}
           bad == IF I # {} THEN Min(I) ELSE 0
           errors == LogErrors(s)
           J == {i \in 1..Len(errors) : errors[i] # "OK"}
           wrong == IF J # {} THEN Min(J) ELSE 0
<1>1. "OK" = (IF s.phy = <<>> \/ s.log = <<>> \/ Len(s.phy) > MX_LINE_CNT \/ Len(s.log) > MX_LINE_CNT THEN "NUMLINES"
              ELSE IF bad \in 1..MX_LINE_CNT THEN PhyError(phys[bad])
              ELSE IF Len(phys) > MX_LINE_CNT THEN "NUMLINES"
              ELSE IF ~Complete(LinesLaid(phys)) THEN "PHY_INCOMPLETE"
              ELSE IF wrong # 0 THEN errors[wrong] ELSE "OK")
  BY Zenon DEF SetupError, SelectInSeq
<1>2. bad \in 1..MX_LINE_CNT => PhyError(phys[bad]) # "OK"
  <2>1. I \subseteq Nat
    OBVIOUS
  <2>2. I # {} => Min(I) \in I
    BY <2>1, LeastIn
  <2> QED
    BY <2>2
<1>3. J # {} => wrong # 0 /\ errors[wrong] # "OK"
  <2>1. J \subseteq Nat \ {0}
    OBVIOUS
  <2>2. J # {} => Min(J) \in J
    BY <2>1, LeastIn
  <2> QED
    BY <2>1, <2>2
<1>4. DOMAIN s.log = 1..Len(errors)
  <2>1. s.log \in Seq([phy : 0..MX_LINE_CNT - 1, proto : STRING, param : Nat])
    BY MxLinesAssumption
  <2>2. DOMAIN s.log = 1..Len(s.log) /\ Len(s.log) \in Nat
    BY <2>1
  <2>3. DOMAIN errors = 1..Len(s.log) /\ errors \in Seq({errors[i] : i \in 1..Len(s.log)})
    <3>1. errors = [i \in DOMAIN s.log |-> errors[i]]
      BY DEF LogErrors
    <3> HIDE DEF errors
    <3> QED
      BY <2>2, <3>1
  <2>4. Len(errors) = Len(s.log)
    <3> HIDE DEF errors
    <3> QED
      BY <2>2, <2>3
  <2> QED
    BY <2>2, <2>4
<1> HIDE DEF phys, bad, errors, wrong, J
<1>5. s.log # <<>> /\ bad \notin 1..MX_LINE_CNT /\ Complete(LinesLaid(phys)) /\ (wrong # 0 => errors[wrong] = "OK")
  BY <1>1, <1>2
<1>6. J = {}
  BY <1>3, <1>5
<1> QED
  BY <1>4, <1>5, <1>6 DEF J, errors, phys

LEMMA SetCfgStep == ASSUME LinesInv, NEW s \in Setups, SetCfg(s) PROVE LinesInv'
<1> DEFINE lines == LinesLaid(Described(s))
           of(p) == {i \in DOMAIN s.log : s.log[i].phy = p}
           setup(p) == [lines[p] EXCEPT !.proto = s.log[CHOOSE i \in of(p) : TRUE].proto]
           told(p) == [data[p] EXCEPT !.heads = s.log[CHOOSE i \in of(p) : TRUE].param]
<1>1. /\ llines = <<>> /\ setcfg' = SetupError(s)
      /\ UNCHANGED <<attached, pc, cmd, field, chs, buf, mem, moved, answer, results>>
      /\ IF setcfg' # "OK" THEN UNCHANGED <<plines, llines, data>>
         ELSE /\ llines' = [i \in DOMAIN s.log |-> s.log[i].phy]
              /\ plines' = [p \in Phys |-> IF of(p) = {} THEN lines[p] ELSE setup(p)]
              /\ data' = [p \in Phys |-> IF of(p) = {} THEN data[p] ELSE told(p)]
  BY Zenon DEF SetCfg
<1>2. LinesTyped /\ plines = [p \in Phys |-> Unused] /\ \A p \in Phys : answer[p] = "none" /\ pc[p] = "idle"
  BY <1>1 DEF LinesInv, LinesTyped, LineInv, Unconfigured
<1>3. CASE setcfg' # "OK"
  <2>1. UNCHANGED <<plines, llines, data>>
    BY <1>1, <1>3
  <2>2. LinesTyped'
    BY <1>1, <1>2, <2>1 DEF LinesTyped
  <2>3. \A q \in Phys : LineInv(q)'
    <3>1. \A q \in Phys : Kept(q)
      BY <1>1, <2>1 DEF Kept
    <3> QED
      BY <2>1, <3>1, KeptLine DEF LinesInv
  <2>4. LinesSetUp' /\ Unconfigured'
    BY <1>1, <1>2, <2>1, NothingSetUpThen
  <2> QED
    BY <2>2, <2>3, <2>4 DEF LinesInv
<1>4. CASE setcfg' = "OK"
  <2> DEFINE at(i) == s.log[i].phy
  <2>1. /\ llines' = [i \in DOMAIN s.log |-> at(i)]
        /\ plines' = [p \in Phys |-> IF of(p) = {} THEN lines[p] ELSE setup(p)]
        /\ data' = [p \in Phys |-> IF of(p) = {} THEN data[p] ELSE told(p)]
    BY <1>1, <1>4
  <2>2. /\ s.log # <<>> /\ Complete(lines)
        /\ \A i \in DOMAIN s.log : LogErrors(s)[i] = "OK"
    BY <1>1, <1>4, SetupAccepted
  <2>3. /\ DOMAIN s.log \subseteq Nat /\ DOMAIN s.log = 1..Len(s.log) /\ Len(s.log) \in Nat
        /\ \A i \in DOMAIN s.log : at(i) \in Phys /\ s.log[i].param \in Nat
                                   /\ (s.log[i].proto = "winchester" => s.log[i].param > 0)
    <3>1. /\ s.log \in Seq([phy : 0..MX_LINE_CNT - 1, proto : STRING, param : Nat])
          /\ \A l \in DOMAIN s.log : s.log[l].proto = "winchester" => s.log[l].param > 0
      BY MxLinesAssumption
    <3> DEFINE Rec == [phy : 0..MX_LINE_CNT - 1, proto : STRING, param : Nat]
    <3>2. s.log \in Seq(Rec)
      BY <3>1
    <3>3. /\ DOMAIN s.log = 1..Len(s.log) /\ Len(s.log) \in Nat
          /\ \A i \in DOMAIN s.log : s.log[i] \in Rec
      <4> HIDE DEF Rec
      <4> QED
        BY <3>2
    <3>4. \A r \in Rec : r.phy \in Phys /\ r.param \in Nat
      BY DEF Phys
    <3> HIDE DEF Rec
    <3> QED
      BY <3>1, <3>3, <3>4
  <2> DEFINE before(i) == [l \in 0..i - 2 |-> s.log[l + 1].phy]
  <2>4. ASSUME NEW i \in DOMAIN s.log
        PROVE  /\ lines[at(i)].used /\ ~LogTaken(before(i), at(i)) /\ s.log[i].proto \in DOMAIN Protocols
               /\ Protocols[s.log[i].proto].dir \subseteq lines[at(i)].dir
               /\ lines[at(i)].type \in Protocols[s.log[i].proto].types
    <3>1. LogError(lines, before(i), s.log[i]) = "OK"
      BY <2>2 DEF LogErrors
    <3> HIDE DEF lines, before
    <3> QED
      BY <3>1, LogAccepted
  <2>5. \A i, j \in DOMAIN s.log : at(i) = at(j) => i = j
    <3>1. ASSUME NEW i \in DOMAIN s.log, NEW j \in DOMAIN s.log, j < i PROVE at(j) # at(i)
      <4>1. i \in Nat /\ j \in 1..Len(s.log) /\ j - 1 \in 0..i - 2
        BY <2>3, <3>1
      <4>2. j - 1 \in DOMAIN before(i) /\ before(i)[j - 1] = s.log[j - 1 + 1].phy
        BY <4>1
      <4>3. j - 1 + 1 = j
        BY <4>1
      <4>4. before(i)[j - 1] # at(i)
        <5> HIDE DEF before, lines
        <5> QED
          BY <2>4, <4>2 DEF LogTaken
      <4> QED
        BY <4>2, <4>3, <4>4
    <3>2. ASSUME NEW i \in DOMAIN s.log, NEW j \in DOMAIN s.log, at(i) = at(j) PROVE i = j
      <4>1. i \in Nat /\ j \in Nat
        BY <2>3
      <4>2. ~(i < j) /\ ~(j < i)
        BY <3>1, <3>2
      <4> QED
        BY <4>1, <4>2
    <3> QED
      BY <3>2
  <2>6. \A i \in DOMAIN s.log : of(at(i)) # {} /\ (CHOOSE k \in of(at(i)) : TRUE) = i
    <3>1. ASSUME NEW i \in DOMAIN s.log PROVE of(at(i)) = {i}
      BY <2>5
    <3> QED
      BY <3>1
  <2>7. ASSUME NEW p \in Phys
        PROVE  \E u, d, t : lines[p] = [used |-> u, dir |-> d, type |-> t, proto |-> "none"]
    BY DEF LinesLaid, Unused
  <2>8. /\ \A p \in Phys : of(p) = {} => plines'[p].proto = "none" /\ plines'[p].type = lines[p].type
        /\ \A i \in DOMAIN s.log : LET p == plines'[at(i)] IN
             p.proto = s.log[i].proto /\ p.used = lines[at(i)].used /\ p.type = lines[at(i)].type /\ p.dir = lines[at(i)].dir
    <3> HIDE DEF lines
    <3>1. ASSUME NEW p \in Phys, of(p) = {} PROVE plines'[p].proto = "none" /\ plines'[p].type = lines[p].type
      <4>1. plines'[p] = lines[p]
        BY <2>1, <3>1
      <4>2. PICK u, d, t : lines[p] = [used |-> u, dir |-> d, type |-> t, proto |-> "none"]
        BY <2>7
      <4> QED
        BY <4>1, <4>2
    <3>2. ASSUME NEW i \in DOMAIN s.log
          PROVE  plines'[at(i)] = [lines[at(i)] EXCEPT !.proto = s.log[i].proto]
      BY <2>1, <2>3, <2>6
    <3>3. ASSUME NEW i \in DOMAIN s.log, NEW r, r = [lines[at(i)] EXCEPT !.proto = s.log[i].proto]
          PROVE  r.proto = s.log[i].proto /\ r.used = lines[at(i)].used /\ r.type = lines[at(i)].type /\ r.dir = lines[at(i)].dir
      <4>1. PICK u, d, t : lines[at(i)] = [used |-> u, dir |-> d, type |-> t, proto |-> "none"]
        BY <2>3, <2>7
      <4> QED
        BY <3>3, <4>1
    <3> QED
      BY <3>1, <3>2, <3>3
  <2>9. ASSUME NEW p \in Phys, of(p) # {} PROVE \E i \in DOMAIN s.log : p = at(i)
    BY <2>9
  <2>10. ASSUME NEW i \in DOMAIN s.log
         PROVE  data'[at(i)] \in Datas /\ data'[at(i)].heads = s.log[i].param
    <3>1. data'[at(i)] = [data[at(i)] EXCEPT !.heads = s.log[i].param]
      BY <2>1, <2>3, <2>6
    <3>2. data[at(i)] \in Datas /\ s.log[i].param \in Nat
      BY <1>2, <2>3 DEF LinesTyped
    <3> QED
      BY <3>1, <3>2 DEF Datas
  <2>11. \A p \in Phys : of(p) = {} => data'[p] = data[p]
    BY <2>1
  <2>12. data' \in [Phys -> Datas]
    <3>1. \A p \in Phys : data'[p] \in Datas
      <4> HIDE DEF of
      <4> QED
        BY <1>2, <2>9, <2>10, <2>11 DEF LinesTyped
    <3>2. data' = [p \in Phys |-> data'[p]]
      BY <2>1
    <3> QED
      BY <3>1, <3>2
  <2>13. LinesTyped'
    <3>1. \A l \in DOMAIN llines' : llines'[l] \in Phys
      BY <2>1, <2>3
    <3> QED
      BY <1>1, <1>2, <2>12, <3>1 DEF LinesTyped
  <2>14. DOMAIN llines' = DOMAIN s.log /\ llines' # <<>> /\ \A i \in DOMAIN s.log : llines'[i] = at(i)
    <3>1. DOMAIN s.log # {}
      <4> DEFINE Rec == [phy : 0..MX_LINE_CNT - 1, proto : STRING, param : Nat]
      <4>1. s.log \in Seq(Rec)
        BY MxLinesAssumption
      <4> HIDE DEF Rec
      <4> QED
        BY <2>2, <4>1
    <3> QED
      BY <2>1, <3>1
  <2> HIDE DEF lines, of, setup, told
  <2>15. \A p \in Phys : LineInv(p)'
    <3>1. ASSUME NEW p \in Phys PROVE plines'[p].proto = "winchester" => data'[p].heads > 0
      <4>1. CASE of(p) = {}
        BY <2>8, <4>1
      <4>2. CASE of(p) # {}
        <5>1. PICK i \in DOMAIN s.log : p = at(i)
          BY <2>9, <4>2
        <5> QED
          BY <2>3, <2>8, <2>10, <5>1
      <4> QED
        BY <4>1, <4>2
    <3>2. \A p \in Phys : answer'[p] = "none" /\ pc'[p] = "idle"
      BY <1>1, <1>2
    <3> QED
      BY <2>14, <3>1, <3>2 DEF LineInv, Carrying, Formatting, Told
  <2>16. LinesSetUp'
    <3>1. IsInjective(llines')
      BY <2>5, <2>14 DEF IsInjective
    <3>2. \A p \in Phys : plines'[p].type = lines[p].type
      <4>1. ASSUME NEW p \in Phys, of(p) # {} PROVE plines'[p].type = lines[p].type
        BY <2>8, <2>9, <4>1
      <4> QED
        BY <2>8, <4>1
    <3>3. Complete(plines')
      <4>1. {p \in Phys : p % Group = 0 /\ plines'[p].type = "tape"} = {p \in Phys : p % Group = 0 /\ lines[p].type = "tape"}
        BY <3>2
      <4>2. \A p \in Phys : p - (p % Group) \in Phys
        BY GroupsIn
      <4>3. \A p \in Phys : plines'[p].type = plines'[p - (p % Group)].type
        BY <2>2, <3>2, <4>2 DEF Complete
      <4> QED
        BY <2>2, <4>1, <4>3 DEF Complete
    <3>4. \A l \in DOMAIN llines' :
            LET p == plines'[llines'[l]]
            IN p.used /\ p.proto \in DOMAIN Protocols /\ p.type \in Protocols[p.proto].types
               /\ Protocols[p.proto].dir \subseteq p.dir
      <4>1. ASSUME NEW l \in DOMAIN s.log, NEW q, q = plines'[at(l)]
            PROVE  q.used /\ q.proto \in DOMAIN Protocols /\ q.type \in Protocols[q.proto].types
                   /\ Protocols[q.proto].dir \subseteq q.dir
        <5>1. q.proto = s.log[l].proto /\ q.used = lines[at(l)].used /\ q.type = lines[at(l)].type /\ q.dir = lines[at(l)].dir
          BY <2>8, <4>1
        <5> QED
          BY <2>4, <5>1
      <4> QED
        BY <2>14, <4>1
    <3>5. \A p \in Phys : plines'[p].proto # "none" <=> p \in ToSet(llines')
      <4>1. ToSet(llines') = {at(i) : i \in DOMAIN s.log}
        BY <2>14 DEF ToSet
      <4>2. ASSUME NEW p \in Phys, of(p) = {} PROVE p \notin ToSet(llines') /\ plines'[p].proto = "none"
        <5>1. \A i \in DOMAIN s.log : at(i) # p
          BY <4>2 DEF of
        <5> QED
          BY <2>8, <4>1, <4>2, <5>1
      <4>3. "none" \notin DOMAIN Protocols
        BY DEF Protocols
      <4>4. ASSUME NEW p \in Phys, of(p) # {} PROVE p \in ToSet(llines') /\ plines'[p].proto # "none"
        <5>1. PICK i \in DOMAIN s.log : p = at(i)
          BY <2>9, <4>4
        <5> QED
          <6>1. plines'[at(i)].proto = s.log[i].proto
            BY <2>8
          <6>2. s.log[i].proto # "none"
            BY <2>4, <4>3
          <6> QED
            BY <4>1, <5>1, <6>1, <6>2
      <4> QED
        BY <4>2, <4>4
    <3> QED
      BY <1>4, <3>1, <3>3, <3>4, <3>5 DEF LinesSetUp
  <2>17. Unconfigured'
    BY <2>14 DEF Unconfigured
  <2> QED
    BY <2>13, <2>15, <2>16, <2>17 DEF LinesInv
<1> QED
  BY <1>3, <1>4

-----------------------------------------------------------------------------
(* The invariant and what follows from it.                                 *)

LEMMA LinesInvInitial == LinesInit => LinesInv
<1> SUFFICES ASSUME LinesInit PROVE LinesInv
  OBVIOUS
<1>1. /\ plines = [p \in Phys |-> Unused] /\ llines = <<>>
      /\ pc = [p \in Phys |-> "idle"] /\ cmd = [p \in Phys |-> "attach"] /\ field = [p \in Phys |-> NoField]
      /\ data = [p \in Phys |-> NoData] /\ chs = [p \in Phys |-> [at |-> Chs(0, 1), left |-> 0]]
      /\ mem = [a \in 0..Words - 1 |-> a + 1] /\ moved = [p \in Phys |-> 0]
      /\ answer = [p \in Phys |-> "none"] /\ results = [p \in Phys |-> [len |-> "old", status |-> {"old"}]]
  BY DEF LinesInit
<1>2. NoField \in FieldSet /\ NoData \in Datas /\ [len |-> "old", status |-> {"old"}] \in Fielded /\ "attach" \in Commands
  BY DEF NoField, NoData, FieldSet, Datas, Fielded, Ops, Commands
<1>3. [at |-> Chs(0, 1), left |-> 0] \in [at : Spots, left : Nat]
  <2>1. Chs(0, 1) \in Spots
    BY SpotsAre
  <2> QED
    BY <2>1
<1>4. LinesTyped
  <2>1. \A l \in DOMAIN llines : llines[l] \in Phys
    BY <1>1
  <2>2. mem = [a \in 0..Words - 1 |-> mem[a]]
    BY <1>1
  <2> QED
    BY <1>1, <1>2, <1>3, <2>1, <2>2 DEF LinesTyped
<1>5. LinesSetUp /\ Unconfigured
  BY <1>1, NothingSetUp
<1>6. \A p \in Phys : LineInv(p)
  BY <1>1 DEF LineInv, Carrying, Formatting, Told, Unused
<1> QED
  BY <1>4, <1>5, <1>6 DEF LinesInv

LEMMA LinesInvInductive == LinesInv /\ [LinesNext]_linesVars => LinesInv'
<1> SUFFICES ASSUME LinesInv, [LinesNext]_linesVars PROVE LinesInv'
  OBVIOUS
<1>1. ASSUME NEW s \in Setups, SetCfg(s) PROVE LinesInv'
  BY <1>1, SetCfgStep
<1>2. CASE LinesDeinit
  BY <1>2, DeinitStep
<1>3. ASSUME NEW l \in DOMAIN llines, NEW c \in {"attach", "detach", "abort"}, Give(l, c, NoField) PROVE LinesInv'
  BY <1>3, GiveStep DEF Commands
<1>4. ASSUME NEW l \in DOMAIN llines, NEW f \in Fields, Give(l, "transmit", f) PROVE LinesInv'
  BY <1>4, GiveStep DEF Commands
<1>5. ASSUME NEW a \in {0}, Poke(a, 9) PROVE LinesInv'
  BY <1>5, PokeStep
<1>6. ASSUME NEW p \in Phys, LineStep(p) PROVE LinesInv'
  BY <1>6, AttachStep, TerminalStep, FloppyStep, WinchesterStep, WinchReadStep, WinchWriteStep, WinchFormatStep DEF LineStep
<1>7. CASE UNCHANGED linesVars
  <2>1. UNCHANGED <<confs, pc, cmd, field, data, chs, mem, moved, answer, results>>
    BY <1>7 DEF linesVars, transfers
  <2>2. llines' = llines /\ plines' = plines /\ setcfg' = setcfg
    BY <2>1 DEF confs
  <2>3. LinesTyped'
    BY <2>1, <2>2 DEF LinesInv, LinesTyped
  <2>4. \A q \in Phys : LineInv(q)'
    <3>1. \A q \in Phys : Kept(q)
      BY <2>1, <2>2 DEF Kept
    <3> QED
      BY <2>2, <3>1, KeptLine DEF LinesInv
  <2>5. LinesSetUp' /\ Unconfigured'
    BY <2>2 DEF LinesInv, LinesSetUp, Complete, Unconfigured
  <2> QED
    BY <2>3, <2>4, <2>5 DEF LinesInv
<1> QED
  BY <1>1, <1>2, <1>3, <1>4, <1>5, <1>6, <1>7 DEF LinesNext

LEMMA LinesAlwaysHold == LinesSpec => []LinesInv
<1> QED
  BY LinesInvInitial, LinesInvInductive, PTL DEF LinesSpec

\* SETCFG sets up all that the program described or nothing, whatever it describes
\* (mx_cmd_setcfg(), mx_line_conf_log(), mx_lines_deinit()).
THEOREM LinesAlwaysSetUp == LinesSpec => []LinesSetUp
<1>1. LinesInv => LinesSetUp
  BY DEF LinesInv
<1> QED
  BY <1>1, LinesAlwaysHold, PTL

\* The fields of a command tell the program what its line has done, for any length,
\* geometry and number of lines (mx_winch_read(), mx_winch_write(), mx_winch_transmit_encode()).
THEOREM ResultsAlwaysTell == LinesSpec => []ResultsTell
<1>1. LinesInv => ResultsTell
  BY DEF LinesInv, LineInv, Told, ResultsTell
<1> QED
  BY <1>1, LinesAlwaysHold, PTL

LEMMA DiskKept ==
  ASSUME [LinesNext]_linesVars, disk' # disk
  PROVE  \E p \in Phys : WinchWrite(p) \/ WinchFormat(p)
<1>1. \A s \in Setups : SetCfg(s) => disk' = disk
  BY DEF SetCfg
<1>2. LinesDeinit => disk' = disk
  BY DEF LinesDeinit, transfers
<1>3. \A l, c, f : Give(l, c, f) => disk' = disk
  BY DEF Give
<1>4. \A a, w : Poke(a, w) => disk' = disk
  BY DEF Poke
<1>5. \A p \in Phys : Attach(p) \/ Detach(p) \/ Refused(p) \/ Terminal(p) \/ Floppy(p) \/ Winchester(p) \/ WinchRead(p) => disk' = disk
  <2>1. \A p \in Phys : Attach(p) \/ Detach(p) \/ Refused(p) \/ Terminal(p) => disk' = disk
    BY DEF Attach, Detach, Refused, Terminal, transfers
  <2>2. \A p \in Phys : Floppy(p) => disk' = disk
    BY DEF Floppy
  <2>3. \A p \in Phys : Winchester(p) => disk' = disk
    BY Zenon DEF Winchester
  <2>4. \A p \in Phys : WinchRead(p) => disk' = disk
    BY Zenon DEF WinchRead
  <2> QED
    BY <2>1, <2>2, <2>3, <2>4
<1>6. UNCHANGED linesVars => disk' = disk
  BY DEF linesVars, transfers
<1> QED
  BY <1>1, <1>2, <1>3, <1>4, <1>5, <1>6 DEF LinesNext, LineStep

\* A step of a line writes the sector that the program's sector number and what was done
\* so far lead to, over the ends of tracks and cylinders, for any geometry
\* (lba2chs(), chs_next(), winchester_offset(), mx_winch_write(), mx_winch_format()).
THEOREM SectorsAlwaysStay == LinesSpec => SectorsStay
<1>1. ASSUME LinesInv, [LinesNext]_linesVars, NEW o \in DOMAIN disk, disk'[o] # disk[o]
      PROVE  \E p \in Phys : \/ pc[p] = "write" /\ o = Offset(Chs(Reached(p), data[p].heads))
                             \/ pc[p] = "format" /\ o = Offset(Chs(data[p].sector + SPT - chs[p].left, data[p].heads))
  <2>1. PICK p \in Phys : WinchWrite(p) \/ WinchFormat(p)
    BY <1>1, DiskKept
  <2>2. CASE WinchWrite(p)
    <3>1. pc[p] = "write" /\ (UNCHANGED disk \/ \E out : disk' = [disk EXCEPT ![Offset(chs[p].at)] = out] /\ data[p].ret_len < data[p].len)
      BY <2>2, Zenon DEF WinchWrite
    <3>2. PICK out : disk' = [disk EXCEPT ![Offset(chs[p].at)] = out] /\ data[p].ret_len < data[p].len
      BY <1>1, <3>1
    <3>3. chs[p].at = Chs(Reached(p), data[p].heads)
      BY <1>1, <3>1, <3>2 DEF LinesInv, LineInv, Carrying
    <3>4. o = Offset(chs[p].at)
      BY <1>1, <3>2
    <3> QED
      BY <3>1, <3>3, <3>4
  <2>3. CASE WinchFormat(p)
    <3>1. pc[p] = "format" /\ (UNCHANGED disk \/ disk' = [disk EXCEPT ![Offset(chs[p].at)] = buf[p]])
      BY <2>3, Zenon DEF WinchFormat
    <3>2. o = Offset(chs[p].at)
      BY <1>1, <3>1
    <3>3. chs[p].at = Chs(data[p].sector + SPT - chs[p].left, data[p].heads)
      BY <1>1, <3>1 DEF LinesInv, LineInv, Formatting
    <3> QED
      BY <3>1, <3>2, <3>3
  <2> QED
    BY <2>1, <2>2, <2>3
<1>2. LinesInv /\ [LinesNext]_linesVars =>
        [\A o \in DOMAIN disk : disk'[o] # disk[o] =>
           \E p \in Phys : \/ pc[p] = "write" /\ o = Offset(Chs(Reached(p), data[p].heads))
                           \/ pc[p] = "format" /\ o = Offset(Chs(data[p].sector + SPT - chs[p].left, data[p].heads))]_linesVars
  BY <1>1
<1> QED
  BY <1>2, LinesAlwaysHold, PTL DEF LinesSpec, SectorsStay

LEMMA OnlyReads ==
  ASSUME LinesInv, [LinesNext]_linesVars, NEW p \in Phys, pc[p] = "read", moved'[p] > moved[p]
  PROVE  WinchRead(p)
<1>1. LinesTyped /\ moved[p] \in Nat
  BY DEF LinesInv, LinesTyped
<1>2. moved' # moved
  BY <1>1
<1>3. \A s \in Setups : SetCfg(s) => moved' = moved
  BY DEF SetCfg
<1>4. LinesDeinit => moved' = moved
  BY DEF LinesDeinit, transfers
<1>5. \A a, w : Poke(a, w) => moved' = moved
  BY DEF Poke
<1>6. UNCHANGED linesVars => moved' = moved
  BY DEF linesVars, transfers
<1>7. ASSUME NEW l \in DOMAIN llines, NEW c, NEW f, Give(l, c, f) PROVE FALSE
  <2>1. llines[l] \in Phys /\ pc[llines[l]] = "idle" /\ moved' = [moved EXCEPT ![llines[l]] = 0]
    BY <1>1, <1>7 DEF Give, LinesTyped
  <2>2. moved'[p] = moved[p]
    BY <1>1, <2>1 DEF LinesTyped
  <2> QED
    BY <1>1, <2>2
<1>8. \A q \in Phys : Attach(q) \/ Detach(q) \/ Refused(q) \/ Terminal(q) \/ Floppy(q) => moved' = moved
  BY DEF Attach, Detach, Refused, Terminal, Floppy, transfers
<1>9. \A q \in Phys : Winchester(q) => moved' = moved
  BY Zenon DEF Winchester
<1>10. \A q \in Phys : WinchFormat(q) => moved' = moved
  BY Zenon DEF WinchFormat
<1>11. ASSUME NEW q \in Phys, WinchRead(q) \/ WinchWrite(q) PROVE q = p
  <2>1. moved' = moved \/ moved' = [moved EXCEPT ![q] = @ + Count(data[q])]
    <3>1. WinchRead(q) => UNCHANGED moved \/ Further(q, data[q])
      BY Zenon DEF WinchRead
    <3>2. WinchWrite(q) => UNCHANGED moved \/ Further(q, data[q])
      BY Zenon DEF WinchWrite
    <3> QED
      BY <1>11, <3>1, <3>2 DEF Further
  <2>2. q # p => moved'[p] = moved[p]
    BY <1>1, <2>1 DEF LinesTyped
  <2> QED
    BY <1>1, <2>2
<1>12. ~WinchWrite(p)
  BY DEF WinchWrite
<1> QED
  BY <1>2, <1>3, <1>4, <1>5, <1>6, <1>7, <1>8, <1>9, <1>10, <1>11, <1>12 DEF LinesNext, LineStep

\* What a transfer from the disk puts into memory is the sector the program's number and
\* the words done so far lead to, for any buffer, one that goes around memory included
\* (mx_winch_read(), lba2chs(), chs_next()).
THEOREM AlwaysReadAsAddressed == LinesSpec => ReadsAsAddressed
<1>1. ASSUME LinesInv, [LinesNext]_linesVars, NEW p \in Phys, pc[p] = "read", moved'[p] > moved[p],
             NEW k \in 1..Count(data[p]),
             At(data[p], k) \notin {At(data[p], j) : j \in k + 1..Count(data[p])}
      PROVE  mem'[At(data[p], k)] = Swap(disk[Offset(Chs(Reached(p), data[p].heads))][k])
  <2> DEFINE d == data[p]
             n == Count(d)
             sector == disk[Offset(chs[p].at)]
             read == [i \in 1..SectorWords |-> IF i <= n THEN Swap(sector[i]) ELSE sector[i]]
  <2>1. WinchRead(p)
    BY <1>1, OnlyReads
  <2>2. moved' # moved
    BY <1>1 DEF LinesInv, LinesTyped
  <2>3. d.ret_len < d.len /\ mem' = SectorLoaded(d, read, n)
    BY <2>1, <2>2, Zenon DEF WinchRead
  <2>4. /\ d \in Datas /\ DOMAIN mem = 0..Words - 1 /\ chs[p].at = Chs(Reached(p), d.heads)
    BY <1>1, <2>3 DEF LinesInv, LinesTyped, LineInv, Carrying
  <2>5. n \in Nat /\ n <= SectorWords /\ k \in Nat /\ k >= 1 /\ k <= n /\ SectorWords \in Nat
    <3>1. d.ret_len \in Nat /\ d.len \in Nat /\ d.ret_len < d.len /\ SectorWords \in Nat
      BY <2>3, <2>4, MxLinesAssumption DEF Datas
    <3>2. n \in Nat /\ n <= SectorWords
      BY <3>1 DEF Count, LeastOf
    <3> QED
      BY <1>1, <3>1, <3>2
  <2>6. At(d, k) \in 0..Words - 1
    <3> DEFINE place == d.addr + d.ret_len + k - 1
    <3>1. d.addr \in Nat /\ d.ret_len \in Nat
      BY <2>4 DEF Datas
    <3>2. place \in Nat /\ Words \in Nat \ {0}
      <4>1. \A a, b, i \in Nat : i >= 1 => a + b + i - 1 \in Nat
        OBVIOUS
      <4>2. Words \in Nat \ {0}
        BY MxLinesAssumption
      <4> QED
        BY <2>5, <3>1, <4>1, <4>2
    <3> HIDE DEF place
    <3>3. place % Words \in 0..Words - 1
      BY <3>2
    <3> QED
      BY <3>3 DEF At, place
  <2>7. read[k] = Swap(sector[k])
    <3> HIDE DEF n
    <3> QED
      BY <2>5
  <2> HIDE DEF n, read
  <2>8. (CHOOSE i \in 1..n : At(d, i) = At(d, k) /\ \A j \in i + 1..n : At(d, j) # At(d, k)) = k
    <3>1. k \in 1..n /\ \A j \in k + 1..n : At(d, j) # At(d, k)
      BY <1>1, <2>5 DEF n
    <3>2. ASSUME NEW i \in 1..n, At(d, i) = At(d, k), \A j \in i + 1..n : At(d, j) # At(d, k) PROVE i = k
      <4>1. ~(i < k)
        BY <2>5, <3>1, <3>2
      <4>2. ~(k < i)
        BY <2>5, <3>1, <3>2
      <4> QED
        BY <2>5, <4>1, <4>2
    <3> QED
      BY <3>1, <3>2
  <2>9. mem'[At(d, k)] = read[k]
    <3>1. \E i \in 1..n : At(d, i) = At(d, k)
      BY <2>5
    <3> QED
      BY <2>3, <2>4, <2>6, <2>8, <3>1 DEF SectorLoaded
  <2> QED
    BY <2>4, <2>7, <2>9
<1>2. LinesInv /\ [LinesNext]_linesVars =>
        [\A p \in Phys : pc[p] = "read" /\ moved'[p] > moved[p] =>
           \A k \in 1..Count(data[p]) :
             At(data[p], k) \notin {At(data[p], j) : j \in k + 1..Count(data[p])} =>
               mem'[At(data[p], k)] = Swap(disk[Offset(Chs(Reached(p), data[p].heads))][k])]_linesVars
  BY <1>1
<1> QED
  BY <1>2, LinesAlwaysHold, PTL DEF LinesSpec, ReadsAsAddressed

\* All of it, for any geometry of drives and any number of lines (mx.c, proto_winchester.c).
THEOREM LinesAlwaysSafe == LinesSpec => LinesSafe
BY LinesAlwaysSetUp, ResultsAlwaysTell, SectorsAlwaysStay, AlwaysReadAsAddressed, PTL DEF LinesSafe
=============================================================================
