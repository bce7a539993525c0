---------------------------- MODULE MachineProofs ---------------------------
(***************************************************************************)
(* What holds of the memory with any number of modules, segments, pages    *)
(* and frames, whatever configurations it is started with and whatever     *)
(* programs tell its modules; of the adder and the subtractor for a word   *)
(* of any width: they give the true result, with flags that tell the truth *)
(* about it; and of instructions, whatever the program: arithmetic is that *)
(* of the adder, words stay words, and RB writes one byte.                 *)
(***************************************************************************)
EXTENDS Memory, Instructions, FiniteSetTheorems, WellFoundedInduction, TLAPS

-----------------------------------------------------------------------------
(* The inductive invariant: what the modules hold, and that the maps follow. *)

ElwroFrame == 0..ElwroFrames - 1
MegaFrame == 0..MegaFrames - 1
Images == {"default", "custom", "bad"}

ModulesTyped ==
  /\ mem_initialized \in BOOLEAN /\ mem_mega_prom_hidden \in BOOLEAN /\ mem_mega_alloc_done \in BOOLEAN
  /\ ral \in [Modules \X ElwroFrame -> Places]
  /\ mem_mega \in [Modules \X MegaFrame -> Ptrs]
  /\ mem_mega_map \in [Places -> Ptrs]
  /\ live \subseteq Heap
  /\ prom \in {"default", "custom"} /\ power \in 0..MaxPower

\* Memory that is on has been configured with what its modules accept.
ConfigAccepted ==
  /\ config \in [elwro : Nat, mega : Nat, os : Nat, prom : Images]
  /\ mem_initialized => ElwroOK(config) /\ MegaOK(config) /\ power > 0

\* The hardwired frames answer the pages of the operating system.
OsFrames ==
  mem_initialized /\ config.elwro > 0 =>
    \A i \in 0..config.os - 1 : ral[<<0, i>>] = <<0, i>>

\* both maps have an entry for each page
MapsTotal == reads = [pg \in Places |-> reads[pg]] /\ writes = [pg \in Places |-> writes[pg]]

IInv == ModulesTyped /\ ConfigAccepted /\ OsFrames /\ MapsTotal /\ MapsFollowModules

-----------------------------------------------------------------------------
(* The frame with the lowest number. *)

LEMMA LeastExists ==
  ASSUME NEW S \in SUBSET Nat, S # {}
  PROVE  \E i \in S : \A j \in S : i <= j
<1> DEFINE T == {0..i : i \in S}
<1>1. T \subseteq FiniteSubsetsOf(Nat) /\ T # {}
  <2>1. \A i \in S : 0..i \in SUBSET Nat /\ IsFiniteSet(0..i)
    BY FS_Interval
  <2> QED
    BY <2>1 DEF FiniteSubsetsOf
<1>2. IsWellFoundedOn(StrictSubsetOrdering(Nat), FiniteSubsetsOf(Nat))
  BY FS_StrictSubsetOrderingWellFounded
<1>3. PICK x \in T : \A y \in T : ~(<<y, x>> \in StrictSubsetOrdering(Nat))
  <2> HIDE DEF T
  <2> QED
    BY <1>1, <1>2, WFMin, Zenon
<1>4. PICK i \in S : x = 0..i
  OBVIOUS
<1>5. ASSUME NEW j \in S PROVE i <= j
  <2> SUFFICES ASSUME j < i PROVE FALSE
    OBVIOUS
  <2>1. 0..j \in T /\ 0..j \in SUBSET Nat /\ 0..i \in SUBSET Nat
    OBVIOUS
  <2>2. 0..j \subseteq 0..i /\ i \in 0..i /\ i \notin 0..j
    OBVIOUS
  <2> HIDE DEF T
  <2> QED
    BY <1>3, <1>4, <2>1, <2>2 DEF StrictSubsetOrdering
<1> QED
  BY <1>5

\* Of all frames that answer a page one has the lowest module and, in it, the
\* lowest number.
LEMMA LowestFound ==
  ASSUME NEW S \in SUBSET (Nat \X Nat), S # {}
  PROVE  /\ Lowest(S) \in S
         /\ \A d \in S : Lowest(S)[1] < d[1] \/ (Lowest(S)[1] = d[1] /\ Lowest(S)[2] <= d[2])
<1> DEFINE M == {e[1] : e \in S}
<1>1. M \subseteq Nat /\ M # {}
  OBVIOUS
<1>2. PICK m \in M : \A n \in M : m <= n
  BY <1>1, LeastExists
<1> DEFINE F == {e[2] : e \in {e \in S : e[1] = m}}
<1>3. F \subseteq Nat /\ F # {}
  BY <1>2
<1>4. PICK f \in F : \A g \in F : f <= g
  <2> HIDE DEF F
  <2> QED
    BY <1>3, LeastExists
<1>5. PICK e \in S : e[1] = m /\ e[2] = f
  BY <1>4
<1>6. ASSUME NEW d \in S PROVE e[1] < d[1] \/ (e[1] = d[1] /\ e[2] <= d[2])
  <2>1. d[1] \in M /\ m \in Nat /\ d[1] \in Nat /\ m <= d[1]
    BY <1>1, <1>2
  <2>2. d[1] = m => d[2] \in F
    OBVIOUS
  <2>3. d[1] = m => f <= d[2]
    BY <1>4, <2>2
  <2> HIDE DEF M, F
  <2> QED
    BY <1>5, <2>1, <2>3
<1> QED
  BY <1>5, <1>6 DEF Lowest

-----------------------------------------------------------------------------
(* The maps. *)

LEMMA Sizes ==
  /\ NModules \in Nat \ {0} /\ NSegments \in Nat \ {0} /\ NPages \in Nat /\ NPages >= 2
  /\ MegaFrames \in Nat \ {0} /\ ElwroFrames \in Nat /\ ElwroFrames >= 2 /\ MaxPower \in Nat \ {0}
BY MemoryAssumption

\* A frame of Elwro memory that answers a page is one of the configured modules'.
LEMMA ElwroFrameFound ==
  ASSUME ModulesTyped, ConfigAccepted, mem_initialized, NEW pg \in Places, ElwroFound(pg) # {}
  PROVE  /\ Lowest(ElwroFound(pg)) \in ElwroFound(pg)
         /\ Lowest(ElwroFound(pg))[1] \in Modules /\ Lowest(ElwroFound(pg))[2] \in ElwroFrame
         /\ config.elwro > 0
<1>1. ElwroFound(pg) \subseteq ElwroPlaces
  BY DEF ElwroFound
<1>2. config.elwro \in Nat /\ (config.elwro > 0 => config.elwro <= NModules)
  BY DEF ConfigAccepted, ElwroOK
<1>3. ElwroPlaces \subseteq Nat \X Nat
  BY <1>2, Sizes DEF ElwroPlaces
<1>4. Lowest(ElwroFound(pg)) \in ElwroFound(pg)
  BY <1>1, <1>3, LowestFound
<1>5. PICK e \in ElwroPlaces : e = Lowest(ElwroFound(pg))
  BY <1>1, <1>4
<1>6. e[1] \in 0..config.elwro - 1 /\ e[2] \in ElwroFrame
  BY <1>5 DEF ElwroPlaces, ElwroFrame
<1> QED
  BY <1>2, <1>4, <1>5, <1>6, Sizes DEF Modules

LEMMA PtrsTyped ==
  ASSUME ModulesTyped, ConfigAccepted, mem_initialized, NEW pg \in Places
  PROVE  ReadPtr(pg) \in Ptrs /\ WritePtr(pg) \in Ptrs
<1>1. {Prom, Ones, DevNull, Null} \subseteq Ptrs
  BY DEF Ptrs, Statics
<1>2. mem_mega_map[pg] \in Ptrs
  BY DEF ModulesTyped
<1>3. CASE ElwroFound(pg) = {}
  BY <1>1, <1>2, <1>3 DEF ReadPtr, WritePtr, MegaReads, MegaWrites
<1>4. CASE ElwroFound(pg) # {}
  <2> DEFINE e == Lowest(ElwroFound(pg))
  <2>1. e[1] \in Modules /\ e[2] \in ElwroFrame
    BY <1>4, ElwroFrameFound
  <2>2. power \in 1..MaxPower
    BY Sizes DEF ModulesTyped, ConfigAccepted
  <2>3. e[2] \in 0..MegaFrames + ElwroFrames - 1
    BY <2>1, Sizes DEF ElwroFrame
  <2>4. ReadPtr(pg) = Elwro(e[1], e[2]) /\ WritePtr(pg) = ReadPtr(pg)
    BY <1>4 DEF ReadPtr, WritePtr
  <2> HIDE DEF e
  <2>5. Elwro(e[1], e[2]) \in Heap
    BY <2>1, <2>2, <2>3 DEF Elwro, Heap
  <2> QED
    BY <2>4, <2>5 DEF Ptrs
<1> QED
  BY <1>3, <1>4

\* Elwro memory is written where it is read, MEGA memory unless it is the PROM
\* or a missing module.
LEMMA WritesApart ==
  ASSUME NEW pg \in Places
  PROVE  WritePtr(pg) \notin {Prom, Ones} /\ WritePtr(pg) \in {ReadPtr(pg), DevNull}
<1>1. \A m, f : Elwro(m, f) # Prom /\ Elwro(m, f) # Ones
  BY DEF Elwro, Prom, Ones
<1>2. DevNull # Prom /\ DevNull # Ones /\ Null # Prom /\ Null # Ones
  BY DEF DevNull, Prom, Ones, Null
<1> QED
  BY <1>1, <1>2 DEF WritePtr, ReadPtr, MegaWrites

\* A page of the operating system is answered by the frame that is hardwired.
LEMMA OsPageAnswered ==
  ASSUME ModulesTyped, ConfigAccepted, OsFrames, mem_initialized, config.elwro > 0,
         NEW i \in 0..config.os - 1
  PROVE  ReadPtr(<<0, i>>) = Elwro(0, i)
<1>1. config.os \in 1..2 /\ config.elwro \in Nat
  BY DEF ConfigAccepted, ElwroOK
<1>2. i \in ElwroFrame /\ i \in Nat /\ <<0, i>> \in Places
  BY <1>1, Sizes DEF ElwroFrame, Places
<1>3. <<0, i>> \in ElwroFound(<<0, i>>)
  BY <1>1, <1>2 DEF ElwroFound, ElwroPlaces, OsFrames, ElwroFrame
<1> DEFINE e == Lowest(ElwroFound(<<0, i>>))
<1>4. ElwroFound(<<0, i>>) \subseteq Nat \X Nat
  BY <1>1, Sizes DEF ElwroFound, ElwroPlaces
<1>5. e \in ElwroFound(<<0, i>>) /\ (e[1] < 0 \/ (e[1] = 0 /\ e[2] <= i))
  BY <1>3, <1>4, LowestFound
<1>6. e[1] = 0 /\ e[2] \in Nat /\ e[2] <= i /\ e = <<e[1], e[2]>>
  BY <1>4, <1>5
<1>7. ral[e] = <<0, i>>
  BY <1>5 DEF ElwroFound
<1> HIDE DEF e
<1>8. e[2] \in 0..config.os - 1
  BY <1>1, <1>6
<1>9. ral[<<0, e[2]>>] = <<0, e[2]>>
  BY <1>8 DEF OsFrames
<1>10. e[2] = i
  BY <1>6, <1>7, <1>9
<1> QED
  BY <1>3, <1>6, <1>10 DEF ReadPtr, e

-----------------------------------------------------------------------------
(* Transfers in bulk, cut at the ends of pages. *)

Size == NPages * PageSize

\* the words that come before the first that has no memory behind it
Goes(map, seg, s, n, k) ==
  /\ k \in 0..n
  /\ \A i \in 0..k - 1 : Answered(map, seg, (s + i) % Size)
  /\ k < n => ~Answered(map, seg, (s + k) % Size)
Taken(s, k) == [i \in 1..k |-> (s + i - 1) % Size]

LEMMA SizeIs == PageSize \in Nat \ {0} /\ NPages \in Nat \ {0} /\ Size \in Nat \ {0}
<1>1. PageSize \in Nat \ {0} /\ NPages \in Nat \ {0}
  BY MemoryAssumption
<1> QED
  BY <1>1 DEF Size

LEMMA WrapsOnce ==
  ASSUME NEW z \in Nat \ {0}, NEW x \in 0..2 * z - 1
  PROVE  x % z = IF x < z THEN x ELSE x - z
OBVIOUS

LEMMA WrapsIn == \A x \in 0..2 * Size - 1 : x % Size = IF x < Size THEN x ELSE x - Size
BY SizeIs, WrapsOnce

LEMMA Divided ==
  ASSUME NEW z \in Nat \ {0}, NEW x \in Nat
  PROVE  x \div z \in Nat /\ x % z \in 0..z - 1 /\ x = z * (x \div z) + (x % z)
<1>1. x \div z \in Nat
  OBVIOUS
<1>2. x % z \in 0..z - 1
  OBVIOUS
<1>3. x = z * (x \div z) + (x % z)
  OBVIOUS
<1> QED
  BY <1>1, <1>2, <1>3

\* An address is a page and a place in it.
LEMMA PageOf ==
  \A x \in Nat : /\ x \div PageSize \in Nat /\ x % PageSize \in 0..PageSize - 1
                /\ x = PageSize * (x \div PageSize) + (x % PageSize)
BY SizeIs, Divided

LEMMA QuotientUnique ==
  ASSUME NEW z \in Nat \ {0}, NEW a \in Nat, NEW b \in Nat, NEW u \in 0..z - 1, NEW v \in 0..z - 1,
         z * a + u = z * b + v
  PROVE  a = b
<1>1. ASSUME NEW c \in Nat, NEW d \in Nat, c < d PROVE z * c + z <= z * d
  <2>1. z * (d - c - 1) >= 0
    BY <1>1
  <2> QED
    BY <2>1, <1>1
<1>2. ~(a < b)
  BY <1>1
<1>3. ~(b < a)
  BY <1>1
<1> QED
  BY <1>2, <1>3

\* What is left of a page lies in it, and so within the segment.
LEMMA RoomIs ==
  ASSUME NEW s \in 0..Size - 1
  PROVE  /\ Room(s) \in 1..PageSize /\ s + Room(s) <= Size
         /\ \A i \in 0..Room(s) - 1 : (s + i) \div PageSize = s \div PageSize
<1> DEFINE a == s \div PageSize
           u == s % PageSize
<1>1. a \in Nat /\ u \in 0..PageSize - 1 /\ s = PageSize * a + u /\ s \in Nat
  BY PageOf, SizeIs
<1>2. Room(s) = PageSize - u
  BY DEF Room
<1> HIDE DEF a, u
<1>3. Room(s) \in 1..PageSize
  BY <1>1, <1>2, SizeIs
<1>4. a < NPages
  <2> SUFFICES ASSUME a >= NPages PROVE FALSE
    BY <1>1, SizeIs
  <2>1. PageSize * (a - NPages) >= 0
    BY <1>1, SizeIs
  <2>2. PageSize * a >= Size
    BY <2>1, <1>1, SizeIs DEF Size
  <2> QED
    BY <2>2, <1>1, SizeIs
<1>5. s + Room(s) <= Size
  <2>1. PageSize * (NPages - a - 1) >= 0
    BY <1>1, <1>4, SizeIs
  <2>2. PageSize * a + PageSize <= Size
    BY <2>1, <1>1, SizeIs DEF Size
  <2> QED
    BY <2>2, <1>1, <1>2, SizeIs
<1>6. ASSUME NEW i \in 0..Room(s) - 1 PROVE (s + i) \div PageSize = a
  <2>1. u + i \in 0..PageSize - 1 /\ s + i = PageSize * a + (u + i) /\ s + i \in Nat
    BY <1>1, <1>2, SizeIs
  <2>2. /\ (s + i) \div PageSize \in Nat /\ (s + i) % PageSize \in 0..PageSize - 1
        /\ s + i = PageSize * ((s + i) \div PageSize) + ((s + i) % PageSize)
    BY <2>1, PageOf
  <2> QED
    BY <2>1, <2>2, <1>1, SizeIs, QuotientUnique
<1> QED
  BY <1>3, <1>5, <1>6 DEF a

\* A transfer of words stops at one place.
LEMMA GoesTo ==
  ASSUME NEW map, NEW seg, NEW s \in Nat, NEW n \in Nat
  PROVE  LET single == {k \in 0..n : \A i \in 0..k - 1 : Answered(map, seg, (s + i) % Size)}
             most == CHOOSE k \in single : \A j \in single : j <= k
         IN Goes(map, seg, s, n, most)
<1> DEFINE yes(i) == Answered(map, seg, (s + i) % Size)
           single == {k \in 0..n : \A i \in 0..k - 1 : yes(i)}
           most == CHOOSE k \in single : \A j \in single : j <= k
           left == {n - k : k \in single}
<1> HIDE DEF yes
<1>1. 0 \in single /\ single \subseteq 0..n
  OBVIOUS
<1>2. left \in SUBSET Nat /\ left # {}
  BY <1>1
<1>3. PICK l \in left : \A j \in left : l <= j
  <2> HIDE DEF left
  <2> QED
    BY <1>2, LeastExists
<1>4. PICK k \in single : l = n - k
  BY <1>3
<1>5. \A j \in single : j <= k
  <2> SUFFICES ASSUME NEW j \in single PROVE j <= k
    OBVIOUS
  <2>1. n - j \in left
    OBVIOUS
  <2>2. l <= n - j
    BY <1>3, <2>1
  <2> QED
    BY <1>1, <1>4, <2>2
<1>6. most \in single /\ \A j \in single : j <= most
  <2> HIDE DEF single
  <2> QED
    BY <1>5, Zenon
<1> HIDE DEF most
<1>7. most < n => ~yes(most)
  <2> SUFFICES ASSUME most < n, yes(most) PROVE FALSE
    OBVIOUS
  <2>1. most + 1 \in 0..n /\ most \in Nat
    BY <1>6
  <2>2. \A i \in 0..most + 1 - 1 : yes(i)
    BY <1>6, <2>1
  <2>3. most + 1 \in single
    BY <2>1, <2>2
  <2> QED
    BY <1>6, <2>1, <2>3
<1>8. most \in 0..n /\ \A i \in 0..most - 1 : yes(i)
  BY <1>6
<1> QED
  BY <1>7, <1>8 DEF Goes, yes, most, single

LEMMA Concatenated ==
  ASSUME NEW a \in Seq(Int), NEW b \in Seq(Int)
  PROVE  a \o b = [i \in 1..Len(a) + Len(b) |-> IF i <= Len(a) THEN a[i] ELSE b[i - Len(a)]]
<1>1. /\ Len(a \o b) = Len(a) + Len(b) /\ a \o b \in Seq(Int)
      /\ \A i \in 1..Len(a) + Len(b) : (a \o b)[i] = IF i <= Len(a) THEN a[i] ELSE b[i - Len(a)]
  OBVIOUS
<1> DEFINE whole == a \o b
<1> HIDE DEF whole
<1>2. whole \in Seq(Int) => whole = [i \in 1..Len(whole) |-> whole[i]]
  OBVIOUS
<1> QED
  BY <1>1, <1>2 DEF whole

\* The run within a page, and the transfer of what is left behind it, make up the whole.
LEMMA RunThenRest ==
  ASSUME NEW map, NEW seg, NEW s \in 0..Size - 1, NEW n \in 1..Size, NEW k, Goes(map, seg, s, n, k),
         Answered(map, seg, s),
         NEW run \in 1..n, run <= Room(s), s + run <= Size,
         NEW t \in 0..Size - 1, s + run < Size => t = s + run, s + run = Size => t = 0
  PROVE  /\ Goes(map, seg, t, n - run, k - run)
         /\ Taken(s, k) = [i \in 1..run |-> s + i - 1] \o Taken(t, k - run)
<1>0. Size \in Nat \ {0} /\ k \in 0..n /\ s \in Nat /\ n \in Nat
  BY SizeIs DEF Goes
<1>1. run \in 1..n /\ run <= Room(s) /\ s + run <= Size
  OBVIOUS
<1>2. t \in 0..Size - 1 /\ t = IF s + run < Size THEN s + run ELSE 0
  BY <1>0
<1>3. \A i \in 0..run - 1 : (s + i) % Size = s + i /\ Answered(map, seg, (s + i) % Size)
  <2> SUFFICES ASSUME NEW i \in 0..run - 1 PROVE (s + i) % Size = s + i /\ Answered(map, seg, (s + i) % Size)
    OBVIOUS
  <2>1. (s + i) % Size = s + i
    <3>1. s + i \in 0..2 * Size - 1 /\ s + i < Size
      BY <1>0, <1>1
    <3> QED
      BY <3>1, WrapsIn
  <2>2. i \in 0..Room(s) - 1
    BY <1>0, <1>1, RoomIs
  <2>3. (s + i) \div PageSize = s \div PageSize
    BY <2>2, RoomIs
  <2> QED
    BY <2>1, <2>3 DEF Answered
<1>4. k >= run
  <2> SUFFICES ASSUME k < run PROVE FALSE
    BY <1>0, <1>1
  <2>1. k < n /\ k \in 0..run - 1
    BY <1>0, <1>1
  <2> QED
    BY <2>1, <1>3 DEF Goes
<1>5. ASSUME NEW i \in 0..n - run PROVE (t + i) % Size = (s + (run + i)) % Size
  <2>1. s + run + i \in 0..2 * Size - 1 /\ t + i \in 0..2 * Size - 1
    BY <1>0, <1>1, <1>2
  <2>2. (s + (run + i)) % Size = IF s + run + i < Size THEN s + run + i ELSE s + run + i - Size
    <3>1. s + (run + i) = s + run + i
      BY <1>0, <1>1
    <3> QED
      BY <1>0, <1>1, <3>1, <2>1, WrapsIn
  <2>3. (t + i) % Size = IF t + i < Size THEN t + i ELSE t + i - Size
    <3>1. t \in Int /\ t + i \in 0..2 * Size - 1
      BY <1>0, <1>1, <1>2, <2>1
    <3> QED
      BY <3>1, WrapsIn, SizeIs
  <2> QED
    BY <1>0, <1>1, <1>2, <2>2, <2>3
<1>6. Goes(map, seg, t, n - run, k - run)
  <2>1. k - run \in 0..n - run
    BY <1>0, <1>1, <1>4
  <2>2. ASSUME NEW i \in 0..k - run - 1 PROVE Answered(map, seg, (t + i) % Size)
    <3>1. run + i \in 0..k - 1 /\ i \in 0..n - run
      BY <1>0, <1>1, <1>4
    <3> QED
      BY <3>1, <1>5 DEF Goes
  <2>3. ASSUME k - run < n - run PROVE ~Answered(map, seg, (t + (k - run)) % Size)
    <3>1. k < n /\ k - run \in 0..n - run /\ run + (k - run) = k
      BY <2>3, <1>0, <1>1, <1>4
    <3>2. (t + (k - run)) % Size = (s + k) % Size
      BY <3>1, <1>5
    <3> QED
      BY <3>1, <3>2 DEF Goes
  <2> QED
    BY <2>1, <2>2, <2>3 DEF Goes
<1>7. Taken(s, k) = [i \in 1..run |-> s + i - 1] \o Taken(t, k - run)
  <2> DEFINE head == [i \in 1..run |-> s + i - 1]
             rest == Taken(t, k - run)
  <2>1. head \in Seq(Nat) /\ Len(head) = run
    BY <1>0, <1>1
  <2>2. rest \in Seq(Int) /\ Len(rest) = k - run /\ rest = [i \in 1..k - run |-> (t + i - 1) % Size]
    BY <1>0, <1>1, <1>2, <1>4 DEF Taken
  <2>3. head \in Seq(Int)
    BY <1>0, <1>1
  <2>4. \A i \in 1..run : head[i] = s + i - 1
    OBVIOUS
  <2>5. \A i \in 1..k - run : rest[i] = (t + i - 1) % Size
    BY <2>2
  <2> HIDE DEF head, rest
  <2>6. head \o rest = [i \in 1..k |-> IF i <= run THEN head[i] ELSE rest[i - run]]
    <3>1. run + (k - run) = k /\ run \in Nat /\ k - run \in Nat
      BY <1>0, <1>1, <1>4
    <3>2. head \o rest = [i \in 1..Len(head) + Len(rest) |-> IF i <= Len(head) THEN head[i] ELSE rest[i - Len(head)]]
      BY <2>2, <2>3, Concatenated, Zenon
    <3> QED
      BY <2>1, <2>2, <3>1, <3>2, Zenon
  <2>7. ASSUME NEW i \in 1..k PROVE (s + i - 1) % Size = IF i <= run THEN head[i] ELSE rest[i - run]
    <3>1. CASE i <= run
      <4>1. i - 1 \in 0..run - 1 /\ i \in 1..run /\ s + (i - 1) = s + i - 1
        BY <3>1, <1>0, <1>1
      <4> QED
        BY <4>1, <3>1, <1>3, <2>4
    <3>2. CASE i > run
      <4>1. i - run \in 1..k - run /\ i - run - 1 \in 0..n - run /\ run + (i - run - 1) = i - 1
        BY <3>2, <1>0, <1>1
      <4>2. rest[i - run] = (t + (i - run) - 1) % Size
        BY <4>1, <2>5
      <4>3. t + (i - run) - 1 = t + (i - run - 1) /\ s + i - 1 = s + (run + (i - run - 1))
        BY <1>0, <1>1, <1>2
      <4> QED
        BY <4>1, <4>2, <4>3, <3>2, <1>5, <1>1
    <3> QED
      BY <3>1, <3>2, <1>0, <1>1
  <2>8. Taken(s, k) = [i \in 1..k |-> (s + i - 1) % Size]
    BY DEF Taken
  <2> QED
    BY <2>6, <2>7, <2>8 DEF head, rest
<1> QED
  BY <1>6, <1>7

\* the loop as an equation
CutsUp(B, map, seg) ==
  B = [w \in (0..NPages * PageSize - 1) \X (0..NPages * PageSize) |->
        LET s == w[1]
            n == w[2]
            run == IF Room(s) > n THEN n ELSE Room(s)
        IN IF n = 0 \/ ~Answered(map, seg, s) THEN <<>>
           ELSE [i \in 1..run |-> s + i - 1] \o B[<<(s + run) % (NPages * PageSize), n - run>>]]

\* one turn of it, for a function that says what is done with the rest
Turn(B, map, seg, s, n) ==
  LET run == IF Room(s) > n THEN n ELSE Room(s)
  IN IF n = 0 \/ ~Answered(map, seg, s) THEN <<>>
     ELSE [i \in 1..run |-> s + i - 1] \o B[<<(s + run) % (NPages * PageSize), n - run>>]

LEMMA CutsByTurns ==
  ASSUME NEW B, NEW map, NEW seg
  PROVE  CutsUp(B, map, seg) <=> B = [w \in (0..Size - 1) \X (0..Size) |-> Turn(B, map, seg, w[1], w[2])]
BY Zenon DEF CutsUp, Turn, Size

LEMMA BulkChosen ==
  ASSUME NEW map, NEW seg, NEW W, CutsUp(W, map, seg)
  PROVE  CutsUp(Bulk(map, seg), map, seg)
<1>1. Bulk(map, seg) = CHOOSE B : CutsUp(B, map, seg)
  BY DEF Bulk, CutsUp
<1> QED
  BY <1>1, Zenon

LEMMA GoesOnce ==
  ASSUME NEW map, NEW seg, NEW s \in Nat, NEW n \in Nat, NEW j, NEW k,
         Goes(map, seg, s, n, j), Goes(map, seg, s, n, k)
  PROVE  j = k
<1>1. j \in 0..n /\ k \in 0..n
  BY DEF Goes
<1>2. ~(j < k)
  <2> SUFFICES ASSUME j < k PROVE FALSE
    OBVIOUS
  <2>1. j \in 0..k - 1 /\ j < n
    BY <1>1
  <2> QED
    BY <2>1 DEF Goes
<1>3. ~(k < j)
  <2> SUFFICES ASSUME k < j PROVE FALSE
    OBVIOUS
  <2>1. k \in 0..j - 1 /\ k < n
    BY <1>1
  <2> QED
    BY <2>1 DEF Goes
<1> QED
  BY <1>1, <1>2, <1>3

\* One turn of the loop, for a function that is right about what is left.
LEMMA TurnIs ==
  ASSUME NEW map, NEW seg, NEW B, NEW s \in 0..Size - 1, NEW n \in 0..Size, NEW k, Goes(map, seg, s, n, k),
         \A t \in 0..Size - 1, m \in 0..n - 1 : \A j : Goes(map, seg, t, m, j) => B[<<t, m>>] = Taken(t, j)
  PROVE  Taken(s, k) = Turn(B, map, seg, s, n)
<1>0. Size \in Nat \ {0} /\ k \in 0..n /\ Size = NPages * PageSize /\ s \in Nat /\ n \in Nat
  BY SizeIs DEF Goes, Size
<1>1. CASE n = 0 \/ ~Answered(map, seg, s)
  <2>1. k = 0
    <3>1. CASE n = 0
      BY <3>1, <1>0
    <3>2. CASE ~Answered(map, seg, s)
      <4>1. s + 0 \in 0..2 * Size - 1 /\ s + 0 < Size /\ s + 0 = s
        BY <1>0
      <4>2. (s + 0) % Size = s
        BY <4>1, <1>0, WrapsIn
      <4>3. 0 \notin 0..k - 1
        BY <4>2, <3>2 DEF Goes
      <4> QED
        BY <4>3, <1>0
    <3> QED
      BY <1>1, <3>1, <3>2
  <2>2. Taken(s, 0) = <<>>
    BY DEF Taken
  <2> QED
    BY <1>1, <2>1, <2>2 DEF Turn
<1>2. CASE n # 0 /\ Answered(map, seg, s)
  <2> DEFINE run == IF Room(s) > n THEN n ELSE Room(s)
             t == (s + run) % Size
  <2>1. n \in 1..Size
    BY <1>0, <1>2
  <2>6. run \in 1..n /\ run <= Room(s) /\ s + run <= Size
    BY <1>0, <2>1, RoomIs
  <2> HIDE DEF run
  <2>7. t \in 0..Size - 1 /\ (s + run < Size => t = s + run) /\ (s + run = Size => t = 0)
    <3>1. s + run \in 0..2 * Size - 1
      BY <1>0, <2>6
    <3>2. t = IF s + run < Size THEN s + run ELSE s + run - Size
      BY <1>0, <2>6, <3>1, WrapsIn
    <3> HIDE DEF t
    <3> QED
      BY <1>0, <2>6, <3>1, <3>2
  <2> HIDE DEF t
  <2>2. /\ run \in 1..n /\ t \in 0..Size - 1 /\ Goes(map, seg, t, n - run, k - run)
        /\ Taken(s, k) = [i \in 1..run |-> s + i - 1] \o Taken(t, k - run)
    <3>1. Goes(map, seg, s, n, k) /\ Answered(map, seg, s)
      BY <1>2
    <3> QED
      BY <2>1, <2>6, <2>7, <3>1, RunThenRest, Zenon
  <2>3. n - run \in 0..n - 1
    BY <1>0, <2>2
  <2>4. B[<<t, n - run>>] = Taken(t, k - run)
    BY <2>2, <2>3
  <2>5. Taken(s, k) = [i \in 1..run |-> s + i - 1] \o B[<<t, n - run>>]
    BY <2>2, <2>4
  <2> QED
    BY <1>0, <1>2, <2>5 DEF run, t, Turn
<1> QED
  BY <1>1, <1>2

LEMMA GoesSomewhere ==
  ASSUME NEW map, NEW seg, NEW s \in Nat, NEW n \in Nat
  PROVE  \E k : Goes(map, seg, s, n, k)
BY GoesTo

\* The loop ends: there is a function that does what its turns say.
LEMMA LoopEnds ==
  ASSUME NEW map, NEW seg
  PROVE  CutsUp(Bulk(map, seg), map, seg)
<1> DEFINE reach(s, n) == CHOOSE k : Goes(map, seg, s, n, k)
           W == [w \in (0..Size - 1) \X (0..Size) |-> Taken(w[1], reach(w[1], w[2]))]
<1>0. Size \in Nat \ {0} /\ Size = NPages * PageSize
  BY SizeIs DEF Size
<1>1. ASSUME NEW s \in 0..Size - 1, NEW n \in 0..Size PROVE Goes(map, seg, s, n, reach(s, n))
  <2>1. s \in Nat /\ n \in Nat
    BY <1>0
  <2>2. \E k : Goes(map, seg, s, n, k)
    BY <2>1, GoesSomewhere
  <2> QED
    BY <2>2, Zenon
<1> HIDE DEF reach
<1>2. ASSUME NEW s \in 0..Size - 1, NEW n \in 0..Size, NEW k, Goes(map, seg, s, n, k) PROVE W[<<s, n>>] = Taken(s, k)
  <2>1. k = reach(s, n)
    BY <1>0, <1>1, <1>2, GoesOnce
  <2> QED
    BY <2>1
<1>3. ASSUME NEW s \in 0..Size - 1, NEW n \in 0..Size
      PROVE  Taken(s, reach(s, n)) = Turn(W, map, seg, s, n)
  <2>1. \A t \in 0..Size - 1, m \in 0..n - 1 : \A j : Goes(map, seg, t, m, j) => W[<<t, m>>] = Taken(t, j)
    <3>1. \A m \in 0..n - 1 : m \in 0..Size
      BY <1>0
    <3> QED
      BY <3>1, <1>2
  <2> HIDE DEF W
  <2> QED
    BY <1>1, <2>1, TurnIs
<1>4. CutsUp(W, map, seg)
  <2>1. ASSUME NEW w \in (0..Size - 1) \X (0..Size)
        PROVE  Taken(w[1], reach(w[1], w[2])) = Turn(W, map, seg, w[1], w[2])
    <3> HIDE DEF W
    <3> QED
      BY <1>3
  <2> DEFINE V == [w \in (0..Size - 1) \X (0..Size) |-> Turn(W, map, seg, w[1], w[2])]
  <2>2. W = V
    <3> DEFINE taken(w) == Taken(w[1], reach(w[1], w[2]))
               turn(w) == Turn(W, map, seg, w[1], w[2])
    <3>1. \A w \in (0..Size - 1) \X (0..Size) : taken(w) = turn(w)
      BY <2>1
    <3> HIDE DEF taken, turn
    <3>2. [w \in (0..Size - 1) \X (0..Size) |-> taken(w)] = [w \in (0..Size - 1) \X (0..Size) |-> turn(w)]
      BY <3>1
    <3> QED
      BY <3>2, Zenon DEF taken, turn
  <2> HIDE DEF W
  <2> QED
    BY <2>2, CutsByTurns DEF V
<1> HIDE DEF W
<1> QED
  BY <1>4, BulkChosen

\* What is done in bulk is done to the words up to the first that is missing.
LEMMA BulkTakes ==
  ASSUME NEW map, NEW seg, NEW s \in 0..Size - 1, NEW n \in 0..Size, NEW k, Goes(map, seg, s, n, k)
  PROVE  Bulk(map, seg)[<<s, n>>] = Taken(s, k)
<1> DEFINE B == Bulk(map, seg)
           Correct(m) == \A t \in 0..Size - 1 : \A j : Goes(map, seg, t, m, j) => B[<<t, m>>] = Taken(t, j)
           wrong == {m \in 0..Size : ~Correct(m)}
<1>0. Size \in Nat \ {0} /\ Size = NPages * PageSize
  BY SizeIs DEF Size
<1>1. CutsUp(B, map, seg)
  BY LoopEnds
<1> HIDE DEF B
<1>2. ASSUME NEW m \in 0..Size, \A l \in 0..m - 1 : Correct(l) PROVE Correct(m)
  <2> SUFFICES ASSUME NEW t \in 0..Size - 1, NEW j, Goes(map, seg, t, m, j) PROVE B[<<t, m>>] = Taken(t, j)
    OBVIOUS
  <2> DEFINE turn == Turn(B, map, seg, t, m)
  <2>1. Taken(t, j) = turn
    BY <1>2, TurnIs
  <2>2. B = [w \in (0..Size - 1) \X (0..Size) |-> Turn(B, map, seg, w[1], w[2])]
    BY <1>1, CutsByTurns
  <2>3. B[<<t, m>>] = turn
    <3> DEFINE turns(w) == Turn(B, map, seg, w[1], w[2])
    <3>1. B = [w \in (0..Size - 1) \X (0..Size) |-> turns(w)]
      BY <2>2
    <3>2. turns(<<t, m>>) = turn
      OBVIOUS
    <3> HIDE DEF turns, turn
    <3>3. <<t, m>> \in (0..Size - 1) \X (0..Size)
      OBVIOUS
    <3> QED
      BY <3>1, <3>2, <3>3, Zenon
  <2> HIDE DEF turn
  <2> QED
    BY <2>1, <2>3
<1> HIDE DEF Correct
<1>3. wrong = {}
  <2> SUFFICES ASSUME wrong # {} PROVE FALSE
    OBVIOUS
  <2>1. wrong \in SUBSET Nat
    BY <1>0
  <2>2. PICK m \in wrong : \A l \in wrong : m <= l
    <3> HIDE DEF wrong
    <3> QED
      BY <2>1, LeastExists
  <2>3. m \in 0..Size /\ \A l \in 0..m - 1 : l \in 0..Size /\ ~(m <= l)
    BY <1>0, <2>2
  <2>4. \A l \in 0..m - 1 : Correct(l)
    BY <2>2, <2>3
  <2> QED
    BY <1>2, <2>2, <2>3, <2>4
<1>4. Correct(n)
  BY <1>3
<1> QED
  BY <1>4 DEF Correct, B

LEMMA BulkSound == BulkIsWordByWord
<1> SUFFICES ASSUME NEW map \in {reads, writes}, NEW seg \in 0..NSegments - 1,
                    NEW s \in 0..NPages * PageSize - 1, NEW n \in 1..NPages * PageSize
             PROVE  LET size == NPages * PageSize
                        single == {k \in 0..n : \A i \in 0..k - 1 : Answered(map, seg, (s + i) % size)}
                        most == CHOOSE k \in single : \A j \in single : j <= k
                    IN Bulk(map, seg)[<<s, n>>] = [i \in 1..most |-> (s + i - 1) % size]
  BY DEF BulkIsWordByWord
<1>1. Size \in Nat \ {0} /\ Size = NPages * PageSize
  BY SizeIs DEF Size
<1>2. s \in 0..Size - 1 /\ n \in 0..Size /\ s \in Nat /\ n \in Nat
  BY <1>1
<1> DEFINE single == {k \in 0..n : \A i \in 0..k - 1 : Answered(map, seg, (s + i) % Size)}
           most == CHOOSE k \in single : \A j \in single : j <= k
<1>3. Goes(map, seg, s, n, most)
  BY <1>2, GoesTo
<1>4. Bulk(map, seg)[<<s, n>>] = Taken(s, most)
  <2> HIDE DEF most
  <2> QED
    BY <1>2, <1>3, BulkTakes
<1> QED
  BY <1>1, <1>4 DEF Taken

-----------------------------------------------------------------------------
(* What memory promises follows from the invariant. *)

\* What is on follows from the invariant.
LEMMA InvSound == IInv => MemorySound
<1> SUFFICES ASSUME IInv PROVE MemorySound
  OBVIOUS
<1> USE DEF IInv
<1>1. Null \in Ptrs
  BY DEF Ptrs
<1>2. \A pg \in Places : reads[pg] \in Ptrs /\ writes[pg] \in Ptrs
  BY <1>1, PtrsTyped DEF MapsFollowModules
<1>3. reads \in [Places -> Ptrs] /\ writes \in [Places -> Ptrs]
  BY <1>2 DEF MapsTotal
<1>4. MemTypeOK
  BY <1>3 DEF MemTypeOK, ModulesTyped, ElwroFrame, MegaFrame
<1>5. ReadOnlyStaysSo
  <2>1. Null # Prom /\ Null # Ones
    BY DEF Null, Prom, Ones
  <2> QED
    BY <2>1, WritesApart DEF MapsFollowModules, ReadOnlyStaysSo
<1>6. OsPagesFixed
  <2> SUFFICES ASSUME mem_initialized, config.elwro > 0, NEW i \in 0..config.os - 1
               PROVE  reads[<<0, i>>] = Elwro(0, i)
    BY DEF OsPagesFixed
  <2>1. config.os \in 1..2
    BY DEF ConfigAccepted, ElwroOK
  <2>2. <<0, i>> \in Places
    BY <2>1, Sizes DEF Places
  <2> QED
    BY <2>2, OsPageAnswered DEF MapsFollowModules
<1> QED
  BY <1>4, <1>5, <1>6, BulkSound DEF MemorySound

-----------------------------------------------------------------------------
(* Each operation preserves the invariant. *)

LEMMA InitInv == MemoryInit => IInv
<1> SUFFICES ASSUME MemoryInit PROVE IInv
  OBVIOUS
<1>1. Null \in Ptrs /\ <<0, 0>> \in Places
  BY Sizes DEF Ptrs, Places
<1>2. ral \in [Modules \X ElwroFrame -> Places]
  BY <1>1 DEF MemoryInit, ElwroFrame
<1>3. mem_mega \in [Modules \X MegaFrame -> Ptrs] /\ mem_mega_map \in [Places -> Ptrs]
  BY <1>1 DEF MemoryInit, MegaFrame
<1>4. mem_initialized \in BOOLEAN /\ mem_mega_prom_hidden \in BOOLEAN /\ mem_mega_alloc_done \in BOOLEAN
  BY Zenon DEF MemoryInit
<1>5. live \subseteq Heap /\ prom \in {"default", "custom"} /\ power \in 0..MaxPower
  BY Sizes DEF MemoryInit
<1>6. ConfigAccepted
  BY DEF MemoryInit, ConfigAccepted, Images
<1>7. MapsTotal /\ MapsFollowModules /\ OsFrames
  BY DEF MemoryInit, MapsTotal, MapsFollowModules, OsFrames
<1> QED
  BY <1>2, <1>3, <1>4, <1>5, <1>6, <1>7 DEF IInv, ModulesTyped

\* mem_update_map() makes the maps what the modules say.
LEMMA Updated == UpdateMap => MapsTotal' /\ (mem_initialized' => MapsFollowModules')
BY DEF UpdateMap, MapsTotal, MapsFollowModules

LEMMA ElwroResetTyped ==
  ASSUME ModulesTyped, NEW c \in [elwro : Nat, mega : Nat, os : Nat, prom : Images],
         ElwroOK(c), c.elwro > 0
  PROVE  /\ ElwroReset(c) \in [Modules \X ElwroFrame -> Places]
         /\ \A i \in 0..c.os - 1 : ElwroReset(c)[<<0, i>>] = <<0, i>>
<1>1. c.os \in 1..2 /\ c.elwro \in Nat
  BY DEF ElwroOK
<1>2. \A e \in Modules \X ElwroFrame : e[2] \in Nat /\ (e[2] < c.os => <<0, e[2]>> \in Places)
  BY <1>1, Sizes DEF ElwroFrame, Places
<1>3. <<0, 0>> \in Places
  BY Sizes DEF Places
<1>4. \A e \in Modules \X ElwroFrame :
        (IF e[1] = 0 /\ e[2] < c.os THEN <<0, e[2]>>
         ELSE IF e[1] < c.elwro THEN <<0, 0>> ELSE ral[e]) \in Places
  BY <1>2, <1>3 DEF ModulesTyped
<1>5. ElwroReset(c) \in [Modules \X ElwroFrame -> Places]
  BY <1>4 DEF ElwroReset, ElwroFrame
<1>6. \A i \in 0..c.os - 1 : <<0, i>> \in Modules \X (0..ElwroFrames - 1) /\ i < c.os
  BY <1>1, Sizes DEF Modules
<1> QED
  BY <1>5, <1>6 DEF ElwroReset

LEMMA MegaFrameTyped ==
  ASSUME NEW n \in 1..MaxPower, NEW m \in Modules, NEW f \in MegaFrame
  PROVE  <<"mega", n, m, f>> \in Heap
<1>1. f \in 0..MegaFrames + ElwroFrames - 1
  BY Sizes DEF MegaFrame
<1> QED
  BY <1>1 DEF Heap

LEMMA FramesTyped ==
  ASSUME NEW c \in [elwro : Nat, mega : Nat, os : Nat, prom : Images], NEW n \in 1..MaxPower,
         ElwroOK(c), MegaOK(c)
  PROVE  FramesOf(c, n) \subseteq Heap
<1>1. 0..c.elwro - 1 \subseteq Modules
  BY Sizes DEF ElwroOK, Modules
<1>2. NModules - c.mega..NModules - 1 \subseteq Modules
  BY Sizes DEF MegaOK, Modules
<1>3. 0..ElwroFrames - 1 \subseteq 0..MegaFrames + ElwroFrames - 1
      /\ 0..MegaFrames - 1 \subseteq 0..MegaFrames + ElwroFrames - 1
  BY Sizes
<1> QED
  BY <1>1, <1>2, <1>3 DEF FramesOf, Heap

LEMMA InitStep == ASSUME IInv, NEW c \in Configs, MemInit(c) PROVE IInv'
<1> USE DEF IInv
<1>1. c \in [elwro : Nat, mega : Nat, os : Nat, prom : Images]
  BY MemoryAssumption DEF Images
<1>2. ~mem_initialized /\ power' = power + 1 /\ power' \in 1..MaxPower
  BY Sizes DEF MemInit, ModulesTyped
<1>3. config' = [c EXCEPT !.os = IF c.elwro > 0 /\ ElwroOK(c) THEN c.os ELSE config.os]
  BY DEF MemInit
<1>4. config' \in [elwro : Nat, mega : Nat, os : Nat, prom : Images]
  BY <1>1, <1>3 DEF ConfigAccepted
<1>5. config'.elwro = c.elwro /\ config'.mega = c.mega /\ config'.prom = c.prom
      /\ (c.elwro > 0 /\ ElwroOK(c) => config'.os = c.os)
  BY <1>1, <1>3
<1>6. ElwroOK(c) /\ MegaOK(c) => ElwroOK(config') /\ MegaOK(config')
  BY <1>5 DEF ElwroOK, MegaOK
<1>7. ral' \in [Modules \X ElwroFrame -> Places]
  BY <1>1, ElwroResetTyped DEF MemInit, ModulesTyped
<1>8. c.elwro > 0 /\ ElwroOK(c) => \A i \in 0..config'.os - 1 : ral'[<<0, i>>] = <<0, i>>
  BY <1>1, <1>5, ElwroResetTyped DEF MemInit
<1>9. CASE ElwroOK(c) /\ MegaOK(c)
  <2>1. mem_initialized' = TRUE
    BY <1>9 DEF MemInit
  <2>2. live' \subseteq Heap
    BY <1>1, <1>2, <1>9, FramesTyped DEF MemInit
  <2>3. mem_mega' \in [Modules \X MegaFrame -> Ptrs]
    <3>1. CASE c.mega = 0
      BY <1>9, <3>1 DEF MemInit, ModulesTyped
    <3>2. CASE c.mega # 0
      <4>1. Ones \in Ptrs
        BY DEF Ptrs, Statics
      <4>2. \A e \in Modules \X MegaFrame : <<"mega", power', e[1], e[2]>> \in Ptrs
        BY <1>2, MegaFrameTyped DEF Ptrs
      <4>3. mem_mega' = [e \in DOMAIN mem_mega |->
                           IF e[1] < NModules - c.mega THEN Ones ELSE <<"mega", power', e[1], e[2]>>]
        BY <1>9, <3>2 DEF MemInit
      <4>4. DOMAIN mem_mega = Modules \X MegaFrame
        BY DEF ModulesTyped
      <4>5. \A e \in Modules \X MegaFrame :
              (IF e[1] < NModules - c.mega THEN Ones ELSE <<"mega", power', e[1], e[2]>>) \in Ptrs
        BY <4>1, <4>2
      <4> QED
        BY <4>3, <4>4, <4>5
    <3> QED
      BY <3>1, <3>2
  <2>4. mem_mega_prom_hidden' \in BOOLEAN /\ mem_mega_alloc_done' \in BOOLEAN
    BY <1>9 DEF MemInit, ModulesTyped
  <2>5. prom' \in {"default", "custom"} /\ mem_mega_map' \in [Places -> Ptrs]
    BY <1>9 DEF MemInit, ModulesTyped
  <2>6. mem_initialized' \in BOOLEAN
    BY <2>1, Zenon
  <2>7. ModulesTyped'
    BY <1>2, <1>7, <2>2, <2>3, <2>4, <2>5, <2>6 DEF ModulesTyped
  <2>8. ConfigAccepted'
    BY <1>2, <1>4, <1>6, <1>9 DEF ConfigAccepted
  <2>9. OsFrames'
    BY <1>5, <1>8, <1>9 DEF OsFrames
  <2>10. MapsTotal' /\ MapsFollowModules'
    BY <1>9, <2>1, Updated DEF MemInit
  <2> QED
    BY <2>7, <2>8, <2>9, <2>10
<1>10. CASE ~(ElwroOK(c) /\ MegaOK(c))
  <2>1. UNCHANGED <<mem_initialized, live, mem_mega, mem_mega_map, mem_mega_prom_hidden,
                    mem_mega_alloc_done, prom, reads, writes>>
    BY <1>10 DEF MemInit
  <2>2. ModulesTyped'
    BY <1>2, <1>7, <2>1 DEF ModulesTyped
  <2> QED
    BY <1>2, <1>4, <2>1, <2>2 DEF ConfigAccepted, OsFrames, MapsTotal, MapsFollowModules
<1> QED
  BY <1>9, <1>10

LEMMA ShutdownStep == ASSUME IInv, MemShutdown PROVE IInv'
<1> USE DEF IInv
<1>1. mem_initialized' = FALSE /\ live' = {}
      /\ UNCHANGED <<config, ral, mem_mega_map, mem_mega_prom_hidden, mem_mega_alloc_done, prom, power>>
      /\ reads' = [pg \in Places |-> Null] /\ writes' = [pg \in Places |-> Null]
  BY DEF MemShutdown
<1>2. mem_mega' \in [Modules \X MegaFrame -> Ptrs]
  <2>1. CASE config.mega = 0
    BY <2>1 DEF MemShutdown, ModulesTyped
  <2>2. CASE config.mega # 0
    <3>1. Null \in Ptrs /\ \A e \in Modules \X MegaFrame : mem_mega[e] \in Ptrs
      BY DEF Ptrs, ModulesTyped
    <3>2. mem_mega' = [e \in Modules \X MegaFrame |->
                         IF e[1] >= NModules - config.mega THEN Null ELSE mem_mega[e]]
      BY <2>2 DEF MemShutdown, ModulesTyped
    <3> QED
      BY <3>1, <3>2
  <2> QED
    BY <2>1, <2>2
<1>3. mem_initialized' \in BOOLEAN
  BY <1>1, Zenon
<1>4. ModulesTyped'
  BY <1>1, <1>2, <1>3 DEF ModulesTyped
<1>5. ConfigAccepted' /\ OsFrames'
  BY <1>1 DEF ConfigAccepted, OsFrames
<1>6. MapsTotal' /\ MapsFollowModules'
  BY <1>1 DEF MapsTotal, MapsFollowModules
<1> QED
  BY <1>4, <1>5, <1>6

LEMMA MegaStep ==
  ASSUME IInv, NEW pg \in Places, NEW e \in InCommands, NEW flags \in MegaFlags,
         MegaCmd(pg, e[1], e[2], flags)
  PROVE  IInv'
<1> USE DEF IInv
<1>1. mem_initialized /\ UNCHANGED <<mem_initialized, config, ral, mem_mega, prom, live, power>> /\ UpdateMap
  BY DEF MegaCmd
<1>2. mem_mega_prom_hidden' \in BOOLEAN /\ mem_mega_alloc_done' \in BOOLEAN
  <2>1. mem_mega_alloc_done' \in BOOLEAN
    BY Zenon DEF MegaCmd
  <2>2. mem_mega_prom_hidden' \in BOOLEAN
    BY Zenon DEF MegaCmd
  <2> QED
    BY <2>1, <2>2
<1>3. mem_mega_map' \in [Places -> Ptrs]
  <2> DEFINE ptr == IF "dealloc" \in flags THEN Null ELSE mem_mega[<<e[1], e[2]>>]
  <2>1. <<e[1], e[2]>> \in Modules \X MegaFrame
    BY MemoryAssumption DEF Modules, MegaFrame
  <2>2. ptr \in Ptrs
    BY <2>1 DEF ModulesTyped, Ptrs
  <2>3. mem_mega_map' = [mem_mega_map EXCEPT ![pg] = ptr]
    BY DEF MegaCmd
  <2> HIDE DEF ptr
  <2> QED
    BY <2>2, <2>3 DEF ModulesTyped
<1>4. ModulesTyped'
  BY <1>1, <1>2, <1>3 DEF ModulesTyped
<1>5. ConfigAccepted' /\ OsFrames'
  BY <1>1 DEF ConfigAccepted, OsFrames
<1> QED
  BY <1>1, <1>4, <1>5, Updated

LEMMA ElwroStep ==
  ASSUME IInv, NEW pg \in Places, NEW c \in InCommands, ElwroCmd(pg, c[1], c[2])
  PROVE  IInv'
<1> USE DEF IInv
<1> DEFINE e == <<c[1], c[2] % ElwroFrames>>
<1>1. /\ mem_initialized /\ c[1] < config.elwro /\ ~Hardwired(c[1], e[2]) /\ ral' = [ral EXCEPT ![e] = pg]
      /\ UNCHANGED <<mem_initialized, config, mem_mega, mem_mega_map, mem_mega_prom_hidden,
                      mem_mega_alloc_done, prom, live, power>>
      /\ UpdateMap
  BY DEF ElwroCmd, Ral
<1>2. e \in Modules \X ElwroFrame
  <2>1. c[1] \in Modules /\ c[2] \in Nat
    BY MemoryAssumption, Sizes DEF Modules
  <2>2. c[2] % ElwroFrames \in ElwroFrame
    BY <2>1, Sizes DEF ElwroFrame
  <2> QED
    BY <2>1, <2>2
<1>3. ral' \in [Modules \X ElwroFrame -> Places]
  BY <1>1, <1>2 DEF ModulesTyped
<1>4. ModulesTyped'
  BY <1>1, <1>3 DEF ModulesTyped
<1>5. OsFrames'
  <2> SUFFICES ASSUME config.elwro > 0, NEW i \in 0..config.os - 1
               PROVE  ral'[<<0, i>>] = <<0, i>>
    BY <1>1 DEF OsFrames
  <2>1. config.os \in 1..2
    BY <1>1 DEF ConfigAccepted, ElwroOK
  <2>2. <<0, i>> \in Modules \X ElwroFrame /\ i < config.os
    BY <2>1, Sizes DEF Modules, ElwroFrame
  <2>3. e # <<0, i>>
    BY <1>1, <2>2 DEF Hardwired
  <2> HIDE DEF e
  <2>4. ral'[<<0, i>>] = ral[<<0, i>>]
    BY <1>1, <2>2, <2>3 DEF ModulesTyped
  <2> QED
    BY <1>1, <2>4 DEF OsFrames
<1>6. ConfigAccepted'
  BY <1>1 DEF ConfigAccepted
<1> QED
  BY <1>1, <1>4, <1>5, <1>6, Updated

LEMMA ResetStep == ASSUME IInv, NEW long \in BOOLEAN, MemReset(long) PROVE IInv'
<1> USE DEF IInv
<1>1. mem_initialized /\ UNCHANGED <<mem_initialized, config, mem_mega, mem_mega_map, prom, live, power>> /\ UpdateMap
  BY DEF MemReset, Remapped
<1>2. ElwroOK(config) /\ config \in [elwro : Nat, mega : Nat, os : Nat, prom : Images]
  BY <1>1 DEF ConfigAccepted
<1>3. ral' \in [Modules \X ElwroFrame -> Places]
  BY <1>2, ElwroResetTyped DEF MemReset, ModulesTyped
<1>4. mem_mega_prom_hidden' \in BOOLEAN /\ mem_mega_alloc_done' \in BOOLEAN
  BY DEF MemReset, ModulesTyped
<1>5. ModulesTyped'
  BY <1>1, <1>3, <1>4 DEF ModulesTyped
<1>6. OsFrames'
  BY <1>1, <1>2, ElwroResetTyped DEF MemReset, OsFrames
<1>7. ConfigAccepted'
  BY <1>1 DEF ConfigAccepted
<1> QED
  BY <1>1, <1>5, <1>6, <1>7, Updated

LEMMA Invariant == MemorySpec => []IInv
<1>1. IInv /\ [MemoryNext]_memVars => IInv'
  <2> SUFFICES ASSUME IInv, [MemoryNext]_memVars PROVE IInv'
    OBVIOUS
  <2>1. CASE UNCHANGED memVars
    <3>1. ModulesTyped' /\ ConfigAccepted' /\ OsFrames' /\ MapsTotal'
      BY <2>1 DEF memVars, IInv, ModulesTyped, ConfigAccepted, OsFrames, MapsTotal
    <3>2. MapsFollowModules'
      <4>1. /\ mem_initialized' = mem_initialized /\ config' = config /\ ral' = ral /\ mem_mega' = mem_mega
            /\ mem_mega_map' = mem_mega_map /\ mem_mega_prom_hidden' = mem_mega_prom_hidden
            /\ mem_mega_alloc_done' = mem_mega_alloc_done /\ reads' = reads /\ writes' = writes /\ power' = power
        BY <2>1 DEF memVars
      <4>2. ASSUME NEW pg PROVE ReadPtr(pg)' = ReadPtr(pg) /\ WritePtr(pg)' = WritePtr(pg)
        <5>1. ElwroFound(pg)' = ElwroFound(pg)
          BY <4>1 DEF ElwroFound, ElwroPlaces
        <5>2. MegaAnswers(pg)' = MegaAnswers(pg) /\ MegaReads(pg)' = MegaReads(pg) /\ MegaWrites(pg)' = MegaWrites(pg)
          BY <4>1 DEF MegaAnswers, MegaReads, MegaWrites, PromShown
        <5> QED
          BY <4>1, <5>1, <5>2 DEF ReadPtr, WritePtr, Elwro
      <4> QED
        BY <4>1, <4>2 DEF IInv, MapsFollowModules
    <3> QED
      BY <3>1, <3>2 DEF IInv
  <2> QED
    BY <2>1, InitStep, ShutdownStep, MegaStep, ElwroStep, ResetStep DEF MemoryNext
<1> QED
  BY <1>1, InitInv, PTL DEF MemorySpec

-----------------------------------------------------------------------------
(* What memory guarantees. *)

\* Whatever memory the machine is started with, and whatever a program tells its
\* modules, the maps are what the modules say, nothing reaches the PROM or what
\* missing modules read as, the pages of the operating system stay where they
\* are hardwired, and a transfer in bulk, from any address and of any length, is that of as many
\* single words (mem_update_map(), mem_elwro_cmd(), mem_mega_cmd(), mem_read_n(), mem_write_n()).
THEOREM MemoryAlwaysSound == MemorySpec => []MemorySound
BY Invariant, InvSound, PTL

\* A CLEAR always makes the PROM readable where the machine starts, and MCL never
\* takes a page of MEGA away (mem_mega_reset()).
THEOREM ResetsAlwaysKept == MemorySpec => ResetsKept
<1> DEFINE Clears == \A long \in BOOLEAN :
             MemReset(long) /\ long /\ config.mega > 0 =>
               \A pg \in Places : reads'[pg][1] # "elwro" =>
                 reads'[pg] = IF pg = <<0, NPages - 1>> THEN Prom ELSE Null
<1> DEFINE Keeps == MemReset(FALSE) => \A pg \in Places :
             reads[pg][1] # "elwro" /\ reads'[pg][1] # "elwro" => reads'[pg] = reads[pg]
<1>0. \A m, f : Elwro(m, f)[1] = "elwro" /\ Elwro(m, f)'[1] = "elwro"
  BY DEF Elwro
<1>1. ASSUME IInv, MemReset(TRUE), config.mega > 0, NEW pg \in Places, reads'[pg][1] # "elwro"
      PROVE  reads'[pg] = IF pg = <<0, NPages - 1>> THEN Prom ELSE Null
  <2>1. reads'[pg] = ReadPtr(pg)' /\ config' = config
        /\ mem_mega_alloc_done' = FALSE /\ mem_mega_prom_hidden' = FALSE
    BY <1>1 DEF MemReset, Remapped, UpdateMap, Cleared
  <2>2. ElwroFound(pg)' = {}
    BY <1>0, <1>1, <2>1 DEF ReadPtr
  <2> QED
    BY <1>1, <2>1, <2>2 DEF ReadPtr, MegaAnswers, MegaReads, PromShown
<1>2. ASSUME IInv, MemReset(FALSE), NEW pg \in Places, reads[pg][1] # "elwro", reads'[pg][1] # "elwro"
      PROVE  reads'[pg] = reads[pg]
  <2>1. /\ reads'[pg] = ReadPtr(pg)' /\ mem_initialized
        /\ UNCHANGED <<config, mem_mega_map>>
        /\ mem_mega_alloc_done' = mem_mega_alloc_done
        /\ mem_mega_prom_hidden' = mem_mega_prom_hidden
    BY <1>2 DEF MemReset, Remapped, UpdateMap, Cleared, IInv, ModulesTyped
  <2>2. reads[pg] = ReadPtr(pg)
    BY <1>2, <2>1 DEF IInv, MapsFollowModules
  <2>3. ElwroFound(pg)' = {} /\ ElwroFound(pg) = {}
    BY <1>0, <1>2, <2>1, <2>2 DEF ReadPtr
  <2> QED
    BY <2>1, <2>2, <2>3 DEF ReadPtr, MegaAnswers, MegaReads, PromShown
<1>3. IInv /\ [MemoryNext]_memVars => [Clears]_memVars /\ [Keeps]_memVars
  BY <1>1, <1>2
<1> QED
  BY <1>3, Invariant, PTL DEF MemorySpec, ResetsKept, ClearShowsProm, MclKeepsMega

-----------------------------------------------------------------------------
(* A word is its number modulo 2 * Half, and that is the only one of them. *)

LEMMA Reduced ==
  ASSUME NEW u \in Int, NEW k \in Int, 0 <= u - k * (2 * Half), u - k * (2 * Half) < 2 * Half
  PROVE  u % (2 * Half) = u - k * (2 * Half)
<1> DEFINE m == 2 * Half
           x == u % m
           qt == u \div m
<1>1. m \in Nat \ {0}
  BY HalfAssumption
<1>2. x \in 0..m - 1 /\ qt \in Int /\ u = m * qt + x
  BY <1>1, Z3
<1> HIDE DEF m, x, qt
<1>3. m * (qt - k) = (u - k * m) - x
  BY <1>1, <1>2, Z3
<1>4. qt - k = 0
  BY <1>1, <1>2, <1>3, Z3 DEF m
<1> QED
  BY <1>2, <1>3, <1>4, <1>1, Z3 DEF m, x

-----------------------------------------------------------------------------
(* What the outcome means, from where the unreduced result lies. *)

LEMMA OutcomeMeans ==
  ASSUME NEW ures \in Int, NEW s \in Int, NEW zero \in BOOLEAN, NEW carry \in BOOLEAN, NEW m \in BOOLEAN,
         NEW x \in AluWords, ures % (2 * Half) = x, s % (2 * Half) = x,
         zero <=> s = 0, m <=> s < 0, InRange(s) => s = Signed(x),
         ~InRange(s) => (s < 0 <=> ~Negative(x))
  PROVE  Means(Outcome(ures, zero, carry, m), s)
<1> DEFINE o == Outcome(ures, zero, carry, m)
<1>1. o.sum = x /\ o.Z = zero /\ o.M = m /\ o.V = (Negative(x) # m)
  BY DEF Outcome
<1>2. Negative(x) \in BOOLEAN
  BY HalfAssumption, SMT DEF Negative, AluWords
<1>3. InRange(s) => (Negative(x) <=> s < 0)
  BY HalfAssumption DEF InRange, Signed, Negative, AluWords
<1>4. (Negative(x) # m) <=> ~InRange(s)
  <2>1. InRange(s) \in BOOLEAN /\ (s < 0) \in BOOLEAN
    BY HalfAssumption, SMT DEF InRange
  <2> QED
    BY <1>2, <1>3, <2>1, Zenon
<1> HIDE DEF o
<1>5. Means(o, s)
  BY <1>1, <1>4, Zenon DEF Means
<1> QED
  BY <1>5 DEF o

\* alu_16_add() gives the sum of the signed numbers and the carry, with the flags that
\* belong to it, whatever the operands.
THEOREM SumMeans ==
  ASSUME NEW a \in AluWords, NEW n \in AluWords, NEW carry \in {0, 1}
  PROVE  Means(Add(a, n, carry), Signed(a) + Signed(n) + carry)
<1> DEFINE ures == a + n + carry
           c == ures >= 2 * Half
           s == Signed(a) + Signed(n) + carry
           zero == s = 0
           m == c # DiffBit(a, n)
           x == IF c THEN ures - 2 * Half ELSE ures
<1>1. a \in Int /\ n \in Int /\ carry \in Int /\ Half \in Int /\ Half > 0 /\ s \in Int /\ ures \in Int
  BY HalfAssumption DEF AluWords, Signed, Negative
<1>2. x \in AluWords
  BY HalfAssumption DEF AluWords
<1>3. ures % (2 * Half) = x
  <2>1. CASE c
    <3>1. ures - 1 * (2 * Half) = x
      BY <1>1, <2>1
    <3> QED
      BY <3>1, <1>1, <1>2, Reduced DEF AluWords
  <2>2. CASE ~c
    <3>1. ures - 0 * (2 * Half) = x
      BY <1>1, <2>2
    <3> QED
      BY <3>1, <1>1, <1>2, Reduced DEF AluWords
  <2> QED
    BY <2>1, <2>2
<1>4. \E k \in Int : s - k * (2 * Half) = x
  <2>1. \E k \in {-1, 0, 1, 2} : s - k * (2 * Half) = x
    BY <1>1 DEF Signed, Negative, AluWords
  <2> QED
    BY <2>1
<1>5. s % (2 * Half) = x
  <2>1. PICK k \in Int : s - k * (2 * Half) = x
    BY <1>4
  <2> HIDE DEF s, x
  <2> QED
    BY <2>1, <1>1, <1>2, Reduced DEF AluWords
<1>6. c \in BOOLEAN /\ zero \in BOOLEAN /\ m \in BOOLEAN
  BY <1>1, SMT DEF DiffBit, Negative, AluWords
<1>7. m <=> s < 0
  BY <1>1, SMT DEF DiffBit, Negative, Signed, AluWords
<1>8. (InRange(s) => s = Signed(x)) /\ (~InRange(s) => (s < 0 <=> ~Negative(x)))
  BY <1>1, SMT DEF InRange, Negative, Signed, AluWords
<1>9. Add(a, n, carry) = Outcome(ures, zero, c, m)
  BY DEF Add
<1>10. zero <=> s = 0
  OBVIOUS
<1>11. Means(Outcome(ures, zero, c, m), s)
  <2> HIDE DEF ures, c, s, zero, m, x
  <2> QED
    BY <1>1, <1>2, <1>3, <1>5, <1>6, <1>7, <1>8, <1>10, OutcomeMeans
<1> QED
  BY <1>9, <1>11, Zenon

\* alu_16_sub() gives the difference of the signed numbers, its borrow taken from the
\* complement of the second operand (and none for 0), with the flags that belong to it.
THEOREM DifferenceMeans ==
  ASSUME NEW a \in AluWords, NEW n \in AluWords
  PROVE  Means(Sub(a, n), Signed(a) - Signed(n))
<1> DEFINE w == (0 - n) % (2 * Half)
           ures == a + w
           c == BorrowOf(ures, n)
           s == Signed(a) - Signed(n)
           zero == s = 0
           m == c = DiffBit(a, n)
           x == IF a >= n THEN a - n ELSE a - n + 2 * Half
<1>1. a \in Int /\ n \in Int /\ Half \in Int /\ Half > 0 /\ s \in Int
  BY HalfAssumption DEF AluWords, Signed, Negative
<1>2. x \in AluWords
  BY HalfAssumption DEF AluWords
<1>3. w = IF n = 0 THEN 0 ELSE 2 * Half - n
  <2>1. \E k \in {-1, 0} : (0 - n) - k * (2 * Half) = IF n = 0 THEN 0 ELSE 2 * Half - n
    BY <1>1 DEF AluWords
  <2>2. PICK k \in Int : (0 - n) - k * (2 * Half) = IF n = 0 THEN 0 ELSE 2 * Half - n
    BY <2>1
  <2> DEFINE u == 0 - n
             y == IF n = 0 THEN 0 ELSE 2 * Half - n
  <2>3. u \in Int /\ 0 <= y /\ y < 2 * Half /\ u - k * (2 * Half) = y
    BY <1>1, <2>2 DEF AluWords
  <2>4. u % (2 * Half) = y
    <3> HIDE DEF u, y
    <3> QED
      BY <2>3, Reduced
  <2> QED
    BY <2>4
<1>4. ures \in Int /\ (c <=> a >= n)
  <2> HIDE DEF w
  <2> QED
    BY <1>1, <1>3 DEF BorrowOf, AluWords
<1>5. \E k \in Int : ures - k * (2 * Half) = x
  <2>1. \E k \in {0, 1} : ures - k * (2 * Half) = x
    <3> HIDE DEF w
    <3> QED
      BY <1>1, <1>3 DEF AluWords
  <2> QED
    BY <2>1
<1>6. \E k \in Int : s - k * (2 * Half) = x
  <2>1. \E k \in {-1, 0, 1, 2} : s - k * (2 * Half) = x
    BY <1>1 DEF Signed, Negative, AluWords
  <2> QED
    BY <2>1
<1>7. ures % (2 * Half) = x /\ s % (2 * Half) = x
  <2>1. PICK k \in Int : s - k * (2 * Half) = x
    BY <1>6
  <2>2. PICK j \in Int : ures - j * (2 * Half) = x
    BY <1>5
  <2> HIDE DEF s, x, ures
  <2> QED
    BY <2>1, <2>2, <1>1, <1>2, <1>4, Reduced DEF AluWords
<1>8. c \in BOOLEAN /\ zero \in BOOLEAN /\ m \in BOOLEAN
  <2> HIDE DEF w
  <2> QED
    BY <1>1, SMT DEF BorrowOf, DiffBit, Negative, AluWords
<1>9. m <=> s < 0
  <2> HIDE DEF c
  <2> QED
    BY <1>1, <1>4, <1>8, SMT DEF DiffBit, Negative, Signed, AluWords
<1>10. (InRange(s) => s = Signed(x)) /\ (~InRange(s) => (s < 0 <=> ~Negative(x)))
  BY <1>1, SMT DEF InRange, Negative, Signed, AluWords
<1>11. Sub(a, n) = Outcome(ures, zero, c, m)
  BY DEF Sub
<1>12. zero <=> s = 0
  OBVIOUS
<1>13. Means(Outcome(ures, zero, c, m), s)
  <2> HIDE DEF ures, c, s, zero, m, x
  <2> QED
    BY <1>1, <1>2, <1>4, <1>7, <1>8, <1>9, <1>10, <1>12, OutcomeMeans
<1> QED
  BY <1>11, <1>13, Zenon

-----------------------------------------------------------------------------
(* Words as sets of bits and as numbers.                                   *)

LEMMA Weights ==
  /\ Weight[1] = 32768 /\ Weight[2] = 16384 /\ Weight[3] = 8192 /\ Weight[4] = 4096
  /\ Weight[5] = 2048 /\ Weight[6] = 1024 /\ Weight[7] = 512 /\ Weight[8] = 256
  /\ Weight[9] = 128 /\ Weight[10] = 64 /\ Weight[11] = 32 /\ Weight[12] = 16
  /\ Weight[13] = 8 /\ Weight[14] = 4 /\ Weight[15] = 2 /\ Weight[16] = 1
BY DEF Weight

LEMMA WeightsOf ==
  /\ Weight[0 + 1] = 32768 /\ Weight[1 + 1] = 16384 /\ Weight[2 + 1] = 8192 /\ Weight[3 + 1] = 4096
  /\ Weight[4 + 1] = 2048 /\ Weight[5 + 1] = 1024 /\ Weight[6 + 1] = 512 /\ Weight[7 + 1] = 256
  /\ Weight[8 + 1] = 128 /\ Weight[9 + 1] = 64 /\ Weight[10 + 1] = 32 /\ Weight[11 + 1] = 16
  /\ Weight[12 + 1] = 8 /\ Weight[13 + 1] = 4 /\ Weight[14 + 1] = 2 /\ Weight[15 + 1] = 1
BY Weights

LEMMA AllBits ==
  /\ 0 \in Bits /\ 1 \in Bits /\ 2 \in Bits /\ 3 \in Bits /\ 4 \in Bits /\ 5 \in Bits /\ 6 \in Bits /\ 7 \in Bits
  /\ 8 \in Bits /\ 9 \in Bits /\ 10 \in Bits /\ 11 \in Bits /\ 12 \in Bits /\ 13 \in Bits /\ 14 \in Bits /\ 15 \in Bits
BY DEF Bits

LEMMA BitsOf ==
  ASSUME NEW x
  PROVE  /\ BitOf(x, 0) = (IF 0 \in x THEN 32768 ELSE 0) /\ BitOf(x, 1) = (IF 1 \in x THEN 16384 ELSE 0)
         /\ BitOf(x, 2) = (IF 2 \in x THEN 8192 ELSE 0) /\ BitOf(x, 3) = (IF 3 \in x THEN 4096 ELSE 0)
         /\ BitOf(x, 4) = (IF 4 \in x THEN 2048 ELSE 0) /\ BitOf(x, 5) = (IF 5 \in x THEN 1024 ELSE 0)
         /\ BitOf(x, 6) = (IF 6 \in x THEN 512 ELSE 0) /\ BitOf(x, 7) = (IF 7 \in x THEN 256 ELSE 0)
         /\ BitOf(x, 8) = (IF 8 \in x THEN 128 ELSE 0) /\ BitOf(x, 9) = (IF 9 \in x THEN 64 ELSE 0)
         /\ BitOf(x, 10) = (IF 10 \in x THEN 32 ELSE 0) /\ BitOf(x, 11) = (IF 11 \in x THEN 16 ELSE 0)
         /\ BitOf(x, 12) = (IF 12 \in x THEN 8 ELSE 0) /\ BitOf(x, 13) = (IF 13 \in x THEN 4 ELSE 0)
         /\ BitOf(x, 14) = (IF 14 \in x THEN 2 ELSE 0) /\ BitOf(x, 15) = (IF 15 \in x THEN 1 ELSE 0)
BY WeightsOf DEF BitOf

UpTo(n, max) == n \in Nat /\ n <= max

LEMMA NumBounds ==
  ASSUME NEW x
  PROVE  Num(x) \in Nat /\ Num(x) <= 65535
<1>0. \A i \in Bits : UpTo(BitOf(x, i), Weight[i + 1])
  BY Weights DEF BitOf, Bits, UpTo
<1>1. /\ UpTo(BitOf(x, 0), 32768) /\ UpTo(BitOf(x, 1), 16384) /\ UpTo(BitOf(x, 2), 8192) /\ UpTo(BitOf(x, 3), 4096)
      /\ UpTo(BitOf(x, 4), 2048) /\ UpTo(BitOf(x, 5), 1024) /\ UpTo(BitOf(x, 6), 512) /\ UpTo(BitOf(x, 7), 256)
      /\ UpTo(BitOf(x, 8), 128) /\ UpTo(BitOf(x, 9), 64) /\ UpTo(BitOf(x, 10), 32) /\ UpTo(BitOf(x, 11), 16)
      /\ UpTo(BitOf(x, 12), 8) /\ UpTo(BitOf(x, 13), 4) /\ UpTo(BitOf(x, 14), 2) /\ UpTo(BitOf(x, 15), 1)
  BY <1>0, AllBits, WeightsOf
<1> DEFINE a == BitOf(x, 0) + BitOf(x, 1) + BitOf(x, 2) + BitOf(x, 3)
           b == BitOf(x, 4) + BitOf(x, 5) + BitOf(x, 6) + BitOf(x, 7)
           c == BitOf(x, 8) + BitOf(x, 9) + BitOf(x, 10) + BitOf(x, 11)
           d == BitOf(x, 12) + BitOf(x, 13) + BitOf(x, 14) + BitOf(x, 15)
<1>2. UpTo(a, 61440)
  BY <1>1 DEF UpTo
<1>3. UpTo(b, 3840)
  BY <1>1 DEF UpTo
<1>4. UpTo(c, 240)
  BY <1>1 DEF UpTo
<1>5. UpTo(d, 15)
  BY <1>1 DEF UpTo
<1>6. Num(x) = a + b + c + d
  BY <1>1 DEF Num, UpTo
<1> HIDE DEF a, b, c, d
<1> QED
  BY <1>2, <1>3, <1>4, <1>5, <1>6 DEF UpTo

LEMMA NumComplement ==
  ASSUME NEW x
  PROVE  Num(Not(x)) = 65535 - Num(x)
<1>1. \A i \in Bits : i \in Not(x) <=> i \notin x
  BY DEF Not
<1>2. \A i \in Bits : BitOf(Not(x), i) = Weight[i + 1] - BitOf(x, i) 
  <2>1. \A i \in Bits : Weight[i + 1] \in Nat
    BY Weights DEF Bits
  <2> QED
    BY <1>1, <2>1 DEF BitOf
<1>3. /\ 0 \in Bits /\ 1 \in Bits /\ 2 \in Bits /\ 3 \in Bits /\ 4 \in Bits /\ 5 \in Bits /\ 6 \in Bits /\ 7 \in Bits
      /\ 8 \in Bits /\ 9 \in Bits /\ 10 \in Bits /\ 11 \in Bits /\ 12 \in Bits /\ 13 \in Bits /\ 14 \in Bits /\ 15 \in Bits
  BY DEF Bits
<1>4. /\ BitOf(Not(x), 0) = 32768 - BitOf(x, 0) /\ BitOf(Not(x), 1) = 16384 - BitOf(x, 1)
      /\ BitOf(Not(x), 2) = 8192 - BitOf(x, 2) /\ BitOf(Not(x), 3) = 4096 - BitOf(x, 3)
      /\ BitOf(Not(x), 4) = 2048 - BitOf(x, 4) /\ BitOf(Not(x), 5) = 1024 - BitOf(x, 5)
      /\ BitOf(Not(x), 6) = 512 - BitOf(x, 6) /\ BitOf(Not(x), 7) = 256 - BitOf(x, 7)
      /\ BitOf(Not(x), 8) = 128 - BitOf(x, 8) /\ BitOf(Not(x), 9) = 64 - BitOf(x, 9)
      /\ BitOf(Not(x), 10) = 32 - BitOf(x, 10) /\ BitOf(Not(x), 11) = 16 - BitOf(x, 11)
      /\ BitOf(Not(x), 12) = 8 - BitOf(x, 12) /\ BitOf(Not(x), 13) = 4 - BitOf(x, 13)
      /\ BitOf(Not(x), 14) = 2 - BitOf(x, 14) /\ BitOf(Not(x), 15) = 1 - BitOf(x, 15)
  BY <1>2, <1>3, WeightsOf
<1>5. \A i \in Bits : BitOf(x, i) \in Int
  BY Weights DEF BitOf, Bits
<1> QED
  BY <1>3, <1>4, <1>5 DEF Num

LEMMA Halves ==
  ASSUME NEW a \in Nat
  PROVE  a = 2 * (a \div 2) + (a % 2) /\ a % 2 \in {0, 1} /\ a \div 2 \in Nat
<1>1. a \div 2 \in Nat /\ a % 2 \in 0..1
  OBVIOUS
<1>2. a = 2 * (a \div 2) + (a % 2)
  OBVIOUS
<1> QED
  BY <1>1, <1>2

Powers == {1, 2, 4, 8, 16, 32, 64, 128, 256, 512, 1024, 2048, 4096, 8192, 16384, 32768}

LEMMA AllPowers ==
  /\ 1 \in Powers /\ 2 \in Powers /\ 4 \in Powers /\ 8 \in Powers /\ 16 \in Powers /\ 32 \in Powers
  /\ 64 \in Powers /\ 128 \in Powers /\ 256 \in Powers /\ 512 \in Powers /\ 1024 \in Powers /\ 2048 \in Powers
  /\ 4096 \in Powers /\ 8192 \in Powers /\ 16384 \in Powers /\ 32768 \in Powers
BY DEF Powers

\* one bit of a number
LEMMA OneBit ==
  ASSUME NEW n \in Nat, NEW w \in Powers
  PROVE  n \div w = 2 * (n \div (2 * w)) + ((n \div w) % 2) /\ (n \div w) % 2 \in {0, 1} /\ n \div w \in Nat
<1>1. n \div w \in Nat
  BY DEF Powers
<1>2. n \div (2 * w) = (n \div w) \div 2
  BY DEF Powers
<1> QED
  BY <1>1, <1>2, Halves

\* A word of a number below 2^16 is that number.
LEMMA FourBits ==
  ASSUME NEW h0 \in Int, NEW h1 \in Int, NEW h2 \in Int, NEW h3 \in Int, NEW h4 \in Int,
         NEW b0 \in Int, NEW b1 \in Int, NEW b2 \in Int, NEW b3 \in Int,
         h0 = 2 * h1 + b0, h1 = 2 * h2 + b1, h2 = 2 * h3 + b2, h3 = 2 * h4 + b3
  PROVE  h0 = 16 * h4 + (8 * b3 + 4 * b2 + 2 * b1 + b0) /\ 8 * b3 + 4 * b2 + 2 * b1 + b0 \in Int
OBVIOUS

LEMMA NumOfWord ==
  ASSUME NEW n \in Nat, n <= 65535
  PROVE  Num(Word(n)) = n
<1> DEFINE x == Word(n)
           h(w) == n \div w
           b(w) == (n \div w) % 2
           s(w) == 8 * b(8 * w) + 4 * b(4 * w) + 2 * b(2 * w) + b(w)
<1>1. \A i \in Bits : i \in x <=> b(Weight[i + 1]) = 1
  BY DEF Word
<1>2. \A w \in Powers :
        h(w) = 2 * h(2 * w) + b(w) /\ b(w) \in {0, 1} /\ h(w) \in Int
  BY OneBit
<1>3. h(1) = n /\ h(65536) = 0
  OBVIOUS
<1> HIDE DEF x, h, b
<1>4. \A i \in Bits : BitOf(x, i) = Weight[i + 1] * b(Weight[i + 1])
  <2> SUFFICES ASSUME NEW i \in Bits PROVE BitOf(x, i) = Weight[i + 1] * b(Weight[i + 1])
    OBVIOUS
  <2>1. Weight[i + 1] \in Powers
    BY Weights DEF Bits, Powers
  <2>2. b(Weight[i + 1]) \in {0, 1} /\ Weight[i + 1] \in Int
    <3>1. Weight[i + 1] \in Int
      BY <2>1 DEF Powers
    <3> QED
      BY <1>2, <2>1, <3>1
  <2> QED
    BY <1>1, <2>2 DEF BitOf
<1>5. h(1) = 16 * h(16) + s(1) /\ s(1) \in Int
  <2>1. /\ h(1) = 2 * h(2) + b(1) /\ h(2) = 2 * h(4) + b(2)
        /\ h(4) = 2 * h(8) + b(4) /\ h(8) = 2 * h(16) + b(8)
    BY <1>2, AllPowers
  <2>2. /\ h(1) \in Int /\ h(2) \in Int /\ h(4) \in Int /\ h(8) \in Int /\ h(16) \in Int
        /\ b(1) \in Int /\ b(2) \in Int /\ b(4) \in Int /\ b(8) \in Int
    BY <1>2, <1>3, AllPowers
  <2>3. s(1) = 8 * b(8) + 4 * b(4) + 2 * b(2) + b(1)
    OBVIOUS
  <2> HIDE DEF s
  <2> QED
    BY <2>1, <2>2, <2>3, FourBits
<1>6. h(16) = 16 * h(256) + s(16) /\ s(16) \in Int
  <2>1. /\ h(16) = 2 * h(32) + b(16) /\ h(32) = 2 * h(64) + b(32)
        /\ h(64) = 2 * h(128) + b(64) /\ h(128) = 2 * h(256) + b(128)
    BY <1>2, AllPowers
  <2>2. /\ h(16) \in Int /\ h(32) \in Int /\ h(64) \in Int /\ h(128) \in Int /\ h(256) \in Int
        /\ b(16) \in Int /\ b(32) \in Int /\ b(64) \in Int /\ b(128) \in Int
    BY <1>2, <1>3, AllPowers
  <2>3. s(16) = 8 * b(128) + 4 * b(64) + 2 * b(32) + b(16)
    OBVIOUS
  <2> HIDE DEF s
  <2> QED
    BY <2>1, <2>2, <2>3, FourBits
<1>7. h(256) = 16 * h(4096) + s(256) /\ s(256) \in Int
  <2>1. /\ h(256) = 2 * h(512) + b(256) /\ h(512) = 2 * h(1024) + b(512)
        /\ h(1024) = 2 * h(2048) + b(1024) /\ h(2048) = 2 * h(4096) + b(2048)
    BY <1>2, AllPowers
  <2>2. /\ h(256) \in Int /\ h(512) \in Int /\ h(1024) \in Int /\ h(2048) \in Int /\ h(4096) \in Int
        /\ b(256) \in Int /\ b(512) \in Int /\ b(1024) \in Int /\ b(2048) \in Int
    BY <1>2, <1>3, AllPowers
  <2>3. s(256) = 8 * b(2048) + 4 * b(1024) + 2 * b(512) + b(256)
    OBVIOUS
  <2> HIDE DEF s
  <2> QED
    BY <2>1, <2>2, <2>3, FourBits
<1>8. h(4096) = 16 * h(65536) + s(4096) /\ s(4096) \in Int
  <2>1. /\ h(4096) = 2 * h(8192) + b(4096) /\ h(8192) = 2 * h(16384) + b(8192)
        /\ h(16384) = 2 * h(32768) + b(16384) /\ h(32768) = 2 * h(65536) + b(32768)
    BY <1>2, AllPowers
  <2>2. /\ h(4096) \in Int /\ h(8192) \in Int /\ h(16384) \in Int /\ h(32768) \in Int /\ h(65536) \in Int
        /\ b(4096) \in Int /\ b(8192) \in Int /\ b(16384) \in Int /\ b(32768) \in Int
    BY <1>2, <1>3, AllPowers
  <2>3. s(4096) = 8 * b(32768) + 4 * b(16384) + 2 * b(8192) + b(4096)
    OBVIOUS
  <2> HIDE DEF s
  <2> QED
    BY <2>1, <2>2, <2>3, FourBits
<1>9. BitOf(x, 12) + BitOf(x, 13) + BitOf(x, 14) + BitOf(x, 15) = 1 * s(1)
  <2>1. /\ BitOf(x, 12) = 8 * b(8) /\ BitOf(x, 13) = 4 * b(4)
        /\ BitOf(x, 14) = 2 * b(2) /\ BitOf(x, 15) = 1 * b(1)
    BY <1>4, AllBits, WeightsOf
  <2>2. b(1) \in Int /\ b(2) \in Int /\ b(4) \in Int /\ b(8) \in Int
    BY <1>2, AllPowers
  <2> QED
    BY <2>1, <2>2
<1>10. BitOf(x, 8) + BitOf(x, 9) + BitOf(x, 10) + BitOf(x, 11) = 16 * s(16)
  <2>1. /\ BitOf(x, 8) = 128 * b(128) /\ BitOf(x, 9) = 64 * b(64)
        /\ BitOf(x, 10) = 32 * b(32) /\ BitOf(x, 11) = 16 * b(16)
    BY <1>4, AllBits, WeightsOf
  <2>2. b(16) \in Int /\ b(32) \in Int /\ b(64) \in Int /\ b(128) \in Int
    BY <1>2, AllPowers
  <2> QED
    BY <2>1, <2>2
<1>11. BitOf(x, 4) + BitOf(x, 5) + BitOf(x, 6) + BitOf(x, 7) = 256 * s(256)
  <2>1. /\ BitOf(x, 4) = 2048 * b(2048) /\ BitOf(x, 5) = 1024 * b(1024)
        /\ BitOf(x, 6) = 512 * b(512) /\ BitOf(x, 7) = 256 * b(256)
    BY <1>4, AllBits, WeightsOf
  <2>2. b(256) \in Int /\ b(512) \in Int /\ b(1024) \in Int /\ b(2048) \in Int
    BY <1>2, AllPowers
  <2> QED
    BY <2>1, <2>2
<1>12. BitOf(x, 0) + BitOf(x, 1) + BitOf(x, 2) + BitOf(x, 3) = 4096 * s(4096)
  <2>1. /\ BitOf(x, 0) = 32768 * b(32768) /\ BitOf(x, 1) = 16384 * b(16384)
        /\ BitOf(x, 2) = 8192 * b(8192) /\ BitOf(x, 3) = 4096 * b(4096)
    BY <1>4, AllBits, WeightsOf
  <2>2. b(4096) \in Int /\ b(8192) \in Int /\ b(16384) \in Int /\ b(32768) \in Int
    BY <1>2, AllPowers
  <2> QED
    BY <2>1, <2>2
<1>13. \A i \in Bits : BitOf(x, i) \in Int
  BY Weights DEF BitOf, Bits
<1>14. Num(x) = (BitOf(x, 0) + BitOf(x, 1) + BitOf(x, 2) + BitOf(x, 3)) + (BitOf(x, 4) + BitOf(x, 5) + BitOf(x, 6) + BitOf(x, 7))
              + (BitOf(x, 8) + BitOf(x, 9) + BitOf(x, 10) + BitOf(x, 11)) + (BitOf(x, 12) + BitOf(x, 13) + BitOf(x, 14) + BitOf(x, 15))
  BY <1>13, AllBits DEF Num
<1> HIDE DEF s
<1>15. Num(x) = 4096 * s(4096) + 256 * s(256) + 16 * s(16) + 1 * s(1)
  BY <1>9, <1>10, <1>11, <1>12, <1>14
<1>16. n = 4096 * s(4096) + 256 * s(256) + 16 * s(16) + s(1)
  BY <1>3, <1>5, <1>6, <1>7, <1>8, <1>2
<1> QED
  BY <1>15, <1>16, <1>5 DEF x

-----------------------------------------------------------------------------
(* Sums and differences.                                                   *)

\* the register field is a register's number
LEMMA RegisterField == A \in 0..7
<1> DEFINE x == ir \cap 7..9
<1>1. \A i \in Bits : i \notin 7..9 => BitOf(x, i) = 0
  BY DEF BitOf
<1>2. /\ BitOf(x, 0) = 0 /\ BitOf(x, 1) = 0 /\ BitOf(x, 2) = 0 /\ BitOf(x, 3) = 0 /\ BitOf(x, 4) = 0
      /\ BitOf(x, 5) = 0 /\ BitOf(x, 6) = 0 /\ BitOf(x, 10) = 0 /\ BitOf(x, 11) = 0 /\ BitOf(x, 12) = 0
      /\ BitOf(x, 13) = 0 /\ BitOf(x, 14) = 0 /\ BitOf(x, 15) = 0
  <2>1. \A i \in {0, 1, 2, 3, 4, 5, 6, 10, 11, 12, 13, 14, 15} : i \notin 7..9
    OBVIOUS
  <2> HIDE DEF x
  <2> QED
    BY <1>1, <2>1, AllBits
<1>3. BitOf(x, 7) \in {0, 256} /\ BitOf(x, 8) \in {0, 128} /\ BitOf(x, 9) \in {0, 64}
  BY BitsOf
<1> HIDE DEF x
<1>4. Num(x) \in {0, 64, 128, 192, 256, 320, 384, 448}
  <2>1. Num(x) = BitOf(x, 7) + BitOf(x, 8) + BitOf(x, 9)
    BY <1>2, <1>3 DEF Num
  <2> QED
    BY <2>1, <1>3
<1> QED
  BY <1>4 DEF A, x

\* Bits of a number and of its sum.
LEMMA SumIsTrue ==
  ASSUME op \in {"aw", "awt", "ac", "sw", "nga", "ngc"}
  PROVE  Means(Sum, True)
<1> DEFINE x == Num(r[A])  y == Num(ac)
<1>1. x \in AluWords /\ y \in AluWords /\ 0 \in AluWords /\ 65535 - x \in AluWords
  <2>1. x \in Nat /\ x <= 65535 /\ y \in Nat /\ y <= 65535
    BY NumBounds
  <2>2. Half \in Nat /\ 65535 <= 2 * Half - 1
    BY InstrAssumption
  <2> HIDE DEF x, y
  <2> QED
    BY <2>1, <2>2 DEF AluWords
<1>2. Carry \in {0, 1} /\ 0 \in {0, 1}
  BY DEF Carry
<1>3. Num(Not(r[A])) = 65535 - x
  BY NumComplement
<1>4. Signed(0) = 0 /\ Signed(65535 - x) = 0 - Signed(x) - 1 /\ Signed(x) \in Int /\ Signed(y) \in Int
  <2>1. x \in Nat /\ x <= 65535 /\ y \in Nat /\ y <= 65535
    BY NumBounds
  <2> HIDE DEF x, y
  <2> QED
    BY <2>1, InstrAssumption DEF Signed, Negative
<1> HIDE DEF x, y
<1>5. CASE op \in {"aw", "awt"}
  <2>1. Sum = Add(x, y, 0) /\ True = Signed(x) + Signed(y)
    BY <1>5 DEF Sum, True, Value, x, y
  <2>2. Means(Add(x, y, 0), Signed(x) + Signed(y) + 0)
    BY <1>1, <1>2, SumMeans
  <2> QED
    BY <1>4, <2>1, <2>2
<1>6. CASE op = "ac"
  <2>1. Sum = Add(x, y, Carry) /\ True = Signed(x) + Signed(y) + Carry
    BY <1>6 DEF Sum, True, Value, x, y
  <2> QED
    BY <1>1, <1>2, <2>1, SumMeans
<1>7. CASE op = "sw"
  <2>1. Sum = Sub(x, y) /\ True = Signed(x) - Signed(y)
    BY <1>7 DEF Sum, True, Value, x, y
  <2> QED
    BY <1>1, <2>1, DifferenceMeans
<1>8. CASE op = "nga"
  <2>1. Sum = Sub(0, x) /\ True = 0 - Signed(x)
    BY <1>8 DEF Sum, True, Value, x
  <2> QED
    BY <1>1, <1>4, <2>1, DifferenceMeans
<1>9. CASE op = "ngc"
  <2>1. Sum = Add(65535 - x, 0, Carry) /\ True = 0 - Signed(x) - 1 + Carry
    BY <1>3, <1>9 DEF Sum, True, Value, x
  <2>2. Means(Add(65535 - x, 0, Carry), Signed(65535 - x) + Signed(0) + Carry)
    BY <1>1, <1>2, SumMeans
  <2>3. Signed(65535 - x) + Signed(0) + Carry = 0 - Signed(x) - 1 + Carry
    BY <1>2, <1>4
  <2> QED
    BY <2>1, <2>2, <2>3
<1> QED
  BY <1>5, <1>6, <1>7, <1>8, <1>9

LEMMA TrueIsNumber ==
  ASSUME op \in {"aw", "awt", "ac", "sw", "nga", "ngc"}
  PROVE  True \in Int
<1>1. Carry \in Int
  BY DEF Carry
<1>2. \A x : Signed(Num(x)) \in Int
  <2> SUFFICES ASSUME NEW x PROVE Signed(Num(x)) \in Int
    OBVIOUS
  <2>1. Num(x) \in Int
    BY NumBounds
  <2> QED
    BY <2>1, HalfAssumption DEF Signed
<1>3. \A k : Value(k) \in Int
  BY <1>2 DEF Value
<1> QED
  BY <1>1, <1>2, <1>3 DEF True

\* an instruction that adds or subtracts is executed by its own action alone
LEMMA SumsAndBytes ==
  ASSUME InstrNext, Does({"aw", "awt", "ac", "sw", "nga", "ngc", "rb"})
  PROVE  Arithmetic \/ StoreByte
<1> DEFINE sums == {"aw", "awt", "ac", "sw", "nga", "ngc", "rb"}
<1>1. phase = "exec" /\ op \in sums
  BY DEF Does
<1>2. ~PassBy /\ ~Argument
  BY <1>1 DEF PassBy, Argument, Fetch
<1>3. \A ops : ops \cap sums = {} => ~Exec(ops)
  BY <1>1 DEF Exec
<1> HIDE DEF sums
<1>4. ~LoadReg
  BY <1>1 DEF LoadReg, Exec, sums
<1>5. ~LoadMem
  BY <1>1 DEF LoadMem, Exec, sums
<1>6. ~Ls
  BY <1>1 DEF Ls, Exec, sums
<1>7. ~StoreReg
  BY <1>1 DEF StoreReg, Exec, sums
<1>8. ~Rws
  BY <1>1 DEF Rws, Exec, sums
<1>9. ~Rj
  BY <1>1 DEF Rj, Exec, sums
<1>10. ~Is
  BY <1>1 DEF Is, Exec, sums
<1>11. ~TestBits
  BY <1>1 DEF TestBits, Exec, sums
<1>12. ~Bm
  BY <1>1 DEF Bm, Exec, sums
<1>13. ~Io
  BY <1>1 DEF Io, Exec, sums
<1>14. ~Compare
  BY <1>1 DEF Compare, Exec, sums
<1>15. ~Logic
  BY <1>1 DEF Logic, Exec, sums
<1>16. ~LogicMem
  BY <1>1 DEF LogicMem, Exec, sums
<1>17. ~Ngl
  BY <1>1 DEF Ngl, Exec, sums
<1>18. ~LoadByte
  BY <1>1 DEF LoadByte, Exec, sums
<1>20. ~Trb
  BY <1>1 DEF Trb, Exec, sums
<1>21. ~Loop
  BY <1>1 DEF Loop, Exec, sums
<1>22. ~Jump
  <2>1. DOMAIN JumpFlag = {"jls", "jes", "jgs", "jvs", "jxs", "jys", "jcs", "jl", "je", "jg", "jz", "jm"}
    BY DEF JumpFlag
  <2> QED
    BY <1>1, <2>1 DEF Jump, Exec, sums
<1>23. ~Lj
  BY <1>1 DEF Lj, Exec, sums
<1>24. ~Bytes
  BY <1>1 DEF Bytes, Exec, sums
<1>25. ~SetX
  BY <1>1 DEF SetX, Exec, sums
<1>26. ~ShiftLeft
  BY <1>1 DEF ShiftLeft, Exec, sums
<1>27. ~ShiftRight
  BY <1>1 DEF ShiftRight, Exec, sums
<1>28. ~Shc
  BY <1>1 DEF Shc, Exec, sums
<1>29. ~Lpc
  BY <1>1 DEF Lpc, Exec, sums
<1>30. ~SoftInt
  BY <1>1 DEF SoftInt, Exec, sums
<1>31. ~LoadWords
  BY <1>1 DEF LoadWords, Exec, sums
<1>32. ~StoreWords
  BY <1>1 DEF StoreWords, Exec, sums
<1>33. ~Mb
  BY <1>1 DEF Mb, Exec, sums
<1>34. ~Ib
  BY <1>1 DEF Ib, Exec, sums
<1>35. ~Md
  BY <1>1 DEF Md, Exec, sums
<1>36. ~Awp
  BY <1>1 DEF Awp, Exec, sums
<1>37. ~Elsewhere
  BY <1>1 DEF Elsewhere, Exec, sums
<1> QED
  BY <1>2, <1>4, <1>5, <1>6, <1>7, <1>8, <1>9, <1>10, <1>11, <1>12, <1>13, <1>14, <1>15, <1>16, <1>17, <1>18, <1>20, <1>21, <1>22, <1>23, <1>24, <1>25, <1>26, <1>27, <1>28, <1>29, <1>30, <1>31, <1>32, <1>33, <1>34, <1>35, <1>36, <1>37, Zenon DEF InstrNext

LEMMA OnlyArithmetic ==
  ASSUME InstrNext, Does({"aw", "awt", "ac", "sw", "nga", "ngc"})
  PROVE  Arithmetic
<1>1. Does({"aw", "awt", "ac", "sw", "nga", "ngc", "rb"}) /\ ~StoreByte
  BY DEF Does, StoreByte, Exec
<1> QED
  BY <1>1, SumsAndBytes

LEMMA OnlyStoreByte ==
  ASSUME InstrNext, Does({"rb"})
  PROVE  StoreByte
<1>1. Does({"aw", "awt", "ac", "sw", "nga", "ngc", "rb"}) /\ ~Arithmetic
  BY DEF Does, Arithmetic, Exec
<1> QED
  BY <1>1, SumsAndBytes

THEOREM ArithmeticAlwaysTrue == InstrSpec => ArithmeticTrue
<1> DEFINE sums == {"aw", "awt", "ac", "sw", "nga", "ngc"}
           Holds == Does(sums) /\ A # 0 =>
                      /\ Num(r'[A]) = True % 65536
                      /\ FL_Z \in r'[0] <=> True = 0
                      /\ FL_M \in r'[0] <=> True < 0
                      /\ FL_V \in r'[0] <=> FL_V \in r[0] \/ ~InRange(True)
<1>1. InstrNext => Holds
  <2> SUFFICES ASSUME InstrNext, Does(sums), A # 0
               PROVE  /\ Num(r'[A]) = True % 65536
                      /\ FL_Z \in r'[0] <=> True = 0
                      /\ FL_M \in r'[0] <=> True < 0
                      /\ FL_V \in r'[0] <=> FL_V \in r[0] \/ ~InRange(True)
    OBVIOUS
  <2>1. Results(Word(Sum.sum), ArithFlags(Sum))
    BY OnlyArithmetic DEF Arithmetic
  <2>2. r'[A] = Word(Sum.sum) /\ r'[0] = ArithFlags(Sum)
    <3>1. A \in 0..7 /\ 0 \in 0..7
      BY RegisterField
    <3>2. r' = [k \in 0..7 |-> LET old == IF k = 0 THEN ArithFlags(Sum) ELSE r[k]
                               IN IF k = A THEN Restricted(old, Word(Sum.sum)) ELSE old]
      BY <2>1 DEF Results
    <3>3. \A old : Restricted(old, Word(Sum.sum)) = Word(Sum.sum)
      BY DEF Restricted
    <3> QED
      BY <3>1, <3>2, <3>3
  <2>3. Sum.sum = True % 65536 /\ (Sum.Z <=> True = 0) /\ (Sum.M <=> True < 0) /\ (Sum.V <=> ~InRange(True))
    <3>1. Means(Sum, True)
      BY SumIsTrue DEF Does
    <3>2. 2 * Half = 65536
      BY InstrAssumption
    <3> QED
      <4>1. /\ Sum.sum = True % (2 * Half)
            /\ (Sum.Z <=> True = 0) /\ (Sum.M <=> True < 0) /\ (Sum.V <=> ~InRange(True))
        BY <3>1, Zenon DEF Means
      <4>2. Sum.sum = True % 65536
        BY <3>2, <4>1
      <4> QED
        BY <4>1, <4>2
  <2>4. Num(Word(Sum.sum)) = Sum.sum
    <3>1. True \in Int
      BY TrueIsNumber DEF Does
    <3>2. Sum.sum \in Nat /\ Sum.sum <= 65535
      BY <2>3, <3>1
    <3> QED
      BY <3>2, NumOfWord
  <2>5. /\ FL_Z \in ArithFlags(Sum) <=> Sum.Z
        /\ FL_M \in ArithFlags(Sum) <=> Sum.M
        /\ FL_V \in ArithFlags(Sum) <=> FL_V \in r[0] \/ Sum.V
    BY DEF ArithFlags, If, FL_Z, FL_M, FL_V, FL_C
  <2> QED
    BY <2>2, <2>3, <2>4, <2>5
<1>2. [InstrNext]_instrVars => [Holds]_instrVars
  BY <1>1
<1> QED
  BY <1>2, PTL DEF InstrSpec, ArithmeticTrue

-----------------------------------------------------------------------------
(* Words stay words.                                                       *)

Word16 == SUBSET Bits
Registers == [0..7 -> Word16]
Memories == [DOMAIN Memory0 -> Word16]

\* What holds of the registers, the memory and the control of the machine; an
\* MD that is executed is the third at most.
InstrInv ==
  /\ r \in Registers /\ ir \in Word16 /\ ac \in Word16 /\ ar \in Word16 /\ ic \in Word16
  /\ mem \in Memories
  /\ mc \in Nat /\ mc <= 3 /\ (phase = "exec" /\ op = "md" => mc <= 2)
  /\ nb \in 0..15 /\ p \in BOOLEAN /\ q \in BOOLEAN /\ bs \in BOOLEAN /\ zc17 \in BOOLEAN /\ rALARM \in BOOLEAN
  /\ phase \in {"fetch", "exec"} /\ program \in Seq(Word16) /\ at \in Nat /\ at >= 1 /\ at <= Len(program) + 1

LEMMA WordsAreWords ==
  /\ \A n : Word(n) \in Word16
  /\ \A x, y : Plus(x, y) \in Word16
  /\ \A x \in Word16 : Upper(x) \in Word16 /\ Lower(x) \in Word16
  /\ \A x, n : Right(x, n) \in Word16 /\ Left(x, n) \in Word16
  /\ \A x : Not(x) \in Word16
  /\ \A x, y \in Word16 : Xor(x, y) \in Word16
  /\ {} \in Word16
<1>1. \A n : Word(n) \in Word16
  BY DEF Word, Word16
<1>2. \A x, y : Plus(x, y) \in Word16
  BY <1>1 DEF Plus
<1>3. \A x, n : Right(x, n) \in Word16 /\ Left(x, n) \in Word16
  BY DEF Right, Left, Word16
<1>4. \A x : Not(x) \in Word16
  BY DEF Not, Word16
<1> QED
  BY <1>1, <1>2, <1>3, <1>4 DEF Word16, Upper, Lower, Xor

LEMMA FlagBits ==
  /\ FL_Z \in Bits /\ FL_M \in Bits /\ FL_V \in Bits /\ FL_C \in Bits /\ FL_L \in Bits /\ FL_E \in Bits
  /\ FL_G \in Bits /\ FL_Y \in Bits /\ FL_X \in Bits
BY DEF Bits, FL_Z, FL_M, FL_V, FL_C, FL_L, FL_E, FL_G, FL_Y, FL_X

LEMMA ResultsTyped ==
  ASSUME r \in Registers, NEW x \in Word16, NEW flags \in Word16, Results(x, flags)
  PROVE  r' \in Registers
<1>1. A \in 0..7
  BY RegisterField
<1>2. \A old \in Word16 : Restricted(old, x) \in Word16
  BY WordsAreWords DEF Restricted, Word16
<1> QED
  BY <1>1, <1>2 DEF Results, Registers

LEMMA FlagsTyped ==
  ASSUME r \in Registers, NEW flags \in Word16, Flags(flags)
  PROVE  r' \in Registers
BY DEF Flags, Registers

LEMMA MemoryTyped ==
  ASSUME mem \in Memories, NEW barnb, NEW addr
  PROVE  /\ Got(barnb, addr) \subseteq Word16
         /\ \A x \in Word16 : Stored(barnb, addr, x) \in Memories
         /\ Answers(barnb, addr) => mem[Place(barnb, addr)] \in Word16
<1>1. Leftover \subseteq Word16
  BY InstrAssumption DEF Word16
<1> QED
  BY <1>1 DEF Got, Stored, Answers, Memories

LEMMA AccessTyped ==
  ASSUME rALARM \in BOOLEAN, mem \in Memories, NEW barnb \in BOOLEAN, NEW addr
  PROVE  /\ \A addrs : Accessing(barnb, addrs) => rALARM' \in BOOLEAN
         /\ Reading(barnb, addr) => rALARM' \in BOOLEAN /\ mem' \in Memories
         /\ \A x \in Word16 : Writing(barnb, addr, x) => rALARM' \in BOOLEAN /\ mem' \in Memories
<1>1. \A addrs : Accessing(barnb, addrs) => rALARM' \in BOOLEAN
  BY DEF Accessing
<1> QED
  BY <1>1, MemoryTyped DEF Reading, Writing

\* the registers an operation names
LEMMA RegistersAre ==
  ASSUME InstrInv
  PROVE  /\ \A k \in 0..7 : r[k] \in Word16
         /\ r[A] \in Word16 /\ r[0] \in Word16 /\ r[7] \in Word16 /\ r[1] \in Word16
<1>1. A \in 0..7
  BY RegisterField
<1> QED
  BY <1>1 DEF InstrInv, Registers

\* A step of an operation keeps the invariant when what it writes are words.
LEMMA Operation ==
  ASSUME InstrInv, phase' = "fetch", UNCHANGED <<program, at>>,
         r' \in Registers, ir' \in Word16, ac' \in Word16, ar' \in Word16, ic' \in Word16, mem' \in Memories,
         mc' \in Nat, mc' <= 3, nb' \in 0..15, p' \in BOOLEAN, q' \in BOOLEAN, bs' \in BOOLEAN, zc17' \in BOOLEAN,
         rALARM' \in BOOLEAN
  PROVE  InstrInv'
BY DEF InstrInv, Registers, Memories, Word16

LEMMA LoadRegStep == ASSUME InstrInv, LoadReg PROVE InstrInv'
<1>1. PICK kb \in Values : Results(CASE op \in {"lw", "lwt"} -> ac [] op = "ric" -> ic [] op = "rky" -> kb [] op = "rpc" -> r[0], r[0])
  BY DEF LoadReg
<1>2. kb \in Word16 /\ r[0] \in Word16 /\ ac \in Word16 /\ ic \in Word16 /\ op \in {"lw", "lwt", "ric", "rky", "rpc"}
  BY InstrAssumption, RegistersAre DEF LoadReg, Exec, InstrInv, Word16
<1>3. r' \in Registers
  BY <1>1, <1>2, ResultsTyped DEF InstrInv
<1> QED
  BY <1>3, Operation DEF LoadReg, Exec, Computing, script, argument, control, state, outside, InstrInv

LEMMA LoadMemStep == ASSUME InstrInv, LoadMem PROVE InstrInv'
<1> DEFINE addr == IF op = "tw" THEN ar ELSE Plus(ic, ac)
           barnb == op = "tw" \/ q
<1>1. addr \in Word16 /\ barnb \in BOOLEAN
  BY WordsAreWords DEF InstrInv
<1>2. ar' = addr /\ Reading(barnb, addr) /\ \E x \in Got(barnb, addr) : Results(x, r[0])
  BY DEF LoadMem
<1> HIDE DEF addr, barnb
<1>3. r' \in Registers
  BY <1>2, RegistersAre, MemoryTyped, ResultsTyped DEF InstrInv
<1>4. rALARM' \in BOOLEAN /\ mem' \in Memories
  BY <1>1, <1>2, AccessTyped DEF InstrInv
<1> QED
  BY <1>1, <1>2, <1>3, <1>4, Operation DEF LoadMem, Exec, script, control, state, InstrInv

LEMMA LsStep == ASSUME InstrInv, Ls PROVE InstrInv'
<1>1. r[A] \in Word16 /\ r[7] \in Word16 /\ r[0] \in Word16 /\ ac \in Word16
  BY RegistersAre DEF InstrInv
<1>2. (r[7] \cap ac) \cup (r[A] \ r[7]) \in Word16 /\ r[7] \cap ac \in Word16 /\ r[A] \ r[7] \in Word16
  BY <1>1 DEF Word16
<1>3. r' \in Registers
  BY <1>1, <1>2, ResultsTyped DEF Ls, InstrInv
<1> QED
  BY <1>2, <1>3, Operation DEF Ls, Exec, script, control, state, outside, InstrInv

LEMMA StoreRegStep == ASSUME InstrInv, StoreReg PROVE InstrInv'
<1> DEFINE addr == IF op = "ri" THEN r[A] ELSE ar
           barnb == op = "pw" \/ q
           x == CASE op = "rz" -> {} [] op = "ri" -> ac [] OTHER -> r[A]
<1>1. addr \in Word16 /\ barnb \in BOOLEAN /\ x \in Word16 /\ r[0] \in Word16
  BY WordsAreWords, RegistersAre DEF InstrInv
<1>2. ar' = addr /\ Writing(barnb, addr, x)
  BY DEF StoreReg
<1> HIDE DEF addr, barnb, x
<1>3. r' \in Registers
  <2>1. CASE op = "ri"
    BY <1>1, <2>1, WordsAreWords, ResultsTyped DEF StoreReg, InstrInv
  <2>2. CASE op # "ri"
    BY <2>2 DEF StoreReg, InstrInv
  <2> QED
    BY <2>1, <2>2
<1>4. rALARM' \in BOOLEAN /\ mem' \in Memories
  BY <1>1, <1>2, AccessTyped DEF InstrInv
<1> QED
  BY <1>1, <1>2, <1>3, <1>4, Operation DEF StoreReg, Exec, script, control, state, InstrInv

LEMMA RwsStep == ASSUME InstrInv, Rws PROVE InstrInv'
<1>1. rALARM' \in BOOLEAN /\ mem' \in Memories
  BY RegistersAre, AccessTyped DEF Rws, InstrInv
<1> QED
  BY <1>1, WordsAreWords, Operation DEF Rws, Exec, script, control, state, InstrInv

LEMMA RjStep == ASSUME InstrInv, Rj PROVE InstrInv'
<1>1. r' \in Registers
  BY RegistersAre, ResultsTyped DEF Rj, InstrInv
<1> QED
  BY <1>1, Operation DEF Rj, Going, Exec, script, argument, state, outside, InstrInv

LEMMA IsStep == ASSUME InstrInv, Is PROVE InstrInv'
<1>1. PICK x \in Got(TRUE, ar) :
           /\ ac' = x
           /\ Accessing(TRUE, {ar})
           /\ IF r[A] \subseteq x THEN p' = TRUE /\ UNCHANGED mem
              ELSE mem' = Stored(TRUE, ar, r[A] \cup x) /\ UNCHANGED p
  BY DEF Is
<1>2. x \in Word16 /\ r[A] \cup x \in Word16
  BY MemoryTyped, RegistersAre DEF InstrInv, Word16
<1>3. rALARM' \in BOOLEAN /\ mem' \in Memories
  BY <1>1, <1>2, AccessTyped, MemoryTyped DEF InstrInv
<1> QED
  BY <1>1, <1>2, <1>3, Operation DEF Is, Exec, script, state, InstrInv

LEMMA TestBitsStep == ASSUME InstrInv, TestBits PROVE InstrInv'
<1>1. ac' \in Word16
  BY RegistersAre, WordsAreWords DEF TestBits, InstrInv
<1>2. p' \in BOOLEAN
  BY DEF TestBits, Exec
<1> QED
  BY <1>1, <1>2, Operation DEF TestBits, Exec, script, state, outside, InstrInv

LEMMA BmStep == ASSUME InstrInv, Bm PROVE InstrInv'
<1>1. ac' \in Word16 /\ p' \in BOOLEAN
  BY MemoryTyped DEF Bm, InstrInv
<1>2. rALARM' \in BOOLEAN /\ mem' \in Memories
  BY AccessTyped DEF Bm, InstrInv
<1> QED
  BY <1>1, <1>2, Operation DEF Bm, Exec, script, state, InstrInv

LEMMA IoStep == ASSUME InstrInv, Io PROVE InstrInv'
<1>1. PICK link \in Word16 : Reading(q, link) /\ ic' = IF Answers(q, link) THEN mem[Place(q, link)] ELSE link
  BY WordsAreWords DEF Io
<1>2. ic' \in Word16
  BY <1>1, MemoryTyped DEF InstrInv
<1>3. rALARM' \in BOOLEAN /\ mem' \in Memories
  BY <1>1, AccessTyped DEF InstrInv
<1>4. r' \in Registers
  <2>1. Values \subseteq Word16
    BY InstrAssumption DEF Word16
  <2> QED
    BY <2>1 DEF Io, InstrInv, Registers
<1> QED
  BY <1>2, <1>3, <1>4, Operation DEF Io, Exec, script, argument, state, InstrInv

LEMMA ArithmeticStep == ASSUME InstrInv, Arithmetic PROVE InstrInv'
<1>1. ArithFlags(Sum) \in Word16
  BY RegistersAre, FlagBits DEF ArithFlags, If, Word16
<1>2. r' \in Registers /\ ac' \in Word16
  BY <1>1, WordsAreWords, RegistersAre, ResultsTyped DEF Arithmetic, InstrInv
<1> QED
  BY <1>2, Operation DEF Arithmetic, Exec, script, control, state, outside, InstrInv

LEMMA LegTyped == ASSUME InstrInv, NEW m, NEW n PROVE Leg(m, n) \in Word16
BY RegistersAre, FlagBits DEF Leg, Word16

LEMMA ZBoolTyped == ASSUME InstrInv, NEW x PROVE ZBool(x) \in Word16
BY RegistersAre, FlagBits DEF ZBool, If, Word16

LEMMA CompareStep == ASSUME InstrInv, Compare PROVE InstrInv'
<1>1. r' \in Registers
  BY LegTyped, FlagsTyped DEF Compare, InstrInv
<1> QED
  BY <1>1, Operation DEF Compare, Computing, Exec, script, argument, control, state, outside, InstrInv

LEMMA LogicStep == ASSUME InstrInv, Logic PROVE InstrInv'
<1>1. Boolean(r[A], ac) \in Word16
  BY RegistersAre, WordsAreWords DEF Boolean, Logic, Exec, InstrInv, Word16, Xor
<1>2. r' \in Registers
  BY <1>1, ZBoolTyped, ResultsTyped DEF Logic, InstrInv
<1> QED
  BY <1>2, Operation DEF Logic, Computing, Exec, script, argument, control, state, outside, InstrInv

LEMMA LogicMemStep == ASSUME InstrInv, LogicMem PROVE InstrInv'
<1>1. PICK x \in Got(TRUE, ar) : /\ ac' = x
                                 /\ Writing(TRUE, ar, Boolean(r[A], x))
                                 /\ Flags(ZBool(Boolean(r[A], x)))
  BY DEF LogicMem
<1>2. x \in Word16
  BY MemoryTyped DEF InstrInv
<1>3. Boolean(r[A], x) \in Word16
  BY <1>2, RegistersAre, WordsAreWords DEF Boolean, LogicMem, Exec, Word16, Xor
<1>4. r' \in Registers
  BY <1>1, ZBoolTyped, FlagsTyped DEF InstrInv
<1>5. rALARM' \in BOOLEAN /\ mem' \in Memories
  BY <1>1, <1>3, AccessTyped DEF InstrInv
<1> QED
  BY <1>1, <1>2, <1>4, <1>5, Operation DEF LogicMem, Exec, script, control, state, InstrInv

LEMMA NglStep == ASSUME InstrInv, Ngl PROVE InstrInv'
<1>1. r' \in Registers
  <2>1. ZBool(Not(r[A])) \in Word16 /\ Not(r[A]) \in Word16
    BY ZBoolTyped, WordsAreWords
  <2> QED
    BY <2>1 DEF Ngl, InstrInv, Registers
<1> QED
  BY <1>1, Operation DEF Ngl, Computing, Exec, script, argument, control, state, outside, InstrInv

LEMMA ByteAddressTyped == ByteAddress \in Word16
<1>1. 0 \in Bits
  BY DEF Bits
<1> QED
  BY <1>1, WordsAreWords DEF ByteAddress, If, Word16

LEMMA LoadByteStep == ASSUME InstrInv, LoadByte PROVE InstrInv'
<1>1. PICK x \in Got(TRUE, ByteAddress) :
       /\ ac' = IF op = "lb" /\ ~Even THEN x ELSE ByteOf(x)
       /\ IF op = "lb" THEN Results(Upper(r[A]) \cup ByteOf(x), r[0])
          ELSE Flags(Leg(Num(Lower(r[A])), Num(ByteOf(x))))
  BY DEF LoadByte
<1>2. x \in Word16
  BY MemoryTyped DEF InstrInv
<1>3. ByteOf(x) \in Word16
  BY <1>2, WordsAreWords DEF ByteOf
<1>4. Upper(r[A]) \cup ByteOf(x) \in Word16
  BY <1>3, RegistersAre, WordsAreWords DEF Word16
<1>5. r' \in Registers
  <2>1. CASE op = "lb"
    BY <1>1, <1>4, <2>1, RegistersAre, ResultsTyped DEF InstrInv
  <2>2. CASE op # "lb"
    BY <1>1, <2>2, LegTyped, FlagsTyped DEF InstrInv
  <2> QED
    BY <2>1, <2>2
<1>6. rALARM' \in BOOLEAN /\ mem' \in Memories
  BY AccessTyped DEF LoadByte, InstrInv
<1> QED
  BY <1>1, <1>2, <1>3, <1>5, <1>6, ByteAddressTyped, Operation DEF LoadByte, Exec, script, control, state, InstrInv

LEMMA WithByteTyped == ASSUME NEW x \in Word16, NEW y \in Word16 PROVE WithByte(x, y) \in Word16
<1>1. Lower(x) \in Word16 /\ Left(y, 8) \in Word16 /\ Upper(x) \in Word16 /\ Lower(y) \in Word16
  BY WordsAreWords
<1> QED
  BY <1>1 DEF WithByte, Word16

LEMMA StoreByteStep == ASSUME InstrInv, StoreByte PROVE InstrInv'
<1>1. PICK x \in Got(TRUE, ByteAddress) : ac' = x /\ Writing(TRUE, ByteAddress, WithByte(x, Lower(r[A])))
  BY DEF StoreByte
<1>2. x \in Word16 /\ Lower(r[A]) \in Word16
  BY MemoryTyped, RegistersAre, WordsAreWords DEF InstrInv
<1>3. rALARM' \in BOOLEAN /\ mem' \in Memories
  BY <1>1, <1>2, WithByteTyped, AccessTyped DEF InstrInv
<1> QED
  BY <1>1, <1>2, <1>3, ByteAddressTyped, Operation DEF StoreByte, Exec, script, control, state, InstrInv

LEMMA TrbStep == ASSUME InstrInv, Trb PROVE InstrInv'
<1>1. r' \in Registers /\ p' \in BOOLEAN
  BY RegistersAre, WordsAreWords, ResultsTyped DEF Trb, InstrInv
<1> QED
  BY <1>1, Operation DEF Trb, Exec, script, argument, state, outside, InstrInv

LEMMA LoopStep == ASSUME InstrInv, Loop PROVE InstrInv'
<1>1. r' \in Registers /\ ic' \in Word16
  BY RegistersAre, WordsAreWords, ResultsTyped DEF Loop, InstrInv
<1> QED
  BY <1>1, Operation DEF Loop, Going, Exec, script, argument, state, outside, InstrInv

LEMMA JumpStep == ASSUME InstrInv, Jump PROVE InstrInv'
<1>1. r[0] \in Word16 /\ r[0] \ {FL_V} \in Word16
  BY RegistersAre DEF Word16
<1>2. r' \in Registers /\ ic' \in Word16
  BY <1>1, WordsAreWords, FlagsTyped DEF Jump, InstrInv
<1> QED
  BY <1>2, Operation DEF Jump, Going, Exec, script, argument, state, outside, InstrInv

LEMMA LjStep == ASSUME InstrInv, Lj PROVE InstrInv'
<1>1. rALARM' \in BOOLEAN /\ mem' \in Memories
  BY AccessTyped DEF Lj, InstrInv
<1> QED
  BY <1>1, WordsAreWords, Operation DEF Lj, Exec, script, argument, state, InstrInv

LEMMA BytesStep == ASSUME InstrInv, Bytes PROVE InstrInv'
<1>1. r' \in Registers
  BY RegistersAre, WordsAreWords, ResultsTyped DEF Bytes, InstrInv
<1> QED
  BY <1>1, Operation DEF Bytes, Computing, Exec, script, argument, control, state, outside, InstrInv

LEMMA SetXStep == ASSUME InstrInv, SetX PROVE InstrInv'
<1>1. \A c : (r[0] \ {FL_X}) \cup If(c, FL_X) \in Word16
  BY RegistersAre, FlagBits DEF If, Word16
<1>2. r' \in Registers
  BY <1>1, FlagsTyped DEF SetX, InstrInv
<1> QED
  BY <1>2, Operation DEF SetX, Computing, Exec, script, argument, control, state, outside, InstrInv

LEMMA ShiftLeftStep == ASSUME InstrInv, ShiftLeft PROVE InstrInv'
<1> DEFINE x == Left(r[A], 1) \cup If(ShiftIn, 15)
           flags == (r[0] \ {FL_Y}) \cup If(0 \in r[A], FL_Y)
                      \cup If(op \in {"svz", "svy", "svx"} /\ (0 \in r[A]) # (0 \in x), FL_V)
<1>1. x \in Word16
  <2>1. 15 \in Bits
    BY DEF Bits
  <2> QED
    BY <2>1, WordsAreWords DEF If, Word16
<1>2. flags \in Word16
  <2> HIDE DEF x
  <2> QED
    BY RegistersAre, FlagBits DEF If, Word16
<1>3. Results(x, flags)
  BY DEF ShiftLeft
<1> HIDE DEF x, flags
<1>4. r' \in Registers
  BY <1>1, <1>2, <1>3, ResultsTyped DEF InstrInv
<1> QED
  BY <1>4, Operation DEF ShiftLeft, Computing, Exec, script, argument, control, state, outside, InstrInv

LEMMA ShiftRightStep == ASSUME InstrInv, ShiftRight PROVE InstrInv'
<1> DEFINE x == Right(r[A], 1) \cup If(ShiftIn, 0)
           flags == (r[0] \ {FL_Y}) \cup If(15 \in r[A], FL_Y)
<1>1. x \in Word16
  <2>1. 0 \in Bits
    BY DEF Bits
  <2> QED
    BY <2>1, WordsAreWords DEF If, Word16
<1>2. flags \in Word16
  BY RegistersAre, FlagBits DEF If, Word16
<1>3. Results(x, flags)
  BY DEF ShiftRight
<1> HIDE DEF x, flags
<1>4. r' \in Registers
  BY <1>1, <1>2, <1>3, ResultsTyped DEF InstrInv
<1> QED
  BY <1>4, Operation DEF ShiftRight, Computing, Exec, script, argument, control, state, outside, InstrInv

LEMMA ShcStep == ASSUME InstrInv, Shc PROVE InstrInv'
<1> DEFINE n == Num(ir \cap 13..15) + IF FieldD(ir) THEN 8 ELSE 0
           x == {(i + n) % 16 : i \in r[A]}
<1>1. n \in Int
  BY NumBounds
<1> HIDE DEF n
<1>2. x \in Word16
  <2>1. \A i \in Bits : (i + n) % 16 \in Bits
    BY <1>1 DEF Bits
  <2> QED
    BY <2>1, RegistersAre DEF Word16
<1>3. Results(x, r[0])
  BY DEF Shc, n
<1> HIDE DEF x
<1>4. r' \in Registers
  BY <1>2, <1>3, RegistersAre, ResultsTyped DEF InstrInv
<1> QED
  BY <1>4, Operation DEF Shc, Computing, Exec, script, argument, control, state, outside, InstrInv

LEMMA LpcStep == ASSUME InstrInv, Lpc PROVE InstrInv'
<1>1. r' \in Registers
  BY RegistersAre, FlagsTyped DEF Lpc, InstrInv
<1> QED
  BY <1>1, Operation DEF Lpc, Computing, Exec, script, argument, control, state, outside, InstrInv

LEMMA SoftIntStep == ASSUME InstrInv, SoftInt PROVE InstrInv'
BY Operation DEF SoftInt, Exec, script, argument, control, state, InstrInv

LEMMA LatestExists ==
  ASSUME NEW n \in Nat, NEW S \in SUBSET (0..n), S # {}
  PROVE  (CHOOSE j \in S : \A i \in S : i <= j) \in S
<1> DEFINE T == {n - j : j \in S}
<1>1. T \in SUBSET Nat /\ T # {}
  <2>1. \A j \in S : j \in Nat /\ j <= n
    OBVIOUS
  <2>2. \A j \in S : n - j \in Nat
    BY <2>1
  <2>3. PICK j \in S : TRUE
    OBVIOUS
  <2>4. n - j \in T
    BY <2>3
  <2>5. T \subseteq Nat
    BY <2>2
  <2> HIDE DEF T
  <2> QED
    BY <2>4, <2>5
<1>2. PICK t \in T : \A u \in T : t <= u
  <2> HIDE DEF T
  <2> QED
    BY <1>1, LeastExists
<1>3. \E j \in S : t = n - j
  BY <1>2
<1>4. PICK j \in S : t = n - j
  BY <1>3
<1>5. ASSUME NEW i \in S PROVE i <= j
  <2>1. n - i \in T
    OBVIOUS
  <2>2. t <= n - i
    BY <1>2, <2>1
  <2>3. i \in Int /\ j \in Int
    OBVIOUS
  <2> QED
    BY <1>4, <2>2, <2>3
<1>6. \E k \in S : \A i \in S : i <= k
  BY <1>5
<1> QED
  BY <1>6

LEMMA LoadWordsStep == ASSUME InstrInv, LoadWords PROVE InstrInv'
<1> DEFINE barnb == q \/ op \in {"td", "tf", "ta", "tl"}
           addr(k) == Plus(ar, Word(k))
           count == Words(op)
           Came(k) == {j \in 0..k - 1 : Answers(barnb, addr(j))}
           Latest(js) == CHOOSE j \in js : \A i \in js : i <= j
           got(rest, k) == IF Came(k) = {} THEN rest ELSE mem[Place(barnb, addr(Latest(Came(k))))]
<1>1. barnb \in BOOLEAN /\ count \in Nat /\ \A k : addr(k) \in Word16
  BY WordsAreWords DEF InstrInv, Words
<1>2. PICK rest \in Leftover :
        r' = [k \in 0..7 |-> IF k - FirstReg(op) \in 0..count - 1 THEN got(rest, k - FirstReg(op) + 1) ELSE r[k]]
  BY Zenon DEF LoadWords
<1>3. Accessing(barnb, {addr(k) : k \in 0..count - 1}) /\ ar' = addr(count)
  BY Zenon DEF LoadWords
<1>4. rest \in Word16
  BY InstrAssumption DEF Word16
<1> HIDE DEF barnb, count, addr
<1>5. ASSUME NEW k \in 0..count - 1 PROVE got(rest, k + 1) \in Word16
  <2> DEFINE S == Came(k + 1)
  <2>1. S \in SUBSET (0..k)
    BY <1>1
  <2>2. CASE S # {}
    <3>1. Latest(S) \in S
      <4>1. k \in Nat
        BY <1>1
      <4> HIDE DEF S
      <4> QED
        BY <2>1, <2>2, <4>1, LatestExists
    <3>2. Answers(barnb, addr(Latest(S)))
      BY <3>1
    <3>3. mem[Place(barnb, addr(Latest(S)))] \in Word16
      BY <3>2, MemoryTyped DEF InstrInv
    <3> QED
      BY <2>2, <3>3
  <2>3. CASE S = {}
    BY <1>4, <2>3
  <2> QED
    BY <2>2, <2>3
<1> HIDE DEF got
<1>6. r' \in Registers
  <2>1. FirstReg(op) \in Int
    BY DEF FirstReg
  <2> QED
    BY <1>2, <1>5, <2>1, RegistersAre DEF Registers
<1>7. rALARM' \in BOOLEAN
  BY <1>1, <1>3, AccessTyped DEF InstrInv
<1> QED
  BY <1>1, <1>3, <1>6, <1>7, Operation DEF LoadWords, Exec, script, control, state, InstrInv

LEMMA StoreWordsStep == ASSUME InstrInv, StoreWords PROVE InstrInv'
<1> DEFINE barnb == q \/ op \in {"pd", "pf", "pa", "pl"}
           place(k) == Place(barnb, Plus(ar, Word(k)))
           offsets == 0..Words(op) - 1
<1>1. barnb \in BOOLEAN
  BY DEF InstrInv
<1>2. mem' = [x \in DOMAIN mem |-> IF \E k \in offsets : place(k) = x
                                   THEN r[FirstReg(op) + CHOOSE k \in offsets : place(k) = x] ELSE mem[x]]
  BY DEF StoreWords
<1>3. Accessing(barnb, {Plus(ar, Word(k)) : k \in offsets}) /\ ar' = Plus(ar, Word(Words(op)))
  BY Zenon DEF StoreWords
<1>4. \A k \in offsets : FirstReg(op) + k \in 0..7
  <2>1. op \in {"rd", "rf", "ra", "rl", "pd", "pf", "pa", "pl"}
    BY DEF StoreWords, Exec
  <2> QED
    BY <2>1 DEF FirstReg, Words
<1> HIDE DEF barnb, place, offsets
<1>5. mem' \in Memories
  <2>1. ASSUME NEW x \in DOMAIN mem PROVE mem'[x] \in Word16
    <3>1. CASE \E k \in offsets : place(k) = x
      <4> DEFINE k == CHOOSE k \in offsets : place(k) = x
      <4>1. k \in offsets
        BY <3>1
      <4>2. mem'[x] = r[FirstReg(op) + k]
        BY <1>2, <3>1
      <4> HIDE DEF k
      <4> QED
        BY <1>4, <4>1, <4>2, RegistersAre
    <3>2. CASE ~\E k \in offsets : place(k) = x
      BY <1>2, <3>2 DEF InstrInv, Memories
    <3> QED
      BY <3>1, <3>2
  <2> QED
    BY <1>2, <2>1 DEF InstrInv, Memories
<1>6. rALARM' \in BOOLEAN
  BY <1>1, <1>3, AccessTyped DEF InstrInv
<1> QED
  BY <1>3, <1>5, <1>6, WordsAreWords, Operation DEF StoreWords, Exec, script, control, state, InstrInv

\* the number of the last four bits
LEMMA LastBits == ASSUME NEW x PROVE Num(x \cap 12..15) \in 0..15
<1> DEFINE y == x \cap 12..15
<1>1. \A i \in Bits : i \notin 12..15 => BitOf(y, i) = 0
  BY DEF BitOf
<1>2. /\ BitOf(y, 0) = 0 /\ BitOf(y, 1) = 0 /\ BitOf(y, 2) = 0 /\ BitOf(y, 3) = 0 /\ BitOf(y, 4) = 0
      /\ BitOf(y, 5) = 0 /\ BitOf(y, 6) = 0 /\ BitOf(y, 7) = 0 /\ BitOf(y, 8) = 0 /\ BitOf(y, 9) = 0
      /\ BitOf(y, 10) = 0 /\ BitOf(y, 11) = 0
  <2>1. \A i \in 0..11 : i \notin 12..15
    OBVIOUS
  <2> HIDE DEF y
  <2> QED
    BY <1>1, <2>1, AllBits
<1>3. BitOf(y, 12) \in {0, 8} /\ BitOf(y, 13) \in {0, 4} /\ BitOf(y, 14) \in {0, 2} /\ BitOf(y, 15) \in {0, 1}
  BY BitsOf
<1> HIDE DEF y
<1>4. Num(y) = BitOf(y, 12) + BitOf(y, 13) + BitOf(y, 14) + BitOf(y, 15)
  BY <1>2, <1>3 DEF Num
<1> QED
  BY <1>3, <1>4 DEF y

LEMMA MbStep == ASSUME InstrInv, Mb PROVE InstrInv'
<1>1. q' \in BOOLEAN /\ bs' \in BOOLEAN /\ nb' \in 0..15
  BY LastBits DEF Mb
<1>2. rALARM' \in BOOLEAN /\ mem' \in Memories
  BY AccessTyped DEF Mb, InstrInv
<1> QED
  BY <1>1, <1>2, Operation DEF Mb, Exec, script, argument, control, InstrInv

LEMMA IbStep == ASSUME InstrInv, Ib PROVE InstrInv'
<1>1. PICK x \in Got(q, ar) : /\ ac' = x /\ p' = (Plus(x, Word(1)) = {})
                              /\ Writing(q, ar, Plus(x, Word(1)))
  BY DEF Ib
<1>2. x \in Word16 /\ p' \in BOOLEAN
  BY <1>1, MemoryTyped DEF InstrInv
<1>3. rALARM' \in BOOLEAN /\ mem' \in Memories
  BY <1>1, WordsAreWords, AccessTyped DEF InstrInv
<1> QED
  BY <1>1, <1>2, <1>3, Operation DEF Ib, Exec, script, state, InstrInv

LEMMA MdStep == ASSUME InstrInv, Md PROVE InstrInv'
<1>1. mc <= 2 /\ mc \in Nat
  BY DEF Md, Exec, InstrInv
<1> QED
  BY <1>1, Operation DEF Md, Exec, script, argument, state, outside, InstrInv

LEMMA AwpStep == ASSUME InstrInv, Awp PROVE InstrInv'
<1> DEFINE all == \A a \in {Plus(ar, Word(k)) : k \in 0..AwpCount(op) - 1} : Answers(q, a)
<1>1. PICK x \in Values : r' = [r EXCEPT ![1] = x] /\ rALARM' = (rALARM \/ (~all /\ ~q))
  BY DEF Awp
<1>2. rALARM' \in BOOLEAN
  BY <1>1
<1>3. r' \in Registers
  BY <1>1, InstrAssumption DEF InstrInv, Registers, Word16
<1> QED
  BY <1>2, <1>3, Operation DEF Awp, Exec, script, argument, control, state, InstrInv

LEMMA ElsewhereStep == ASSUME InstrInv, Elsewhere PROVE InstrInv'
BY Operation DEF Elsewhere, Exec, script, argument, control, state, outside, InstrInv

\* the number of the last three bits
LEMMA LastThree == ASSUME NEW x PROVE Num(x \cap 13..15) \in 0..7
<1> DEFINE y == x \cap 13..15
<1>1. \A i \in Bits : i \notin 13..15 => BitOf(y, i) = 0
  BY DEF BitOf
<1>2. /\ BitOf(y, 0) = 0 /\ BitOf(y, 1) = 0 /\ BitOf(y, 2) = 0 /\ BitOf(y, 3) = 0 /\ BitOf(y, 4) = 0
      /\ BitOf(y, 5) = 0 /\ BitOf(y, 6) = 0 /\ BitOf(y, 7) = 0 /\ BitOf(y, 8) = 0 /\ BitOf(y, 9) = 0
      /\ BitOf(y, 10) = 0 /\ BitOf(y, 11) = 0 /\ BitOf(y, 12) = 0
  <2>1. \A i \in 0..12 : i \notin 13..15
    OBVIOUS
  <2> HIDE DEF y
  <2> QED
    BY <1>1, <2>1, AllBits
<1>3. BitOf(y, 13) \in {0, 4} /\ BitOf(y, 14) \in {0, 2} /\ BitOf(y, 15) \in {0, 1}
  BY BitsOf
<1> HIDE DEF y
<1>4. Num(y) = BitOf(y, 13) + BitOf(y, 14) + BitOf(y, 15)
  BY <1>2, <1>3 DEF Num
<1> QED
  BY <1>3, <1>4 DEF y

\* the kinds of argument the table knows
LEMMA ArgKinds == ASSUME NEW x PROVE Entry(x).arg \in {"norm", "short", "byte", "none"}
<1> DEFINE Kinds == {"norm", "short", "byte", "none"}
<1>1. \A base, step, mask, ops : \A arg \in Kinds : \A e \in Family(base, step, mask, arg, ops) : e.arg \in Kinds
  BY DEF Family
<1>2. \A e \in Table : e.arg \in Kinds
  <2> DEFINE Known(e) == e.arg \in Kinds
  <2> HIDE DEF Kinds
  <2>1. "norm" \in Kinds /\ "short" \in Kinds /\ "byte" \in Kinds /\ "none" \in Kinds
    BY DEF Kinds
  <2>2. \A base, step, mask, arg, ops : arg \in Kinds => \A e \in Family(base, step, mask, arg, ops) : Known(e)
    BY <1>1
  <2>3. \A sub, mask, name : \A e \in None73(sub, mask, name) : Known(e)
    BY <2>1, <2>2 DEF None73
  <2> HIDE DEF Known
  <2>4. ASSUME NEW e \in Table PROVE Known(e)
    BY ONLY <2>1, <2>2, <2>3, <2>4, SMTT(30) DEF Table
  <2> QED
    BY <2>4 DEF Known
<1>3. Illegal.arg \in Kinds
  BY DEF Illegal
<1> QED
  BY <1>2, <1>3 DEF Entry, Decoded

LEMMA FetchedWord ==
  ASSUME InstrInv, NEW x \in NextWord, Fetch(x)
  PROVE  /\ x \in Word16 /\ ir' = x /\ program' = program
         /\ at' \in Nat /\ at' >= 1 /\ at' <= Len(program) + 1
         /\ r' = r /\ q' = q /\ bs' = bs /\ nb' = nb /\ mem' = mem
<1>1. at <= Len(program) /\ x = program[at]
  BY DEF NextWord
<1>2. at \in 1..Len(program) /\ Len(program) \in Nat
  BY <1>1 DEF InstrInv
<1>3. x \in Word16
  BY <1>1, <1>2 DEF InstrInv
<1> QED
  BY <1>1, <1>2, <1>3 DEF Fetch, state, InstrInv

LEMMA PassByStep == ASSUME InstrInv, PassBy PROVE InstrInv'
<1>1. PICK x \in NextWord :
        /\ Fetch(x) /\ phase' = "fetch" /\ p' = FALSE /\ mc' = 0
        /\ ic' \in {Plus(ic, Word(1)), Plus(ic, Word(Skipped(Entry(x), x)))}
        /\ UNCHANGED <<ac, ar, zc17, rALARM>>
  BY DEF PassBy
<1>2. ic' \in Word16
  BY <1>1, WordsAreWords
<1>3. /\ x \in Word16 /\ ir' = x /\ program' = program
      /\ at' \in Nat /\ at' >= 1 /\ at' <= Len(program) + 1
      /\ r' = r /\ q' = q /\ bs' = bs /\ nb' = nb /\ mem' = mem
  BY <1>1, FetchedWord
<1>4. /\ phase' = "fetch" /\ p' \in BOOLEAN /\ mc' = 0 /\ ac' = ac /\ ar' = ar /\ zc17' = zc17
      /\ rALARM' = rALARM
  BY <1>1
<1> QED
  BY ONLY InstrInv, <1>2, <1>3, <1>4 DEF InstrInv, Registers, Memories, Word16

LEMMA ArgumentStep == ASSUME InstrInv, Argument PROVE InstrInv'
<1>1. PICK x \in NextWord :
        LET e == Entry(x)
            norm == e.arg = "norm"
            imm == norm /\ FieldC(x) = 0
            bmod == norm /\ FieldB(x) # 0
        IN /\ Fetch(x) /\ phase' = "exec"
           /\ ~(Refused(e) \/ Ineffective(e))
           /\ \E first \in Plain(e, x) :
                LET addr == IF mc = 0 /\ e.arg # "none" THEN first ELSE ar
                    pre == IF mc # 0 THEN Plus(first, addr) ELSE first
                    whole == IF bmod THEN Plus(pre, r[FieldB(x)]) ELSE pre
                    left == IF mc # 0 \/ bmod THEN whole ELSE addr
                IN /\ zc17' = Carried(mc # 0 /\ Over(first, addr), Over(pre, r[FieldB(x)]), bmod)
                   /\ IF norm /\ FieldD(x)
                      THEN \E second \in Got(q, left) : ac' = second /\ ar' = second
                      ELSE ac' = whole /\ ar' = left
                   /\ Accessing(q, (IF imm THEN {Plus(ic, Word(1))} ELSE {})
                                   \cup (IF norm /\ FieldD(x) THEN {left} ELSE {}))
           /\ ic' = Plus(ic, Word(IF imm THEN 2 ELSE 1))
           /\ mc' = (IF e.op = "md" THEN mc ELSE 0)
           /\ UNCHANGED p
  BY Zenon DEF Argument
<1> DEFINE e == Entry(x)
           norm == e.arg = "norm"
           imm == norm /\ FieldC(x) = 0
           bmod == norm /\ FieldB(x) # 0
           addr(first) == IF mc = 0 /\ e.arg # "none" THEN first ELSE ar
           pre(first) == IF mc # 0 THEN Plus(first, addr(first)) ELSE first
           whole(first) == IF bmod THEN Plus(pre(first), r[FieldB(x)]) ELSE pre(first)
           left(first) == IF mc # 0 \/ bmod THEN whole(first) ELSE addr(first)
<1>2. PICK first \in Plain(e, x) :
         /\ zc17' = Carried(mc # 0 /\ Over(first, addr(first)), Over(pre(first), r[FieldB(x)]), bmod)
         /\ IF norm /\ FieldD(x)
            THEN \E second \in Got(q, left(first)) : ac' = second /\ ar' = second
            ELSE ac' = whole(first) /\ ar' = left(first)
         /\ Accessing(q, (IF imm THEN {Plus(ic, Word(1))} ELSE {})
                         \cup (IF norm /\ FieldD(x) THEN {left(first)} ELSE {}))
  BY <1>1, Zenon
<1>3. /\ Fetch(x) /\ phase' = "exec" /\ ~Refused(e)
      /\ ic' = Plus(ic, Word(IF imm THEN 2 ELSE 1))
      /\ mc' = (IF e.op = "md" THEN mc ELSE 0)
      /\ UNCHANGED p
  BY <1>1, Zenon
<1>4. op' = e.op /\ Fetch(x)
  BY <1>3 DEF Fetch
<1>5. first \in Word16
  <2>1. FieldC(x) \in 0..7
    BY LastThree DEF FieldC
  <2>2. r[FieldC(x)] \in Word16
    BY <2>1, RegistersAre
  <2>3. FieldT(x) \in Word16
    BY WordsAreWords DEF FieldT
  <2>4. Lower(x) \in Word16
    BY <1>3, FetchedWord, WordsAreWords
  <2>5. Got(q, Plus(ic, Word(1))) \subseteq Word16
    BY MemoryTyped DEF InstrInv
  <2>6. e.arg \in {"norm", "short", "byte", "none"}
    BY ArgKinds
  <2>7. ac \in Word16
    BY DEF InstrInv
  <2> HIDE DEF e
  <2> QED
    BY <2>2, <2>3, <2>4, <2>5, <2>6, <2>7 DEF Plain
<1> HIDE DEF e
<1>6. addr(first) \in Word16 /\ pre(first) \in Word16 /\ whole(first) \in Word16 /\ left(first) \in Word16
  BY <1>5, WordsAreWords DEF InstrInv
<1>7. ac' \in Word16 /\ ar' \in Word16
  <2>1. Got(q, left(first)) \subseteq Word16
    BY MemoryTyped DEF InstrInv
  <2> HIDE DEF norm, left, whole
  <2> QED
    BY <1>2, <1>6, <2>1
<1>8. zc17' \in BOOLEAN
  <2> DEFINE one == mc # 0 /\ Over(first, addr(first))
             two == Over(pre(first), r[FieldB(x)])
  <2>1. one \in BOOLEAN /\ two \in BOOLEAN
    BY DEF Over
  <2>2. zc17' = Carried(one, two, bmod)
    BY <1>2
  <2> HIDE DEF one, two, bmod
  <2> QED
    BY <2>1, <2>2 DEF Carried
<1>9. rALARM' \in BOOLEAN
  <2> DEFINE places == (IF imm THEN {Plus(ic, Word(1))} ELSE {}) \cup (IF norm /\ FieldD(x) THEN {left(first)} ELSE {})
  <2>1. Accessing(q, places)
    BY <1>2
  <2> HIDE DEF places
  <2> QED
    BY <2>1, AccessTyped DEF InstrInv
<1>10. mc' \in Nat /\ mc' <= 3 /\ (op' = "md" => mc' <= 2)
  <2>1. ~TooManyMd(e)
    BY <1>3 DEF Refused
  <2> QED
    BY <1>3, <1>4, <2>1 DEF TooManyMd, InstrInv
<1>11. ic' \in Word16
  BY <1>3, WordsAreWords
<1>12. /\ x \in Word16 /\ ir' = x /\ program' = program
       /\ at' \in Nat /\ at' >= 1 /\ at' <= Len(program) + 1
       /\ r' = r /\ q' = q /\ bs' = bs /\ nb' = nb /\ mem' = mem
  BY <1>3, FetchedWord
<1> HIDE DEF addr, pre, whole, left, norm, imm, bmod
<1> QED
  BY <1>3, <1>7, <1>8, <1>9, <1>10, <1>11, <1>12 DEF InstrInv, Registers, Memories, Word16

LEMMA StutterStep == ASSUME InstrInv, UNCHANGED instrVars PROVE InstrInv'
BY DEF InstrInv, instrVars, Registers, Memories, Word16

LEMMA TypedStep == ASSUME InstrInv, InstrNext PROVE InstrInv'
BY PassByStep, ArgumentStep, LoadRegStep, LoadMemStep, LsStep, StoreRegStep, RwsStep, RjStep, IsStep, TestBitsStep,
   BmStep, IoStep, ArithmeticStep, CompareStep, LogicStep, LogicMemStep, NglStep, LoadByteStep, StoreByteStep, TrbStep,
   LoopStep, JumpStep, LjStep, BytesStep, SetXStep, ShiftLeftStep, ShiftRightStep, ShcStep, LpcStep, SoftIntStep,
   LoadWordsStep, StoreWordsStep, MbStep, IbStep, MdStep, AwpStep, ElsewhereStep, Zenon DEF InstrNext

LEMMA TypedInit == ASSUME InstrInit PROVE InstrInv
<1>1. PICK c \in Cases :
        LET m == c[2] IN
          /\ program = c[1]
          /\ r = [k \in 0..7 |-> CASE k = 0 -> m.r0 [] k = 1 -> m.r1 [] k = 7 -> m.r7 [] OTHER -> Word(k)]
          /\ q = m.q /\ mod = m.mod
  BY DEF InstrInit
<1>2. c[1] \in Seq(Word16) /\ c[2].r0 \in Word16 /\ c[2].r1 \in Word16 /\ c[2].r7 \in Word16 /\ c[2].q \in BOOLEAN
  BY InstrAssumption DEF Word16
<1>3. r \in Registers
  BY <1>1, <1>2, WordsAreWords DEF Registers
<1>4. mem \in Memories
  <2>1. mem = Memory0
    BY DEF InstrInit
  <2>2. Memory0 \in [DOMAIN Memory0 -> SUBSET Bits]
    BY InstrAssumption
  <2> QED
    BY <2>1, <2>2 DEF Memories, Word16
<1>5. program \in Seq(Word16) /\ q \in BOOLEAN /\ at = 1 /\ Len(program) \in Nat
  <2>1. program \in Seq(Word16) /\ q \in BOOLEAN
    BY <1>1, <1>2
  <2>2. at = 1
    BY DEF InstrInit
  <2> QED
    BY <2>1, <2>2
<1>6. /\ phase = "fetch" /\ ir = {} /\ ac = {} /\ ar = {} /\ ic = {} /\ mc = 0 /\ nb = 1
  BY Zenon DEF InstrInit
<1>7. zc17 \in BOOLEAN /\ p \in BOOLEAN /\ bs \in BOOLEAN /\ rALARM \in BOOLEAN
  BY Zenon DEF InstrInit
<1>8. {} \in Word16
  BY WordsAreWords
<1> QED
  BY ONLY <1>3, <1>4, <1>5, <1>6, <1>7, <1>8 DEF InstrInv

THEOREM InstructionsAlwaysHold == InstrSpec => []InstrInv
<1>1. InstrInit => InstrInv
  BY TypedInit
<1>2. InstrInv /\ [InstrNext]_instrVars => InstrInv'
  BY TypedStep, StutterStep
<1> QED
  BY <1>1, <1>2, PTL DEF InstrSpec

\* The registers and memory hold words of 16 bits, there are never more than three
\* MD in a row and the program is not left, whatever the program and the machine.
THEOREM InstructionsAlwaysTyped == InstrSpec => []InstrTypeOK
<1>1. InstrInv => InstrTypeOK
  <2> SUFFICES ASSUME InstrInv PROVE InstrTypeOK
    OBVIOUS
  <2>1. at \in 1..Len(program) + 1
    BY DEF InstrInv
  <2>2. mc \in 0..3
    BY DEF InstrInv
  <2>3. \A x \in DOMAIN mem : mem[x] \subseteq Bits
    BY DEF InstrInv, Memories, Word16
  <2>4. r \in [0..7 -> SUBSET Bits] /\ {ir, ac, ar, ic} \subseteq SUBSET Bits
    BY DEF InstrInv, Registers, Word16
  <2>5. {p, q, bs, zc17, rALARM} \subseteq BOOLEAN
    BY DEF InstrInv
  <2> QED
    BY <2>1, <2>2, <2>3, <2>4, <2>5 DEF InstrTypeOK, InstrInv
<1> QED
  BY <1>1, InstructionsAlwaysHold, PTL

-----------------------------------------------------------------------------
(* Memory as bytes.                                                        *)

\* The word is at half the byte's address, the carry of a modified CPU its bit 0.
LEMMA HalfOfPlace ==
  ASSUME ac \in Word16, NEW carry \in BOOLEAN, NEW y, y = Right(ac, 1) \cup If(carry, 0)
  PROVE  Num(ac) + (IF carry THEN 65536 ELSE 0) = 2 * Num(y) + (IF Even THEN 0 ELSE 1)
<1>1. \A i \in Bits : i # 0 => (i \in y <=> i - 1 \in ac)
  <2>1. \A j \in ac : j \in Int
    BY DEF Word16, Bits
  <2>2. \A i \in Bits : i \in Int
    BY DEF Bits
  <2>3. \A i \in Bits : i \in Right(ac, 1) <=> \E j \in ac : i = j + 1
    BY DEF Right
  <2>4. \A i \in Bits : i \in Right(ac, 1) <=> i - 1 \in ac
    BY <2>1, <2>2, <2>3
  <2> QED
    BY <2>4 DEF If
<1>2. 0 \in y <=> carry
  BY DEF Right, If, Bits, Word16
<1>3. /\ (1 \in y <=> 0 \in ac) /\ (2 \in y <=> 1 \in ac) /\ (3 \in y <=> 2 \in ac) /\ (4 \in y <=> 3 \in ac)
      /\ (5 \in y <=> 4 \in ac) /\ (6 \in y <=> 5 \in ac) /\ (7 \in y <=> 6 \in ac) /\ (8 \in y <=> 7 \in ac)
      /\ (9 \in y <=> 8 \in ac) /\ (10 \in y <=> 9 \in ac) /\ (11 \in y <=> 10 \in ac) /\ (12 \in y <=> 11 \in ac)
      /\ (13 \in y <=> 12 \in ac) /\ (14 \in y <=> 13 \in ac) /\ (15 \in y <=> 14 \in ac)
  BY <1>1, AllBits
<1>4. BitOf(y, 0) = (IF carry THEN 32768 ELSE 0) /\ BitOf(ac, 15) = (IF Even THEN 0 ELSE 1)
  BY <1>2, BitsOf DEF Even
<1>5. /\ BitOf(ac, 0) = 2 * BitOf(y, 1) /\ BitOf(ac, 1) = 2 * BitOf(y, 2) /\ BitOf(ac, 2) = 2 * BitOf(y, 3)
      /\ BitOf(ac, 3) = 2 * BitOf(y, 4) /\ BitOf(ac, 4) = 2 * BitOf(y, 5) /\ BitOf(ac, 5) = 2 * BitOf(y, 6)
      /\ BitOf(ac, 6) = 2 * BitOf(y, 7) /\ BitOf(ac, 7) = 2 * BitOf(y, 8)
  BY <1>3, BitsOf
<1>6. /\ BitOf(ac, 8) = 2 * BitOf(y, 9) /\ BitOf(ac, 9) = 2 * BitOf(y, 10) /\ BitOf(ac, 10) = 2 * BitOf(y, 11)
      /\ BitOf(ac, 11) = 2 * BitOf(y, 12) /\ BitOf(ac, 12) = 2 * BitOf(y, 13) /\ BitOf(ac, 13) = 2 * BitOf(y, 14)
      /\ BitOf(ac, 14) = 2 * BitOf(y, 15)
  BY <1>3, BitsOf
<1>7. /\ BitOf(y, 0) \in Int /\ BitOf(y, 1) \in Int /\ BitOf(y, 2) \in Int /\ BitOf(y, 3) \in Int
      /\ BitOf(y, 4) \in Int /\ BitOf(y, 5) \in Int /\ BitOf(y, 6) \in Int /\ BitOf(y, 7) \in Int
      /\ BitOf(y, 8) \in Int /\ BitOf(y, 9) \in Int /\ BitOf(y, 10) \in Int /\ BitOf(y, 11) \in Int
      /\ BitOf(y, 12) \in Int /\ BitOf(y, 13) \in Int /\ BitOf(y, 14) \in Int /\ BitOf(y, 15) \in Int
  BY BitsOf
<1> DEFINE a == BitOf(y, 1) + BitOf(y, 2) + BitOf(y, 3) + BitOf(y, 4) + BitOf(y, 5) + BitOf(y, 6) + BitOf(y, 7)
           b == BitOf(y, 8) + BitOf(y, 9) + BitOf(y, 10) + BitOf(y, 11) + BitOf(y, 12) + BitOf(y, 13) + BitOf(y, 14)
<1>8. a \in Int /\ b \in Int
  BY <1>7
<1>9. Num(y) = BitOf(y, 0) + a + b + BitOf(y, 15)
  BY <1>7 DEF Num
<1>10. /\ BitOf(ac, 0) + BitOf(ac, 1) + BitOf(ac, 2) + BitOf(ac, 3) + BitOf(ac, 4) + BitOf(ac, 5) + BitOf(ac, 6) = 2 * a
       /\ BitOf(ac, 7) + BitOf(ac, 8) + BitOf(ac, 9) + BitOf(ac, 10) + BitOf(ac, 11) + BitOf(ac, 12) + BitOf(ac, 13) = 2 * b
       /\ BitOf(ac, 14) = 2 * BitOf(y, 15)
  <2>1. \A k, l, m, n, o, u, v \in Int : 2*k + 2*l + 2*m + 2*n + 2*o + 2*u + 2*v = 2 * (k + l + m + n + o + u + v)
    OBVIOUS
  <2> HIDE DEF a, b
  <2> QED
    BY <1>5, <1>6, <1>7, <2>1 DEF a, b
<1>11. Num(ac) = 2 * a + 2 * b + 2 * BitOf(y, 15) + BitOf(ac, 15)
  <2>1. \A i \in Bits : BitOf(ac, i) \in Int
    BY Weights DEF BitOf, Bits
  <2> HIDE DEF a, b
  <2> QED
    BY <1>8, <1>10, <2>1, AllBits DEF Num
<1> HIDE DEF a, b
<1>12. BitOf(y, 15) \in Int
  BY <1>7
<1> QED
  BY <1>4, <1>8, <1>9, <1>11, <1>12

\* What RB writes into the word and what stays.
LEMMA BytesOfWord ==
  ASSUME NEW w \in Word16, NEW z \in Word16
  PROVE  /\ Even => Right(WithByte(w, Lower(z)), 8) = Lower(z) /\ Lower(WithByte(w, Lower(z))) = Lower(w)
         /\ ~Even => Right(WithByte(w, Lower(z)), 8) = Right(w, 8) /\ Lower(WithByte(w, Lower(z))) = Lower(z)
<1> DEFINE even == Lower(w) \cup Left(Lower(z), 8)
           odd == Upper(w) \cup Lower(Lower(z))
<1>1. Right(even, 8) = Lower(z)
  <2>1. \A i \in Bits : i \in Right(even, 8) <=> i \in Lower(z)
    BY DEF Right, Left, Lower, Bits, Word16
  <2>2. Right(even, 8) \in Word16 /\ Lower(z) \in Word16
    BY WordsAreWords
  <2> HIDE DEF even
  <2> QED
    BY <2>1, <2>2 DEF Word16
<1>2. Lower(even) = Lower(w)
  BY DEF Left, Lower, Bits, Word16
<1>3. Right(odd, 8) = Right(w, 8)
  <2>1. \A i \in Bits : i \in Right(odd, 8) <=> i \in Right(w, 8)
    BY DEF Right, Upper, Lower, Bits, Word16
  <2>2. Right(odd, 8) \in Word16 /\ Right(w, 8) \in Word16
    BY WordsAreWords
  <2> HIDE DEF odd
  <2> QED
    BY <2>1, <2>2 DEF Word16
<1>4. Lower(odd) = Lower(z)
  BY DEF Upper, Lower, Bits, Word16
<1> QED
  BY <1>1, <1>2, <1>3, <1>4 DEF WithByte

\* RB stores one byte and touches no other, for every memory and every byte.
THEOREM BytesAlwaysApart == InstrSpec => BytesApart
<1> DEFINE Holds ==
      Does({"rb"}) =>
        \A x \in DOMAIN mem : \A n \in {2 * x[2], 2 * x[2] + 1} :
          ByteAt(mem', x[1], n) = IF x[1] = nb /\ n = BytePlace THEN Lower(r[A]) ELSE ByteAt(mem, x[1], n)
<1>1. InstrInv /\ InstrNext => Holds
  <2> SUFFICES ASSUME InstrInv, InstrNext, Does({"rb"}), NEW x \in DOMAIN mem, NEW n \in {2 * x[2], 2 * x[2] + 1}
               PROVE  ByteAt(mem', x[1], n) = IF x[1] = nb /\ n = BytePlace THEN Lower(r[A]) ELSE ByteAt(mem, x[1], n)
    OBVIOUS
  <2> DEFINE place == Place(TRUE, ByteAddress)
             carry == mod = "active" /\ ~(q /\ bs) /\ zc17
  <2>1. x[1] \in Nat /\ x[2] \in Nat /\ x = <<x[1], x[2]>> /\ DOMAIN mem \subseteq Nat \X Nat
    <3>1. DOMAIN mem \subseteq Nat \X Nat
      BY InstrAssumption DEF InstrInv, Memories
    <3> QED
      BY <3>1
  <2>2. n \div 2 = x[2] /\ (n % 2 = 0 <=> n = 2 * x[2]) /\ n \in Nat
    BY <2>1
  <2>3. PICK w \in Got(TRUE, ByteAddress) : mem' = Stored(TRUE, ByteAddress, WithByte(w, Lower(r[A])))
    BY OnlyStoreByte DEF StoreByte, Writing
  <2>4. BytePlace = 2 * Num(ByteAddress) + (IF Even THEN 0 ELSE 1)
    <3>1. BytePlace = Num(ac) + (IF carry THEN 65536 ELSE 0)
      BY DEF BytePlace
    <3>2. carry \in BOOLEAN /\ ByteAddress = Right(ac, 1) \cup If(carry, 0)
      BY DEF ByteAddress, InstrInv
    <3>3. ac \in Word16
      BY DEF InstrInv
    <3> HIDE DEF carry
    <3> QED
      BY <3>1, <3>2, <3>3, HalfOfPlace
  <2>5. place = <<nb, Num(ByteAddress)>> /\ Num(ByteAddress) \in Nat
    BY NumBounds DEF Place
  <2>6. x[1] = nb /\ n = BytePlace <=> x = place /\ (n % 2 = 0 <=> Even)
    <3>1. x = place <=> x[1] = nb /\ x[2] = Num(ByteAddress)
      <4>1. x[1] = nb /\ x[2] = Num(ByteAddress) => x = place
        BY <2>1, <2>5
      <4>2. x = place => x[1] = nb /\ x[2] = Num(ByteAddress)
        <5>1. \A k, l : <<k, l>>[1] = k /\ <<k, l>>[2] = l
          OBVIOUS
        <5> HIDE DEF place
        <5> QED
          <6>1. place[1] = nb /\ place[2] = Num(ByteAddress)
            BY ONLY <2>5, <5>1
          <6> QED
            BY <6>1
      <4> QED
        BY <4>1, <4>2
    <3>2. n = BytePlace <=> x[2] = Num(ByteAddress) /\ (n % 2 = 0 <=> Even)
      <4> HIDE DEF place
      <4> QED
        BY <2>1, <2>2, <2>4, <2>5
    <3> QED
      BY <3>1, <3>2
  <2>7. \A m : ByteAt(m, x[1], n) = IF n % 2 = 0 THEN Right(m[x], 8) ELSE Lower(m[x])
    BY <2>1, <2>2 DEF ByteAt
  <2>8. CASE x = place
    <3>1. w = mem[x] /\ mem'[x] = WithByte(w, Lower(r[A]))
      BY <2>3, <2>8 DEF Got, Stored, Answers
    <3>2. w \in Word16 /\ r[A] \in Word16
      BY <2>3, MemoryTyped, RegistersAre DEF InstrInv
    <3>3. /\ Even => Right(mem'[x], 8) = Lower(r[A]) /\ Lower(mem'[x]) = Lower(mem[x])
          /\ ~Even => Right(mem'[x], 8) = Right(mem[x], 8) /\ Lower(mem'[x]) = Lower(r[A])
      BY <3>1, <3>2, BytesOfWord
    <3>4. /\ ByteAt(mem', x[1], n) = (IF n % 2 = 0 THEN Right(mem'[x], 8) ELSE Lower(mem'[x]))
          /\ ByteAt(mem, x[1], n) = (IF n % 2 = 0 THEN Right(mem[x], 8) ELSE Lower(mem[x]))
      BY <2>7
    <3> HIDE DEF place
    <3> QED
      BY <2>6, <2>8, <3>3, <3>4
  <2>9. CASE x # place
    <3>1. mem'[x] = mem[x]
      BY <2>3, <2>9 DEF Stored
    <3> QED
      BY <2>6, <2>7, <2>9, <3>1
  <2> QED
    BY <2>8, <2>9
<1>2. UNCHANGED instrVars => Holds
  BY DEF Does, instrVars
<1>3. InstrInv /\ [InstrNext]_instrVars => [Holds]_instrVars
  BY <1>1, <1>2
<1> QED
  BY <1>3, InstructionsAlwaysHold, PTL DEF InstrSpec, BytesApart
=============================================================================
